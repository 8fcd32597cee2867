----------------------------- MODULE MCInstances -----------------------------
(***************************************************************************)
(* Two instances and one domain.  A user's list may be empty, a plain      *)
(* entry, or an odd entry in front of a plain one.                         *)
(***************************************************************************)
EXTENDS Instances, TLC

CONSTANTS d1, d2, a1, a2, p1, p2

ByUser(answer, plain) == [answer |-> answer, plain |-> plain, by |-> "user"]

MCWishes == AnswerMap

MCUserLists ==
    {<<>>, <<ByUser(a1, TRUE)>>, <<ByUser(a1, FALSE), ByUser(a1, TRUE)>>}
=============================================================================
