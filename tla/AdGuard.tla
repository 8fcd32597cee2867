------------------------------- MODULE AdGuard -------------------------------
(***************************************************************************)
(* The rewrite list of AdGuard Home, as far as this program can tell:      *)
(* internal/adguard/client.go lists it, and asks for one addition, update  *)
(* or deletion at a time.  The service itself is external.                 *)
(*                                                                         *)
(* The client never looks further than the first entry listed for a domain *)
(* (indexRewrites keeps that one), so the entries of a domain are that     *)
(* entry and the set of the others.  Which of the others becomes the first *)
(* when the first is removed is left to AdGuard.                           *)
(*                                                                         *)
(* "by" is a history component: who wrote the entry last.  Neither AdGuard *)
(* nor the program can see it.                                             *)
(***************************************************************************)
CONSTANTS Domains,    \* normalised DNS names (lower case, no outer dots)
          Answers,    \* IPv4 addresses
          None        \* no domain, no answer, no entry

Authors == {"app", "user"}

\* adguard.Rewrite, without its domain: a list is kept per domain.
Entry == [answer : Answers, by : Authors]

ASSUME NoneAssumption ==
    None \notin Domains /\ None \notin Answers /\ None \notin Entry

RewriteList == [front : Entry \cup {None}, others : SUBSET Entry]

NoRewrites == [front |-> None, others |-> {}]

Listed(list) == list.front # None

\* The answer of the entry that indexRewrites keeps for the domain.
FrontAnswer(list) == IF Listed(list) THEN list.front.answer ELSE None

EntriesOf(list) ==
    IF Listed(list) THEN {list.front} \cup list.others ELSE list.others

\* Who wrote an entry decides nothing; what the program left behind does
\* matter to the properties.
HasAppEntry(list) == \E e \in EntriesOf(list) : e.by = "app"

(***************************************************************************)
(* Effects of the three mutations.  An update names the entry it replaces, *)
(* and AdGuard refuses it when there is no such entry: the set of outcomes *)
(* is empty.  A deletion removes every entry with that answer, and says    *)
(* nothing when there is none.                                             *)
(***************************************************************************)
AfterAdd(list, entry) ==
    IF Listed(list)
      THEN [list EXCEPT !.others = @ \cup {entry}]
      ELSE [list EXCEPT !.front = entry]

AfterUpdate(list, old, entry) ==
    IF FrontAnswer(list) = old
      THEN {[list EXCEPT !.front = entry]}
      ELSE {[list EXCEPT !.others = (@ \ {e}) \cup {entry}] :
               e \in {o \in list.others : o.answer = old}}

AfterDelete(list, answer) ==
    LET left == {e \in list.others : e.answer # answer}
    IN  IF FrontAnswer(list) # answer
          THEN {[list EXCEPT !.others = left]}
          ELSE IF left = {}
                 THEN {NoRewrites}
                 ELSE {[front |-> e, others |-> left \ {e}] : e \in left}
=============================================================================
