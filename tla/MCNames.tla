------------------------------- MODULE MCNames -------------------------------
(***************************************************************************)
(* Inputs for Names: one character of each class, in every short name with *)
(* a plain suffix and every short suffix with a plain name.  The two are   *)
(* normalised apart from each other.                                       *)
(***************************************************************************)
EXTENDS Names

CONSTANT MaxLength   \* bound on the length of the name, and of the suffix

MCLowerOf == [c \in {"A"} |-> "a"]

Texts == UNION {[1 .. n -> Characters] : n \in 0 .. MaxLength}

MCInputs == [name : Texts, suffix : {<<"a">>}] \cup [name : {<<"a">>}, suffix : Texts]
=============================================================================
