----------------------------- MODULE AtomicStore -----------------------------
(***************************************************************************)
(* What internal/state/store.go promises of the state file: it is replaced *)
(* as a whole or not at all.  content is what Load reads, durable what it  *)
(* would read after a loss of power; the disk follows some time later, and *)
(* only ever with something Load could have read.  Others may damage or    *)
(* remove the file.                                                        *)
(***************************************************************************)
CONSTANTS Versions,   \* the encodings of ownership records
          Absent,     \* there is no file
          Torn        \* bytes that do not decode

Contents == Versions \cup {Absent, Torn}

VARIABLES content, durable

vars == <<content, durable>>

Init == content = Absent /\ durable = Absent

Commit(version) == content' = version /\ UNCHANGED durable

Persist == durable' = content /\ UNCHANGED content

PowerLoss == content' = durable /\ UNCHANGED durable

Damage == content' = Torn /\ UNCHANGED durable

Remove == content' = Absent /\ UNCHANGED durable

Next ==
    \/ \E version \in Versions : Commit(version)
    \/ Persist \/ PowerLoss \/ Damage \/ Remove

Spec == Init /\ [][Next]_vars
=============================================================================
