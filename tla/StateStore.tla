----------------------------- MODULE StateStore -----------------------------
(***************************************************************************)
(* internal/state/store.go, one system call at a time: Save reads the file *)
(* it is about to replace, refuses when that does not decode, backs it up, *)
(* and replaces it, each time by writing a temporary file and renaming it. *)
(* Any number of processes may run Save on the same path: the program      *)
(* takes no lock (ROADMAP.md:71).                                          *)
(*                                                                         *)
(* The file system is external.  A rename takes effect at once for         *)
(* processes and reaches the disk at some later time, in no promised order *)
(* (the directory is not synced); the bytes of a file are safe from a loss *)
(* of power only once it is synced.                                        *)
(***************************************************************************)
CONSTANTS Versions, Absent, Torn,
          Procs,   \* the processes that save to the path
          Env      \* the events that may happen around them

EventKinds ==
    {"error",    \* a system call fails
     "crash",    \* a process dies
     "power",    \* power is lost
     "damage",   \* something else writes bytes that do not decode
     "remove"}   \* the state file is removed

ASSUME ContentAssumption ==
    /\ Absent \notin Versions
    /\ Torn \notin Versions
    /\ Absent # Torn
ASSUME EnvAssumption == Env \subseteq EventKinds

Contents == Versions \cup {Absent, Torn}

\* The state file and its backup, path and path + ".bak".
Names == {"main", "bak"}

VARIABLES
    live,       \* what each name holds, for the processes
    synced,     \* its bytes are on disk
    disk,       \* what each name would hold after a loss of power
    step,       \* the next system call of each process, or "idle"
    dest,       \* the name its writeAtomicFile is to replace
    wanted,     \* the version its Save was called with
    existing,   \* existingContent
    tmp,        \* its temporary file
    tmpSynced,  \* that file's bytes are on disk
    last,       \* history: the last version a Save completed ...
    before,     \* history: ... and the version completed before that
    refusable,  \* history: the file has been torn ever since Save was called
    undisturbed \* history: one Save at a time, nothing lost or removed so far

files   == <<live, synced, disk>>
process == <<step, dest, wanted, existing, tmp, tmpSynced>>
history == <<last, before, refusable, undisturbed>>
vars    == <<files, process, history>>

Calls == {"idle", "read", "create", "write", "sync", "rename"}

TypeOK ==
    /\ live \in [Names -> Contents]
    /\ synced \in [Names -> BOOLEAN]
    /\ disk \in [Names -> Contents]
    /\ step \in [Procs -> Calls]
    /\ dest \in [Procs -> Names]
    /\ wanted \in [Procs -> Contents]
    /\ existing \in [Procs -> Contents]
    /\ tmp \in [Procs -> Contents]
    /\ tmpSynced \in [Procs -> BOOLEAN]
    /\ last \in Contents
    /\ before \in Contents
    /\ refusable \subseteq Procs
    /\ undisturbed \in BOOLEAN

Init ==
    /\ live = [n \in Names |-> Absent]
    /\ synced = [n \in Names |-> TRUE]
    /\ disk = [n \in Names |-> Absent]
    /\ step = [p \in Procs |-> "idle"]
    /\ dest = [p \in Procs |-> "main"]
    /\ wanted = [p \in Procs |-> Absent]
    /\ existing = [p \in Procs |-> Absent]
    /\ tmp = [p \in Procs |-> Absent]
    /\ tmpSynced = [p \in Procs |-> FALSE]
    /\ last = Absent
    /\ before = Absent
    /\ refusable = {}
    /\ undisturbed = TRUE

-----------------------------------------------------------------------------
(* Save and writeAtomicFile. *)

\* The locals of a process that is not in Save.
Idle(p) ==
    /\ step' = [step EXCEPT ![p] = "idle"]
    /\ dest' = [dest EXCEPT ![p] = "main"]
    /\ wanted' = [wanted EXCEPT ![p] = Absent]
    /\ existing' = [existing EXCEPT ![p] = Absent]
    /\ tmp' = [tmp EXCEPT ![p] = Absent]
    /\ tmpSynced' = [tmpSynced EXCEPT ![p] = FALSE]

\* Save is called with records that validate.
Begin(p, version) ==
    /\ step[p] = "idle"
    /\ step' = [step EXCEPT ![p] = "read"]
    /\ wanted' = [wanted EXCEPT ![p] = version]
    /\ refusable' = IF live["main"] = Torn THEN refusable \cup {p} ELSE refusable
    /\ undisturbed' = (undisturbed /\ \A q \in Procs : step[q] = "idle")
    /\ UNCHANGED <<files, dest, existing, tmp, tmpSynced, last, before>>

\* No file: nothing to back up.
ReadNothing(p) ==
    /\ step[p] = "read"
    /\ live["main"] = Absent
    /\ step' = [step EXCEPT ![p] = "create"]
    /\ UNCHANGED <<files, dest, wanted, existing, tmp, tmpSynced, history>>

\* Slip: the existing file is not decoded.
ReadExistingUnchecked(p) ==
    /\ step[p] = "read"
    /\ live["main"] # Absent
    /\ existing' = [existing EXCEPT ![p] = live["main"]]
    /\ dest' = [dest EXCEPT ![p] = "bak"]
    /\ step' = [step EXCEPT ![p] = "create"]
    /\ UNCHANGED <<files, wanted, tmp, tmpSynced, history>>

\* Slip: the file is decoded and not backed up.
ReadExistingWithoutBackup(p) ==
    /\ step[p] = "read"
    /\ live["main"] \in Versions
    /\ existing' = [existing EXCEPT ![p] = live["main"]]
    /\ step' = [step EXCEPT ![p] = "create"]
    /\ UNCHANGED <<files, dest, wanted, tmp, tmpSynced, history>>

\* A file that decodes: its bytes go to the backup first.
ReadExisting(p) ==
    /\ step[p] = "read"
    /\ live["main"] \in Versions
    /\ existing' = [existing EXCEPT ![p] = live["main"]]
    /\ dest' = [dest EXCEPT ![p] = "bak"]
    /\ step' = [step EXCEPT ![p] = "create"]
    /\ UNCHANGED <<files, wanted, tmp, tmpSynced, history>>

\* "refusing to replace invalid existing state file"
Refuse(p) ==
    /\ step[p] = "read"
    /\ live["main"] = Torn
    /\ Idle(p)
    /\ refusable' = refusable \ {p}
    /\ UNCHANGED <<files, last, before, undisturbed>>

\* Slip: the backup is a copy of the file, not of the bytes that were decoded.
ContentCopied(p) == IF dest[p] = "bak" THEN live["main"] ELSE wanted[p]

\* The argument of writeAtomicFile.
Content(p) == IF dest[p] = "bak" THEN existing[p] ELSE wanted[p]

\* A temporary file that is empty, or only partly written.
CreateTemp(p) ==
    /\ step[p] = "create"
    /\ tmp' = [tmp EXCEPT ![p] = Torn]
    /\ step' = [step EXCEPT ![p] = "write"]
    /\ UNCHANGED <<files, dest, wanted, existing, tmpSynced, history>>

\* Slip: a short write goes unnoticed.
WriteTempShort(p) ==
    /\ step[p] = "write"
    /\ \E content \in {Content(p), Torn} : tmp' = [tmp EXCEPT ![p] = content]
    /\ step' = [step EXCEPT ![p] = "sync"]
    /\ UNCHANGED <<files, dest, wanted, existing, tmpSynced, history>>

WriteTemp(p) ==
    /\ step[p] = "write"
    /\ tmp' = [tmp EXCEPT ![p] = Content(p)]
    /\ step' = [step EXCEPT ![p] = "sync"]
    /\ UNCHANGED <<files, dest, wanted, existing, tmpSynced, history>>

\* Slip: the temporary file is closed without Sync.
SyncTempNot(p) ==
    /\ step[p] = "sync"
    /\ step' = [step EXCEPT ![p] = "rename"]
    /\ UNCHANGED <<files, dest, wanted, existing, tmp, tmpSynced, history>>

SyncTemp(p) ==
    /\ step[p] = "sync"
    /\ tmpSynced' = [tmpSynced EXCEPT ![p] = TRUE]
    /\ step' = [step EXCEPT ![p] = "rename"]
    /\ UNCHANGED <<files, dest, wanted, existing, tmp, history>>

\* The name now stands for the temporary file.
Replace(p) ==
    /\ live' = [live EXCEPT ![dest[p]] = tmp[p]]
    /\ synced' = [synced EXCEPT ![dest[p]] = tmpSynced[p]]
    /\ UNCHANGED disk

\* Slip: the wrong local is cleared.
RenameBackupKeepingTemp(p) ==
    /\ step[p] = "rename"
    /\ dest[p] = "bak"
    /\ Replace(p)
    /\ step' = [step EXCEPT ![p] = "create"]
    /\ dest' = [dest EXCEPT ![p] = "main"]
    /\ tmp' = [tmp EXCEPT ![p] = FALSE]
    /\ tmpSynced' = [tmpSynced EXCEPT ![p] = FALSE]
    /\ UNCHANGED <<wanted, existing, history>>

\* The backup is in place; Save goes on to the state file itself.
RenameBackup(p) ==
    /\ step[p] = "rename"
    /\ dest[p] = "bak"
    /\ Replace(p)
    /\ step' = [step EXCEPT ![p] = "create"]
    /\ dest' = [dest EXCEPT ![p] = "main"]
    /\ tmp' = [tmp EXCEPT ![p] = Absent]
    /\ tmpSynced' = [tmpSynced EXCEPT ![p] = FALSE]
    /\ UNCHANGED <<wanted, existing, history>>

RenameState(p) ==
    /\ step[p] = "rename"
    /\ dest[p] = "main"
    /\ Replace(p)
    /\ last' = tmp[p]
    /\ before' = last
    /\ refusable' = {}
    /\ Idle(p)
    /\ UNCHANGED undisturbed

\* Save returns an error.  A temporary file is removed on the way out; one that
\* cannot be removed stays under a name that nothing reads.
Fail(p) ==
    /\ "error" \in Env
    /\ step[p] # "idle"
    /\ Idle(p)
    /\ refusable' = refusable \ {p}
    /\ UNCHANGED <<files, last, before, undisturbed>>

-----------------------------------------------------------------------------
(* Events. *)

\* The process dies in Save.  Its temporary file stays under a name that
\* nothing reads.
Crash(p) ==
    /\ "crash" \in Env
    /\ step[p] # "idle"
    /\ Idle(p)
    /\ refusable' = refusable \ {p}
    /\ UNCHANGED <<files, last, before, undisturbed>>

\* The disk catches up with a name.  Bytes that were never synced may be
\* missing from it.
Flush(n) ==
    /\ "power" \in Env
    /\ \E content \in IF synced[n] THEN {live[n]} ELSE {live[n], Torn} :
          disk' = [disk EXCEPT ![n] = content]
    /\ UNCHANGED <<live, synced, process, history>>

PowerLoss ==
    /\ "power" \in Env
    /\ live' = disk
    /\ synced' = [n \in Names |-> TRUE]
    /\ step' = [p \in Procs |-> "idle"]
    /\ dest' = [p \in Procs |-> "main"]
    /\ wanted' = [p \in Procs |-> Absent]
    /\ existing' = [p \in Procs |-> Absent]
    /\ tmp' = [p \in Procs |-> Absent]
    /\ tmpSynced' = [p \in Procs |-> FALSE]
    /\ refusable' = {}
    /\ undisturbed' = FALSE
    /\ UNCHANGED <<disk, last, before>>

Damage ==
    /\ "damage" \in Env
    /\ live' = [live EXCEPT !["main"] = Torn]
    /\ UNCHANGED <<synced, disk, process, history>>

Remove ==
    /\ "remove" \in Env
    /\ live' = [live EXCEPT !["main"] = Absent]
    /\ refusable' = {}
    /\ undisturbed' = FALSE
    /\ UNCHANGED <<synced, disk, process, last, before>>

-----------------------------------------------------------------------------
SaveStep(p) ==
    \/ ReadNothing(p) \/ ReadExisting(p) \/ Refuse(p)
    \/ CreateTemp(p) \/ WriteTemp(p) \/ SyncTemp(p)
    \/ RenameBackup(p) \/ RenameState(p)

Events ==
    \/ \E p \in Procs : Fail(p) \/ Crash(p)
    \/ \E n \in Names : Flush(n)
    \/ PowerLoss \/ Damage \/ Remove

Next ==
    \/ \E p \in Procs : SaveStep(p) \/ \E version \in Versions : Begin(p, version)
    \/ Events

Spec == Init /\ [][Next]_vars

-----------------------------------------------------------------------------
(* What the store promises. *)

\* Whatever stops a Save, and whenever power is lost, a state file that decodes
\* or is absent stays so, for processes and on disk: only something else can
\* damage it (writeAtomicFile, store.go:311-384).
NeverTorn ==
    [][~Damage /\ live["main"] # Torn /\ disk["main"] # Torn =>
          live'["main"] # Torn /\ disk'["main"] # Torn]_vars

\* The backup decodes or is absent, now and after a loss of power, even when
\* the state file is damaged between the moment Save reads it and the moment
\* the backup is written (store.go:121-143).
BackupDecodes == live["bak"] # Torn /\ disk["bak"] # Torn

\* As long as one Save ran at a time and no file was lost or removed: the
\* backup holds the version saved last or the one saved before it, whatever
\* failed or died in between, so that a Save that went wrong, or a state file
\* damaged since, costs at most one version.  There is no backup only while
\* fewer than two versions were saved (store.go:121-147).
BackupIsRecent == undisturbed => live["bak"] \in {last, before}

\* The state file was damaged before Save was called and has not been touched
\* since: Save does not replace it (TestSaveRefusesToReplaceCorruptExistingState,
\* store_test.go:765).
RefusesDamaged ==
    [][\A p \in refusable : ~RenameState(p)]_vars

\* The inductive invariant behind these.  What a process is about to put in
\* place is whole and on disk ...
WriteInProgress ==
    \A p \in Procs :
        /\ step[p] # "idle" => wanted[p] \in Versions
        /\ dest[p] = "bak" => existing[p] \in Versions
        /\ step[p] \in {"sync", "rename"} => tmp[p] = Content(p)
        /\ step[p] = "rename" => tmpSynced[p]

\* ... so every name stands for bytes that are on disk ...
EverythingSynced == \A n \in Names : synced[n]

\* ... and a Save that must refuse has not got past reading.
RefusalAhead ==
    \A p \in refusable : step[p] = "read" /\ live["main"] = Torn

StoreInvariant ==
    /\ TypeOK
    /\ WriteInProgress
    /\ EverythingSynced
    /\ RefusalAhead
    /\ BackupDecodes

\* The order of the backup and the state file within an undisturbed Save.
BackupLineage ==
    undisturbed =>
        /\ live["main"] \in {last, Torn}
        /\ live["bak"] \in {last, before}
        /\ last = Absent => before = Absent
        /\ \A p, q \in Procs : step[p] # "idle" /\ step[q] # "idle" => p = q
        /\ \A p \in Procs :
              /\ step[p] = "idle" => dest[p] = "main"
              /\ dest[p] = "bak" => existing[p] = last
              /\ step[p] \notin {"idle", "read"} /\ dest[p] = "main" =>
                    live["bak"] = last

\* The abstract store, of which Save is a single step.
Atomic == INSTANCE AtomicStore WITH content <- live["main"], durable <- disk["main"]

IsAtomic == Atomic!Spec
=============================================================================
