-------------------------- MODULE StateStoreProofs --------------------------
(***************************************************************************)
(* Proofs about StateStore, for any versions and any number of processes.  *)
(***************************************************************************)
EXTENDS StateStore, TLAPS

LEMMA InitTypeOK == Init => TypeOK
  BY DEF Init, TypeOK, Contents, Names, Calls

LEMMA NextTypeOK == TypeOK /\ [Next]_vars => TypeOK'
<1> SUFFICES ASSUME TypeOK, [Next]_vars PROVE TypeOK'
  OBVIOUS
<1> USE DEF TypeOK, Contents, Names, Calls
<1>1. ASSUME NEW p \in Procs, NEW version \in Versions, Begin(p, version)
      PROVE  TypeOK'
  BY <1>1 DEF Begin, files
<1>2. ASSUME NEW p \in Procs, ReadNothing(p) PROVE TypeOK'
  BY <1>2 DEF ReadNothing, files, history
<1>3. ASSUME NEW p \in Procs, ReadExisting(p) PROVE TypeOK'
  BY <1>3 DEF ReadExisting, files, history
<1>4. ASSUME NEW p \in Procs, Refuse(p) PROVE TypeOK'
  BY <1>4 DEF Refuse, Idle, files
<1>5. ASSUME NEW p \in Procs, CreateTemp(p) PROVE TypeOK'
  BY <1>5 DEF CreateTemp, files, history
<1>6. ASSUME NEW p \in Procs, WriteTemp(p) PROVE TypeOK'
  BY <1>6 DEF WriteTemp, Content, files, history
<1>7. ASSUME NEW p \in Procs, SyncTemp(p) PROVE TypeOK'
  BY <1>7 DEF SyncTemp, files, history
<1>8. ASSUME NEW p \in Procs, RenameBackup(p) PROVE TypeOK'
  BY <1>8 DEF RenameBackup, Replace, history
<1>9. ASSUME NEW p \in Procs, RenameState(p) PROVE TypeOK'
  BY <1>9 DEF RenameState, Replace, Idle
<1>10. ASSUME NEW p \in Procs, Fail(p) \/ Crash(p) PROVE TypeOK'
  BY <1>10 DEF Fail, Crash, Idle, files
<1>11. ASSUME NEW n \in Names, Flush(n) PROVE TypeOK'
  BY <1>11 DEF Flush, process, history
<1>12. CASE PowerLoss
  BY <1>12 DEF PowerLoss
<1>13. CASE Damage
  BY <1>13 DEF Damage, process, history
<1>14. CASE Remove
  BY <1>14 DEF Remove, process
<1>15. CASE UNCHANGED vars
  BY <1>15 DEF vars, files, process, history
<1> QED
  BY <1>1, <1>2, <1>3, <1>4, <1>5, <1>6, <1>7, <1>8, <1>9, <1>10, <1>11,
     <1>12, <1>13, <1>14, <1>15 DEF Next, SaveStep, Events

\* Every variable keeps to its type in every behaviour of the store.
THEOREM TypeCorrect == Spec => []TypeOK
  BY InitTypeOK, NextTypeOK, PTL DEF Spec

-----------------------------------------------------------------------------
(***************************************************************************)
(* The safety invariant.  Each conjunct has its own lemma: it holds after  *)
(* any step from a state of the whole invariant.                           *)
(***************************************************************************)
LEMMA NextWriteInProgress == StoreInvariant /\ [Next]_vars => WriteInProgress'
<1> SUFFICES ASSUME StoreInvariant, [Next]_vars PROVE WriteInProgress'
  OBVIOUS
<1> USE ContentAssumption DEF StoreInvariant, TypeOK, WriteInProgress, Content, Contents, Names, Calls
<1>1. ASSUME NEW p \in Procs, NEW version \in Versions, Begin(p, version)
      PROVE  WriteInProgress'
  BY <1>1 DEF Begin, files
<1>2. ASSUME NEW p \in Procs, ReadNothing(p) PROVE WriteInProgress'
  BY <1>2 DEF ReadNothing, files, history
<1>3. ASSUME NEW p \in Procs, ReadExisting(p) PROVE WriteInProgress'
  BY <1>3 DEF ReadExisting, files, history
<1>4. ASSUME NEW p \in Procs, Refuse(p) PROVE WriteInProgress'
  BY <1>4 DEF Refuse, Idle, files
<1>5. ASSUME NEW p \in Procs, CreateTemp(p) PROVE WriteInProgress'
  BY <1>5 DEF CreateTemp, files, history
<1>6. ASSUME NEW p \in Procs, WriteTemp(p) PROVE WriteInProgress'
  BY <1>6 DEF WriteTemp, files, history
<1>7. ASSUME NEW p \in Procs, SyncTemp(p) PROVE WriteInProgress'
  BY <1>7 DEF SyncTemp, files, history
<1>8. ASSUME NEW p \in Procs, RenameBackup(p) PROVE WriteInProgress'
  BY <1>8 DEF RenameBackup, Replace, history
<1>9. ASSUME NEW p \in Procs, RenameState(p) PROVE WriteInProgress'
  BY <1>9 DEF RenameState, Replace, Idle
<1>10. ASSUME NEW p \in Procs, Fail(p) \/ Crash(p) PROVE WriteInProgress'
  BY <1>10 DEF Fail, Crash, Idle, files
<1>11. ASSUME NEW n \in Names, Flush(n) PROVE WriteInProgress'
  BY <1>11 DEF Flush, process, history
<1>12. CASE PowerLoss
  BY <1>12 DEF PowerLoss
<1>13. CASE Damage
  BY <1>13 DEF Damage, process, history
<1>14. CASE Remove
  BY <1>14 DEF Remove, process
<1>15. CASE UNCHANGED vars
  BY <1>15 DEF vars, files, process, history
<1> QED
  BY <1>1, <1>2, <1>3, <1>4, <1>5, <1>6, <1>7, <1>8, <1>9, <1>10, <1>11,
     <1>12, <1>13, <1>14, <1>15 DEF Next, SaveStep, Events

LEMMA NextEverythingSynced == StoreInvariant /\ [Next]_vars => EverythingSynced'
<1> SUFFICES ASSUME StoreInvariant, [Next]_vars PROVE EverythingSynced'
  OBVIOUS
<1> USE ContentAssumption DEF StoreInvariant, TypeOK, WriteInProgress, EverythingSynced, Names, Calls
<1>1. ASSUME NEW p \in Procs, NEW version \in Versions, Begin(p, version)
      PROVE  EverythingSynced'
  BY <1>1 DEF Begin, files
<1>2. ASSUME NEW p \in Procs, ReadNothing(p) PROVE EverythingSynced'
  BY <1>2 DEF ReadNothing, files, history
<1>3. ASSUME NEW p \in Procs, ReadExisting(p) PROVE EverythingSynced'
  BY <1>3 DEF ReadExisting, files, history
<1>4. ASSUME NEW p \in Procs, Refuse(p) PROVE EverythingSynced'
  BY <1>4 DEF Refuse, Idle, files
<1>5. ASSUME NEW p \in Procs, CreateTemp(p) PROVE EverythingSynced'
  BY <1>5 DEF CreateTemp, files, history
<1>6. ASSUME NEW p \in Procs, WriteTemp(p) PROVE EverythingSynced'
  BY <1>6 DEF WriteTemp, files, history
<1>7. ASSUME NEW p \in Procs, SyncTemp(p) PROVE EverythingSynced'
  BY <1>7 DEF SyncTemp, files, history
<1>8. ASSUME NEW p \in Procs, RenameBackup(p) PROVE EverythingSynced'
  BY <1>8 DEF RenameBackup, Replace, history
<1>9. ASSUME NEW p \in Procs, RenameState(p) PROVE EverythingSynced'
  BY <1>9 DEF RenameState, Replace, Idle
<1>10. ASSUME NEW p \in Procs, Fail(p) \/ Crash(p) PROVE EverythingSynced'
  BY <1>10 DEF Fail, Crash, Idle, files
<1>11. ASSUME NEW n \in Names, Flush(n) PROVE EverythingSynced'
  BY <1>11 DEF Flush, process, history
<1>12. CASE PowerLoss
  BY <1>12 DEF PowerLoss
<1>13. CASE Damage
  BY <1>13 DEF Damage, process, history
<1>14. CASE Remove
  BY <1>14 DEF Remove, process
<1>15. CASE UNCHANGED vars
  BY <1>15 DEF vars, files, process, history
<1> QED
  BY <1>1, <1>2, <1>3, <1>4, <1>5, <1>6, <1>7, <1>8, <1>9, <1>10, <1>11,
     <1>12, <1>13, <1>14, <1>15 DEF Next, SaveStep, Events

LEMMA NextRefusalAhead == StoreInvariant /\ [Next]_vars => RefusalAhead'
<1> SUFFICES ASSUME StoreInvariant, [Next]_vars PROVE RefusalAhead'
  OBVIOUS
<1> USE ContentAssumption DEF StoreInvariant, TypeOK, WriteInProgress, RefusalAhead, Names, Calls
<1>1. ASSUME NEW p \in Procs, NEW version \in Versions, Begin(p, version)
      PROVE  RefusalAhead'
  BY <1>1 DEF Begin, files
<1>2. ASSUME NEW p \in Procs, ReadNothing(p) PROVE RefusalAhead'
  BY <1>2 DEF ReadNothing, files, history
<1>3. ASSUME NEW p \in Procs, ReadExisting(p) PROVE RefusalAhead'
  BY <1>3 DEF ReadExisting, files, history
<1>4. ASSUME NEW p \in Procs, Refuse(p) PROVE RefusalAhead'
  BY <1>4 DEF Refuse, Idle, files
<1>5. ASSUME NEW p \in Procs, CreateTemp(p) PROVE RefusalAhead'
  BY <1>5 DEF CreateTemp, files, history
<1>6. ASSUME NEW p \in Procs, WriteTemp(p) PROVE RefusalAhead'
  BY <1>6 DEF WriteTemp, files, history
<1>7. ASSUME NEW p \in Procs, SyncTemp(p) PROVE RefusalAhead'
  BY <1>7 DEF SyncTemp, files, history
<1>8. ASSUME NEW p \in Procs, RenameBackup(p) PROVE RefusalAhead'
  BY <1>8 DEF RenameBackup, Replace, history
<1>9. ASSUME NEW p \in Procs, RenameState(p) PROVE RefusalAhead'
  BY <1>9 DEF RenameState, Replace, Idle
<1>10. ASSUME NEW p \in Procs, Fail(p) \/ Crash(p) PROVE RefusalAhead'
  BY <1>10 DEF Fail, Crash, Idle, files
<1>11. ASSUME NEW n \in Names, Flush(n) PROVE RefusalAhead'
  BY <1>11 DEF Flush, process, history
<1>12. CASE PowerLoss
  BY <1>12 DEF PowerLoss
<1>13. CASE Damage
  BY <1>13 DEF Damage, process, history
<1>14. CASE Remove
  BY <1>14 DEF Remove, process
<1>15. CASE UNCHANGED vars
  BY <1>15 DEF vars, files, process, history
<1> QED
  BY <1>1, <1>2, <1>3, <1>4, <1>5, <1>6, <1>7, <1>8, <1>9, <1>10, <1>11,
     <1>12, <1>13, <1>14, <1>15 DEF Next, SaveStep, Events

LEMMA NextBackupDecodes == StoreInvariant /\ [Next]_vars => BackupDecodes'
<1> SUFFICES ASSUME StoreInvariant, [Next]_vars PROVE BackupDecodes'
  OBVIOUS
<1> USE ContentAssumption DEF StoreInvariant, TypeOK, WriteInProgress, EverythingSynced, BackupDecodes, Content, Names, Calls
<1>1. ASSUME NEW p \in Procs, NEW version \in Versions, Begin(p, version)
      PROVE  BackupDecodes'
  BY <1>1 DEF Begin, files
<1>2. ASSUME NEW p \in Procs, ReadNothing(p) PROVE BackupDecodes'
  BY <1>2 DEF ReadNothing, files, history
<1>3. ASSUME NEW p \in Procs, ReadExisting(p) PROVE BackupDecodes'
  BY <1>3 DEF ReadExisting, files, history
<1>4. ASSUME NEW p \in Procs, Refuse(p) PROVE BackupDecodes'
  BY <1>4 DEF Refuse, Idle, files
<1>5. ASSUME NEW p \in Procs, CreateTemp(p) PROVE BackupDecodes'
  BY <1>5 DEF CreateTemp, files, history
<1>6. ASSUME NEW p \in Procs, WriteTemp(p) PROVE BackupDecodes'
  BY <1>6 DEF WriteTemp, files, history
<1>7. ASSUME NEW p \in Procs, SyncTemp(p) PROVE BackupDecodes'
  BY <1>7 DEF SyncTemp, files, history
<1>8. ASSUME NEW p \in Procs, RenameBackup(p) PROVE BackupDecodes'
  BY <1>8 DEF RenameBackup, Replace, history
<1>9. ASSUME NEW p \in Procs, RenameState(p) PROVE BackupDecodes'
  BY <1>9 DEF RenameState, Replace, Idle
<1>10. ASSUME NEW p \in Procs, Fail(p) \/ Crash(p) PROVE BackupDecodes'
  BY <1>10 DEF Fail, Crash, Idle, files
<1>11. ASSUME NEW n \in Names, Flush(n) PROVE BackupDecodes'
  BY <1>11 DEF Flush, process, history
<1>12. CASE PowerLoss
  BY <1>12 DEF PowerLoss
<1>13. CASE Damage
  BY <1>13 DEF Damage, process, history
<1>14. CASE Remove
  BY <1>14 DEF Remove, process
<1>15. CASE UNCHANGED vars
  BY <1>15 DEF vars, files, process, history
<1> QED
  BY <1>1, <1>2, <1>3, <1>4, <1>5, <1>6, <1>7, <1>8, <1>9, <1>10, <1>11,
     <1>12, <1>13, <1>14, <1>15 DEF Next, SaveStep, Events

LEMMA InitStoreInvariant == Init => StoreInvariant
<1> SUFFICES ASSUME Init PROVE StoreInvariant
  OBVIOUS
<1>1. TypeOK
  BY InitTypeOK
<1>2. WriteInProgress /\ EverythingSynced /\ RefusalAhead
  BY DEF Init, WriteInProgress, EverythingSynced, RefusalAhead
<1>3. BackupDecodes
  BY ContentAssumption DEF Init, BackupDecodes, Names
<1> QED
  BY <1>1, <1>2, <1>3 DEF StoreInvariant

LEMMA NextStoreInvariant == StoreInvariant /\ [Next]_vars => StoreInvariant'
<1> SUFFICES ASSUME StoreInvariant, [Next]_vars PROVE StoreInvariant'
  OBVIOUS
<1>1. TypeOK'
  BY NextTypeOK DEF StoreInvariant
<1> QED
  BY <1>1, NextWriteInProgress, NextEverythingSynced, NextRefusalAhead,
     NextBackupDecodes DEF StoreInvariant

\* The invariant holds in every reachable state.
THEOREM StoreInvariantHolds == Spec => []StoreInvariant
  BY InitStoreInvariant, NextStoreInvariant, PTL DEF Spec

\* What a step other than damage makes of a state file that is whole: a
\* process puts only what it was called with in place, and the disk and a loss
\* of power only exchange what is whole on either side.
LEMMA StepNeverTorn ==
  ASSUME StoreInvariant, [Next]_vars, ~Damage,
         live["main"] # Torn, disk["main"] # Torn
  PROVE  live'["main"] # Torn /\ disk'["main"] # Torn
<1> USE ContentAssumption DEF StoreInvariant, TypeOK, Names
<1>1. ASSUME NEW p \in Procs, NEW version \in Versions, Begin(p, version)
      PROVE  UNCHANGED <<live, disk>>
  BY <1>1 DEF Begin, files
<1>2. ASSUME NEW p \in Procs,
             ReadNothing(p) \/ ReadExisting(p) \/ Refuse(p) \/ CreateTemp(p)
             \/ WriteTemp(p) \/ SyncTemp(p) \/ Fail(p) \/ Crash(p)
      PROVE  UNCHANGED <<live, disk>>
  BY <1>2 DEF ReadNothing, ReadExisting, Refuse, CreateTemp, WriteTemp,
     SyncTemp, Fail, Crash, files
<1>3. ASSUME NEW p \in Procs, RenameBackup(p)
      PROVE  live'["main"] = live["main"] /\ disk' = disk
  BY <1>3 DEF RenameBackup, Replace
<1>4. ASSUME NEW p \in Procs, RenameState(p)
      PROVE  live'["main"] \in Versions /\ disk' = disk
  BY <1>4 DEF RenameState, Replace, WriteInProgress, Content
<1>5. ASSUME NEW n \in Names, Flush(n)
      PROVE  live' = live /\ disk' = [disk EXCEPT ![n] = live[n]]
  BY <1>5 DEF Flush, EverythingSynced
<1>6. CASE PowerLoss
  BY <1>6 DEF PowerLoss
<1>7. CASE Remove
  BY <1>7 DEF Remove
<1>8. CASE UNCHANGED vars
  BY <1>8 DEF vars, files
<1> QED
  BY <1>1, <1>2, <1>3, <1>4, <1>5, <1>6, <1>7, <1>8
     DEF Next, SaveStep, Events

\* No failure, death of a process or loss of power makes the state file
\* undecodable, however many processes save to it at once.
THEOREM StateFileNeverTorn == Spec => NeverTorn
<1>1. StoreInvariant /\ [Next]_vars =>
        [~Damage /\ live["main"] # Torn /\ disk["main"] # Torn =>
           live'["main"] # Torn /\ disk'["main"] # Torn]_vars
  BY StepNeverTorn
<1> QED
  BY <1>1, StoreInvariantHolds, PTL DEF Spec, NeverTorn

\* The backup decodes whatever else damages the state file, and when.
THEOREM BackupAlwaysDecodes == Spec => []BackupDecodes
<1>1. StoreInvariant => BackupDecodes
  BY DEF StoreInvariant
<1> QED
  BY <1>1, StoreInvariantHolds, PTL

\* Save never replaces a file that was damaged before it was called.
THEOREM DamagedFileRefused == Spec => RefusesDamaged
<1>1. StoreInvariant /\ [Next]_vars =>
        [\A p \in refusable : ~RenameState(p)]_vars
  BY DEF StoreInvariant, RefusalAhead, RenameState
<1> QED
  BY <1>1, StoreInvariantHolds, PTL DEF Spec, RefusesDamaged

-----------------------------------------------------------------------------
(***************************************************************************)
(* Save implements one atomic step: every call before the rename of the    *)
(* state file is a stutter of the abstract store, and that rename commits. *)
(***************************************************************************)
LEMMA StepIsAtomic ==
  StoreInvariant /\ [Next]_vars => [Atomic!Next]_(Atomic!vars)
<1> SUFFICES ASSUME StoreInvariant, [Next]_vars
             PROVE  Atomic!Next \/ UNCHANGED <<live["main"], disk["main"]>>
  BY DEF Atomic!vars
<1> USE DEF StoreInvariant, TypeOK, Names
<1>1. ASSUME NEW p \in Procs, NEW version \in Versions, Begin(p, version)
      PROVE  UNCHANGED <<live["main"], disk["main"]>>
  BY <1>1 DEF Begin, files
<1>2. ASSUME NEW p \in Procs,
             ReadNothing(p) \/ ReadExisting(p) \/ Refuse(p) \/ CreateTemp(p)
             \/ WriteTemp(p) \/ SyncTemp(p) \/ Fail(p) \/ Crash(p)
      PROVE  UNCHANGED <<live["main"], disk["main"]>>
  BY <1>2 DEF ReadNothing, ReadExisting, Refuse, CreateTemp, WriteTemp,
     SyncTemp, Fail, Crash, files
<1>3. ASSUME NEW p \in Procs, RenameBackup(p)
      PROVE  UNCHANGED <<live["main"], disk["main"]>>
  BY <1>3 DEF RenameBackup, Replace
<1>4. ASSUME NEW p \in Procs, RenameState(p) PROVE Atomic!Next
  <2>1. wanted[p] \in Versions /\ tmp[p] = wanted[p]
    BY <1>4 DEF RenameState, WriteInProgress, Content
  <2>2. Atomic!Commit(wanted[p])
    BY <1>4, <2>1 DEF RenameState, Replace, Atomic!Commit
  <2> QED
    BY <2>1, <2>2 DEF Atomic!Next
<1>5. ASSUME NEW n \in Names, Flush(n)
      PROVE  Atomic!Next \/ UNCHANGED <<live["main"], disk["main"]>>
  <2>1. live' = live /\ disk' = [disk EXCEPT ![n] = live[n]]
    BY <1>5 DEF Flush, EverythingSynced
  <2> QED
    BY <2>1 DEF Atomic!Next, Atomic!Persist
<1>6. CASE PowerLoss
  BY <1>6 DEF PowerLoss, Atomic!Next, Atomic!PowerLoss
<1>7. CASE Damage
  BY <1>7 DEF Damage, Atomic!Next, Atomic!Damage
<1>8. CASE Remove
  BY <1>8 DEF Remove, Atomic!Next, Atomic!Remove
<1>9. CASE UNCHANGED vars
  BY <1>9 DEF vars, files
<1> QED
  BY <1>1, <1>2, <1>3, <1>4, <1>5, <1>6, <1>7, <1>8, <1>9
     DEF Next, SaveStep, Events

\* The store implements the abstract one, which replaces the state file as a
\* whole or not at all.
THEOREM StoreIsAtomic == Spec => IsAtomic
<1>1. Init => Atomic!Init
  BY DEF Init, Names, Atomic!Init
<1> QED
  BY <1>1, StepIsAtomic, StoreInvariantHolds, PTL DEF Spec, IsAtomic, Atomic!Spec

-----------------------------------------------------------------------------
(***************************************************************************)
(* What the backup holds, as long as Saves did not overlap and nothing was *)
(* lost or removed.                                                        *)
(***************************************************************************)
LEMMA NextBackupLineage ==
  StoreInvariant /\ BackupLineage /\ [Next]_vars => BackupLineage'
<1> SUFFICES ASSUME StoreInvariant, BackupLineage, [Next]_vars
             PROVE  BackupLineage'
  OBVIOUS
<1> USE ContentAssumption
    DEF StoreInvariant, TypeOK, WriteInProgress, BackupLineage,
        BackupIsRecent, Content, Names, Calls
<1>1. ASSUME NEW p \in Procs, NEW version \in Versions, Begin(p, version)
      PROVE  BackupLineage'
  BY <1>1 DEF Begin, files
<1>2. ASSUME NEW p \in Procs, ReadNothing(p) PROVE BackupLineage'
  BY <1>2 DEF ReadNothing, files, history
<1>3. ASSUME NEW p \in Procs, ReadExisting(p) PROVE BackupLineage'
  BY <1>3 DEF ReadExisting, files, history
<1>4. ASSUME NEW p \in Procs, Refuse(p) PROVE BackupLineage'
  BY <1>4 DEF Refuse, Idle, files
<1>5. ASSUME NEW p \in Procs, CreateTemp(p) PROVE BackupLineage'
  BY <1>5 DEF CreateTemp, files, history
<1>6. ASSUME NEW p \in Procs, WriteTemp(p) PROVE BackupLineage'
  BY <1>6 DEF WriteTemp, files, history
<1>7. ASSUME NEW p \in Procs, SyncTemp(p) PROVE BackupLineage'
  BY <1>7 DEF SyncTemp, files, history
<1>8. ASSUME NEW p \in Procs, RenameBackup(p) PROVE BackupLineage'
  BY <1>8 DEF RenameBackup, Replace, history
<1>9. ASSUME NEW p \in Procs, RenameState(p) PROVE BackupLineage'
  BY <1>9 DEF RenameState, Replace, Idle
<1>10. ASSUME NEW p \in Procs, Fail(p) \/ Crash(p) PROVE BackupLineage'
  <2>1. Idle(p) /\ UNCHANGED <<live, last, before, undisturbed>>
    BY <1>10 DEF Fail, Crash, files
  <2>2. \A q \in Procs : step'[q] # "idle" => q # p /\ step[q] = step'[q]
    BY <2>1 DEF Idle
  <2>3. \A q \in Procs : dest'[q] = "bak" => dest[q] = "bak" /\ existing'[q] = existing[q]
    BY <2>1 DEF Idle
  <2>4. undisturbed => \A q \in Procs : step'[q] = "idle" => dest'[q] = "main"
    BY <2>1 DEF Idle
  <2>5. \A q \in Procs \ {p} : dest'[q] = dest[q]
    BY <2>1 DEF Idle
  <2> QED
    BY <2>1, <2>2, <2>3, <2>4, <2>5
<1>11. ASSUME NEW n \in Names, Flush(n) PROVE BackupLineage'
  BY <1>11 DEF Flush, process, history
<1>12. CASE PowerLoss
  BY <1>12 DEF PowerLoss
<1>13. CASE Damage
  BY <1>13 DEF Damage, process, history
<1>14. CASE Remove
  BY <1>14 DEF Remove, process
<1>15. CASE UNCHANGED vars
  BY <1>15 DEF vars, files, process, history
<1> QED
  BY <1>1, <1>2, <1>3, <1>4, <1>5, <1>6, <1>7, <1>8, <1>9, <1>10, <1>11,
     <1>12, <1>13, <1>14, <1>15 DEF Next, SaveStep, Events

\* A Save that goes wrong costs at most one version: as long as saves have not
\* overlapped and nothing was lost or removed, the backup holds the version
\* saved last or the one before it, and from the second one on there is a
\* backup (store.go:121-153).
THEOREM BackupStaysRecent == Spec => []BackupIsRecent
<1>1. Init => BackupLineage
  BY DEF Init, BackupLineage, Names
<1>2. BackupLineage => BackupIsRecent
  BY DEF BackupLineage, BackupIsRecent
<1> QED
  BY <1>1, <1>2, NextBackupLineage, StoreInvariantHolds, PTL DEF Spec
=============================================================================
