----------------------------- MODULE SyncProofs -----------------------------
(***************************************************************************)
(* Proofs about Sync, for any guests, domains and answers and any events.  *)
(***************************************************************************)
EXTENDS Sync, TLAPS

(* What the pure operators return. *)

LEMMA FrontAnswerType ==
  ASSUME NEW list \in RewriteList
  PROVE  FrontAnswer(list) \in Answers \cup {None}
  BY DEF FrontAnswer, Listed, RewriteList, Entry

LEMMA AfterAddType ==
  ASSUME NEW list \in RewriteList, NEW entry \in Entry
  PROVE  AfterAdd(list, entry) \in RewriteList
  BY DEF AfterAdd, Listed, RewriteList

LEMMA AfterUpdateType ==
  ASSUME NEW list \in RewriteList, NEW entry \in Entry, NEW old,
         NEW result \in AfterUpdate(list, old, entry)
  PROVE  result \in RewriteList
  BY DEF AfterUpdate, RewriteList

LEMMA AfterDeleteType ==
  ASSUME NEW list \in RewriteList, NEW answer, NEW result \in AfterDelete(list, answer)
  PROVE  result \in RewriteList
  BY DEF AfterDelete, RewriteList, NoRewrites

LEMMA UserEditsType ==
  ASSUME NEW list \in RewriteList, NEW result \in UserEdits(list)
  PROVE  result \in RewriteList
<1>1. \A a \in Answers : [answer |-> a, by |-> "user"] \in Entry
  BY DEF Entry, Authors
<1>2. CASE \E a \in Answers : result = AfterAdd(list, [answer |-> a, by |-> "user"])
  BY <1>1, <1>2, AfterAddType
<1>3. CASE \E a \in Answers : result \in AfterDelete(list, a)
  BY <1>3, AfterDeleteType
<1>4. CASE \E a \in Answers :
             result = [list EXCEPT !.front = [answer |-> a, by |-> "user"]]
  BY <1>1, <1>4 DEF RewriteList
<1> QED
  BY <1>2, <1>3, <1>4 DEF UserEdits

LEMMA IndexType ==
  ASSUME NEW rewrites \in [Domains -> RewriteList]
  PROVE  indexRewrites(rewrites) \in AnswerMap
  BY FrontAnswerType DEF indexRewrites, AnswerMap

\* The desired rewrites answer with the address of a guest of that name.
LEMMA DesiredFromGuest ==
  ASSUME NEW targets \in Targets, NEW d \in Domains,
         BuildDesiredRewrites(targets)[d] # None
  PROVE  \E g \in Guests :
            /\ targets[g] # None
            /\ targets[g].domain = d
            /\ BuildDesiredRewrites(targets)[d] = targets[g].answer
<1> DEFINE chosen == CHOOSE g \in ClaimedBy(targets, d) : TRUE
<1>1. ClaimedBy(targets, d) # {}
  BY DEF BuildDesiredRewrites
<1>2. chosen \in ClaimedBy(targets, d)
  BY <1>1
<1>3. BuildDesiredRewrites(targets)[d] = targets[chosen].answer
  BY <1>1 DEF BuildDesiredRewrites
<1> QED
  BY <1>2, <1>3 DEF ClaimedBy

\* Every guest is in them unless two guests share a name.
LEMMA DesiredHasGuest ==
  ASSUME NEW targets \in Targets, ~DuplicateDomain(targets),
         NEW g \in Guests, targets[g] # None
  PROVE  BuildDesiredRewrites(targets)[targets[g].domain] = targets[g].answer
<1> DEFINE d == targets[g].domain
           chosen == CHOOSE h \in ClaimedBy(targets, d) : TRUE
<1>1. d \in Domains
  BY DEF Targets, Target
<1>2. g \in ClaimedBy(targets, d)
  BY DEF ClaimedBy
<1>3. chosen \in ClaimedBy(targets, d)
  BY <1>2
<1>4. chosen = g
  BY <1>3 DEF ClaimedBy, DuplicateDomain
<1>5. BuildDesiredRewrites(targets)[d] = targets[chosen].answer
  BY <1>1, <1>2 DEF BuildDesiredRewrites
<1> QED
  BY <1>4, <1>5

LEMMA DesiredType ==
  ASSUME NEW targets \in Targets
  PROVE  BuildDesiredRewrites(targets) \in AnswerMap
<1>1. \A d \in Domains : BuildDesiredRewrites(targets)[d] \in Answers \cup {None}
  BY DesiredFromGuest DEF Targets, Target
<1> QED
  BY <1>1 DEF BuildDesiredRewrites, AnswerMap

LEMMA PlanType ==
  ASSUME NEW want, NEW have, NEW managed
  PROVE  BuildPlan(want, have, managed) \in Plan
  BY DEF BuildPlan, Plan, Mapped

LEMMA PlanSplitsDomains ==
  ASSUME NEW want \in AnswerMap, NEW have \in AnswerMap, NEW managed \in AnswerMap
  PROVE  LET p == BuildPlan(want, have, managed)
         IN  /\ p.add \cup p.update \subseteq Mapped(want)
             /\ p.add \cap Mapped(have) = {}
             /\ p.delete \cap Mapped(want) = {}
             /\ p.update \cup p.delete \subseteq Mapped(have)
             /\ p.delete \subseteq Mapped(managed)
  BY DEF BuildPlan, Mapped

\* A list that answers as desired, of which nothing undesired is owned, needs
\* no change.
LEMMA ServedNeedsNoPlan ==
  ASSUME NEW want \in AnswerMap, NEW have \in AnswerMap, NEW managed \in AnswerMap,
         \A d \in Mapped(want) : have[d] = want[d],
         Mapped(managed) \subseteq Mapped(want)
  PROVE  BuildPlan(want, have, managed) = NoPlan
<1>1. Mapped(want) \subseteq Mapped(have)
  BY DEF Mapped
<1>2. {d \in Mapped(want) \cap Mapped(have) : want[d] # have[d]} = {}
  OBVIOUS
<1>3. (Mapped(have) \ Mapped(want)) \cap Mapped(managed) = {}
  OBVIOUS
<1>4. Mapped(want) \ Mapped(have) = {}
  BY <1>1
<1> QED
  BY <1>2, <1>3, <1>4 DEF BuildPlan, NoPlan

\* An update of the entry that is listed first changes the answer to the new
\* one, and so does an addition to a domain without entries.
LEMMA UpdateTakesEffect ==
  ASSUME NEW list \in RewriteList, NEW entry \in Entry,
         NEW result \in AfterUpdate(list, FrontAnswer(list), entry)
  PROVE  FrontAnswer(result) = entry.answer /\ result.others = list.others
  BY NoneAssumption DEF AfterUpdate, FrontAnswer, Listed, RewriteList, Entry

LEMMA AddTakesEffect ==
  ASSUME NEW list \in RewriteList, NEW entry \in Entry, FrontAnswer(list) = None
  PROVE  FrontAnswer(AfterAdd(list, entry)) = entry.answer
         /\ AfterAdd(list, entry).others = list.others
  BY NoneAssumption DEF AfterAdd, FrontAnswer, Listed, RewriteList, Entry

-----------------------------------------------------------------------------
(***************************************************************************)
(* Steps that leave the locals of a synchronisation alone, and steps that  *)
(* end one without any effect.                                             *)
(***************************************************************************)
Outside ==
    \/ StartAgain \/ Verify \/ Tick \/ Signal
    \/ StateFileRemoved \/ StateFileCorrupted \/ UNCHANGED vars

Ends ==
    \/ VerifyFails \/ Shutdown \/ BuildDesiredFails \/ LoadAndReportPlan
    \/ LoadFails \/ CallFails \/ SaveFails \/ Crash
    \/ \E d \in Domains : UpdateRefused(d)

LEMMA OutsideStep ==
  ASSUME TypeOK, Outside
  PROVE  /\ UNCHANGED <<guests, adguard, locals, touched, excused>>
         /\ \/ pc' = pc /\ dryRun' = dryRun
            \/ pc' \in {"verify", "list"} /\ pc \in {"down", "verify", "idle"}
         /\ pc' \in Steps
         /\ dryRun' \in BOOLEAN
         /\ cancelled' \in BOOLEAN
         /\ cancelled => cancelled'
         /\ stateFile' \in {"missing", "ok", "corrupt"}
         /\ \/ UNCHANGED <<records, unsaved, lost>>
            \/ /\ records' = NoAnswers
               /\ unsaved' = unsaved \cup Mapped(records)
               /\ lost' = IF pc = "execute" THEN lost \cup Mapped(records) ELSE lost
  BY ModesAssumption
     DEF TypeOK, Outside, StartAgain, Start, Verify, Tick, Signal,
         StateFileRemoved, StateFileCorrupted, LoseRecords, vars, world,
         process, locals, history, Steps

\* What ForgetLocals leaves is well typed.
LEMMA ForgetLocalsType ==
  ASSUME ForgetLocals
  PROVE  /\ pending' \in [Guests -> GuestDomains \cup {None}]
         /\ resolved' \in [Guests -> GuestTarget \cup {None}]
         /\ desired' \in AnswerMap
         /\ current' \in AnswerMap
         /\ plan' \in Plan
         /\ touched' \subseteq Domains
         /\ excused' \subseteq Guests
         /\ lost' \subseteq Domains
  BY DEF ForgetLocals, NothingPending, NoTargets, NoAnswers, AnswerMap, NoPlan, Plan

Ended ==
    /\ ForgetLocals
    /\ pc' \in {"idle", "down"}
    /\ dryRun' \in BOOLEAN
    /\ cancelled' \in BOOLEAN

LEMMA ReturnErrorEnds ==
  ASSUME TypeOK, ReturnError
  PROVE  Ended
  BY DEF TypeOK, ReturnError, ReturnToLoop, GoDown, Ended, process

LEMMA EndsStep ==
  ASSUME TypeOK, Ends
  PROVE  Ended /\ UNCHANGED <<world, unsaved>>
<1>1. CASE CallFails \/ \E d \in Domains : UpdateRefused(d)
  BY <1>1, ReturnErrorEnds DEF CallFails, UpdateRefused
<1>2. CASE VerifyFails \/ Shutdown \/ Crash
  BY <1>2 DEF TypeOK, VerifyFails, Shutdown, Crash, GoDown, Ended
<1>3. CASE BuildDesiredFails \/ LoadAndReportPlan \/ LoadFails \/ SaveFails
  BY <1>3 DEF TypeOK, BuildDesiredFails, LoadAndReportPlan, LoadFails,
     SaveFails, ReturnToLoop, Ended, process
<1> QED
  BY <1>1, <1>2, <1>3 DEF Ends

\* After a mutation the rest of the plan is left to do, or the synchronisation
\* is over.
LEMMA AppliedCases ==
  ASSUME TypeOK, NEW d, NEW remaining, Applied(d, remaining)
  PROVE  \/ Ended
         \/ /\ plan' = remaining
            /\ UNCHANGED <<pc, process, pending, resolved, desired, current,
                           touched, excused, lost>>
  BY ReturnErrorEnds DEF Applied

\* Every step is one of these.
LEMMA StepCases ==
  ASSUME [Next]_vars
  PROVE  \/ Outside \/ Ends
         \/ ListGuests \/ BuildDesired \/ ListRewrites \/ LoadAndPlan
         \/ ReadExisting \/ Save
         \/ \E g \in Guests :
               ResolveGuest(g) \/ ResolveFromFallback(g) \/ SkipGuest(g) \/ GuestChanges(g)
         \/ \E d \in Domains : AddRewrite(d) \/ UpdateRewrite(d) \/ DeleteRewrite(d)
         \/ \E d \in UserDomains : UserEdit(d)
  BY DEF Next, Process, Work, Fail, Users, Accidents, Outside, Ends

-----------------------------------------------------------------------------
(* The type invariant. *)

LEMMA GuestTargetsAreTargets ==
  [Guests -> GuestTarget \cup {None}] \subseteq Targets
  BY DomainsAssumption DEF GuestTarget, Targets, Target

LEMMA InitTypeOK == Init => TypeOK
<1> SUFFICES ASSUME Init PROVE TypeOK
  OBVIOUS
<1>1. NoRewrites \in RewriteList
  BY DEF NoRewrites, RewriteList
<1>2. adguard \in [Domains -> RewriteList]
  BY <1>1 DEF Init
<1>3. NoAnswers \in AnswerMap /\ NoPlan \in Plan
  BY DEF NoAnswers, AnswerMap, NoPlan, Plan
<1> QED
  BY <1>2, <1>3 DEF Init, TypeOK, Steps, NothingPending, NoTargets

LEMMA NextTypeOK == TypeOK /\ PlanSound /\ [Next]_vars => TypeOK'
<1> SUFFICES ASSUME TypeOK, PlanSound, [Next]_vars PROVE TypeOK'
  OBVIOUS
<1>1. CASE Outside
  BY <1>1, OutsideStep, OutsideStep DEF locals, NoAnswers, AnswerMap, Mapped,
     TypeOK
<1>2. CASE Ends
  BY <1>2, EndsStep, ForgetLocalsType DEF Ended, world, Steps, TypeOK
<1>3. CASE ListGuests
  BY <1>3 DEF ListGuests, world, process, locals, history, GuestTarget,
     Steps, TypeOK
<1>4. ASSUME NEW g \in Guests, ResolveGuest(g) PROVE TypeOK'
  BY <1>4 DEF ResolveGuest, world, process, locals, history, GuestTarget,
     Pending, TypeOK
<1>5. ASSUME NEW g \in Guests, ResolveFromFallback(g) PROVE TypeOK'
  BY <1>5 DEF ResolveFromFallback, world, process, locals, history,
     GuestTarget, Pending, TypeOK
<1>6. ASSUME NEW g \in Guests, SkipGuest(g) PROVE TypeOK'
  BY <1>6 DEF SkipGuest, world, process, locals, history, Pending, TypeOK
<1>7. CASE BuildDesired
  BY <1>7, DesiredType, GuestTargetsAreTargets DEF BuildDesired, world,
     process, locals, history, NoTargets, Steps, TypeOK
<1>8. CASE ListRewrites
  BY <1>8, IndexType DEF ListRewrites, world, process, locals, history,
     Steps, TypeOK
<1>9. CASE LoadAndPlan
  BY <1>9, PlanType DEF LoadAndPlan, world, process, history, Steps, TypeOK
<1>10. ASSUME NEW d \in Domains, AddRewrite(d) PROVE TypeOK'
  <2>1. desired[d] \in Answers
    BY <1>10 DEF AddRewrite, TypeOK, PlanSound, Mapped, AnswerMap
  <2>2. Write(d) \in Entry
    BY <2>1 DEF Write, Entry, Authors
  <2>3. adguard' \in [Domains -> RewriteList] /\ unsaved' \subseteq Domains
    BY <1>10, <2>2, AfterAddType DEF AddRewrite, TypeOK
  <2>4. CASE Ended
    BY <1>10, <2>3, <2>4, ForgetLocalsType DEF AddRewrite, Ended, TypeOK, Steps
  <2>5. CASE ~Ended
    BY <1>10, <2>3, <2>5, AppliedCases DEF AddRewrite, TypeOK, Plan, process
  <2> QED
    BY <2>4, <2>5
<1>11. ASSUME NEW d \in Domains, UpdateRewrite(d) PROVE TypeOK'
  <2>1. desired[d] \in Answers
    BY <1>11 DEF UpdateRewrite, TypeOK, PlanSound, Mapped, AnswerMap
  <2>2. Write(d) \in Entry
    BY <2>1 DEF Write, Entry, Authors
  <2>3. adguard' \in [Domains -> RewriteList] /\ unsaved' \subseteq Domains
    BY <1>11, <2>2, AfterUpdateType DEF UpdateRewrite, TypeOK
  <2>4. CASE Ended
    BY <1>11, <2>3, <2>4, ForgetLocalsType DEF UpdateRewrite, Ended, TypeOK, Steps
  <2>5. CASE ~Ended
    BY <1>11, <2>3, <2>5, AppliedCases DEF UpdateRewrite, TypeOK, Plan, process
  <2> QED
    BY <2>4, <2>5
<1>12. ASSUME NEW d \in Domains, DeleteRewrite(d) PROVE TypeOK'
  <2>1. adguard' \in [Domains -> RewriteList] /\ unsaved' \subseteq Domains
    BY <1>12, AfterDeleteType DEF DeleteRewrite, TypeOK
  <2>2. CASE Ended
    BY <1>12, <2>1, <2>2, ForgetLocalsType DEF DeleteRewrite, Ended, TypeOK, Steps
  <2>3. CASE ~Ended
    BY <1>12, <2>1, <2>3, AppliedCases DEF DeleteRewrite, TypeOK, Plan, process
  <2> QED
    BY <2>2, <2>3
<1>13. CASE Save
  BY <1>13, ForgetLocalsType DEF Save, ReturnToLoop, process, TypeOK, Steps,
     Mapped
<1>14. ASSUME NEW g \in Guests, GuestChanges(g) PROVE TypeOK'
  BY <1>14 DEF GuestChanges, world, process, locals, history, TypeOK
<1>15. ASSUME NEW d \in UserDomains, UserEdit(d) PROVE TypeOK'
  <2>1. adguard' \in [Domains -> RewriteList] /\ touched' \subseteq Domains
    BY <1>15, UserEditsType, DomainsAssumption DEF UserEdit, TypeOK
  <2> QED
    BY <1>15, <2>1 DEF UserEdit, process, locals, TypeOK
<1>16. CASE ReadExisting
  BY <1>16 DEF ReadExisting, world, process, locals, history, Steps, TypeOK
<1> QED
  BY StepCases, <1>1, <1>2, <1>3, <1>4, <1>5, <1>6, <1>7, <1>8, <1>9, <1>10,
     <1>11, <1>12, <1>13, <1>14, <1>15, <1>16

LEMMA NextPlanSound == TypeOK /\ PlanSound /\ [Next]_vars => PlanSound'
<1> SUFFICES ASSUME TypeOK, PlanSound, [Next]_vars PROVE PlanSound'
  OBVIOUS
<1>1. CASE Outside
  BY <1>1, OutsideStep DEF locals, NoPlan, PlanSound
<1>2. CASE Ends
  BY <1>2, EndsStep DEF Ended, ForgetLocals, world, NoPlan, Mapped, PlanSound
<1>3. CASE ListGuests
  BY <1>3 DEF ListGuests, world, process, locals, history, NoPlan, PlanSound
<1>4. ASSUME NEW g \in Guests, ResolveGuest(g) PROVE PlanSound'
  BY <1>4 DEF ResolveGuest, world, process, locals, history, PlanSound
<1>5. ASSUME NEW g \in Guests, ResolveFromFallback(g) PROVE PlanSound'
  BY <1>5 DEF ResolveFromFallback, world, process, locals, history, PlanSound
<1>6. ASSUME NEW g \in Guests, SkipGuest(g) PROVE PlanSound'
  BY <1>6 DEF SkipGuest, world, process, locals, history, PlanSound
<1>7. CASE BuildDesired
  BY <1>7 DEF BuildDesired, world, process, locals, history, NoPlan,
     PlanSound
<1>8. CASE ListRewrites
  BY <1>8 DEF ListRewrites, world, process, locals, history, NoPlan,
     PlanSound
<1>9. CASE LoadAndPlan
  BY <1>9, PlanSplitsDomains DEF LoadAndPlan, world, process, history,
     TypeOK, PlanSound
<1>10. ASSUME NEW d \in Domains, AddRewrite(d) PROVE PlanSound'
  BY <1>10, AppliedCases DEF AddRewrite, Ended, ForgetLocals, process, NoPlan,
     Mapped, TypeOK, Plan, PlanSound
<1>11. ASSUME NEW d \in Domains, UpdateRewrite(d) PROVE PlanSound'
  BY <1>11, AppliedCases DEF UpdateRewrite, Ended, ForgetLocals, process,
     NoPlan, Mapped, TypeOK, Plan, PlanSound
<1>12. ASSUME NEW d \in Domains, DeleteRewrite(d) PROVE PlanSound'
  BY <1>12, AppliedCases DEF DeleteRewrite, Ended, ForgetLocals, process,
     NoPlan, Mapped, TypeOK, Plan, PlanSound
<1>13. CASE Save
  BY <1>13 DEF Save, ReturnToLoop, ForgetLocals, process, NoPlan, Mapped,
     PlanSound
<1>14. ASSUME NEW g \in Guests, GuestChanges(g) PROVE PlanSound'
  BY <1>14 DEF GuestChanges, world, process, locals, history, PlanSound
<1>15. ASSUME NEW d \in UserDomains, UserEdit(d) PROVE PlanSound'
  BY <1>15 DEF UserEdit, world, process, locals, history, PlanSound
<1>16. CASE ReadExisting
  BY <1>16 DEF ReadExisting, world, process, locals, history, NoPlan, PlanSound
<1> QED
  BY StepCases, <1>1, <1>2, <1>3, <1>4, <1>5, <1>6, <1>7, <1>8, <1>9, <1>10,
     <1>11, <1>12, <1>13, <1>14, <1>15, <1>16

\* Every variable keeps to its type in every behaviour of the synchroniser:
\* together with the soundness of the plan, without which the program could
\* write a rewrite that nobody asked for.
THEOREM TypeCorrect == Spec => []TypeOK
<1>1. Init => PlanSound
  BY DEF Init, PlanSound, NoPlan, Mapped
<1> QED
  BY <1>1, InitTypeOK, NextTypeOK, NextPlanSound, PTL DEF Spec
-----------------------------------------------------------------------------
(***************************************************************************)
(* The safety invariant, one lemma per conjunct.                           *)
(***************************************************************************)
LEMMA NextConfined == SyncInvariant /\ [Next]_vars => Confined'
<1> SUFFICES ASSUME SyncInvariant, [Next]_vars PROVE Confined'
  OBVIOUS
<1> USE DEF SyncInvariant
<1>1. CASE Outside
  BY <1>1, OutsideStep DEF locals, Confined, Mapped, NoAnswers, NoPlan
<1>2. CASE Ends
  BY <1>2, EndsStep DEF Ended, ForgetLocals, world, Confined, Mapped,
     NoAnswers, NoPlan
<1>3. CASE ListGuests
  BY <1>3 DEF ListGuests, world, process, locals, history, Confined, Mapped,
     NoAnswers, NoPlan
<1>4. ASSUME NEW g \in Guests, ResolveGuest(g) PROVE Confined'
  BY <1>4 DEF ResolveGuest, world, process, locals, history, Confined,
     Mapped, NoAnswers, NoPlan
<1>5. ASSUME NEW g \in Guests, ResolveFromFallback(g) PROVE Confined'
  BY <1>5 DEF ResolveFromFallback, world, process, locals, history, Confined,
     Mapped, NoAnswers, NoPlan
<1>6. ASSUME NEW g \in Guests, SkipGuest(g) PROVE Confined'
  BY <1>6 DEF SkipGuest, world, process, locals, history, Confined, Mapped,
     NoAnswers, NoPlan
<1>7. CASE BuildDesired
  <2>1. \A d \in Mapped(BuildDesiredRewrites(resolved)) : d \in GuestDomains
    BY DesiredFromGuest, GuestTargetsAreTargets DEF TypeOK, Mapped, GuestTarget
  <2> QED
    BY <1>7, <2>1 DEF BuildDesired, Confined, Mapped, world
<1>8. CASE ListRewrites
  BY <1>8 DEF ListRewrites, world, process, locals, history, Confined,
     Mapped, NoAnswers, NoPlan
<1>9. CASE LoadAndPlan
  BY <1>9, PlanSplitsDomains DEF LoadAndPlan, world, process, history,
     TypeOK, Confined, Mapped, NoAnswers, NoPlan
<1>10. ASSUME NEW d \in Domains, AddRewrite(d) PROVE Confined'
  BY <1>10, AppliedCases DEF AddRewrite, Ended, ForgetLocals, process, TypeOK,
     Plan, Confined, Mapped, NoAnswers, NoPlan
<1>11. ASSUME NEW d \in Domains, UpdateRewrite(d) PROVE Confined'
  BY <1>11, AppliedCases DEF UpdateRewrite, Ended, ForgetLocals, process,
     TypeOK, Plan, Confined, Mapped, NoAnswers, NoPlan
<1>12. ASSUME NEW d \in Domains, DeleteRewrite(d) PROVE Confined'
  BY <1>12, AppliedCases DEF DeleteRewrite, Ended, ForgetLocals, process,
     TypeOK, Plan, Confined, Mapped, NoAnswers, NoPlan
<1>13. CASE Save
  BY <1>13 DEF Save, ReturnToLoop, ForgetLocals, process, Confined, Mapped,
     NoAnswers, NoPlan
<1>14. ASSUME NEW g \in Guests, GuestChanges(g) PROVE Confined'
  BY <1>14 DEF GuestChanges, world, process, locals, history, Confined,
     Mapped, NoAnswers, NoPlan
<1>15. ASSUME NEW d \in UserDomains, UserEdit(d) PROVE Confined'
  BY <1>15 DEF UserEdit, world, process, locals, history, Confined, Mapped,
     NoAnswers, NoPlan
<1>16. CASE ReadExisting
  BY <1>16 DEF ReadExisting, world, process, locals, history, Confined
<1> QED
  BY StepCases, <1>1, <1>2, <1>3, <1>4, <1>5, <1>6, <1>7, <1>8, <1>9, <1>10,
     <1>11, <1>12, <1>13, <1>14, <1>15, <1>16

LEMMA NextResolutionComplete == SyncInvariant /\ [Next]_vars => ResolutionComplete'
<1> SUFFICES ASSUME SyncInvariant, [Next]_vars PROVE ResolutionComplete'
  OBVIOUS
<1> USE DEF SyncInvariant
<1>1. CASE Outside
  BY <1>1, OutsideStep DEF locals, ResolutionComplete,
     PartialResolutionNeverApplied, Pending
<1>2. CASE Ends
  BY <1>2, EndsStep DEF Ended, ForgetLocals, world, ResolutionComplete,
     PartialResolutionNeverApplied, Pending
<1>3. CASE ListGuests
  BY <1>3 DEF ListGuests, world, process, locals, history,
     ResolutionComplete, PartialResolutionNeverApplied, Pending
<1>4. ASSUME NEW g \in Guests, ResolveGuest(g) PROVE ResolutionComplete'
  BY <1>4 DEF ResolveGuest, world, process, locals, history,
     ResolutionComplete, PartialResolutionNeverApplied, Pending
<1>5. ASSUME NEW g \in Guests, ResolveFromFallback(g) PROVE ResolutionComplete'
  BY <1>5 DEF ResolveFromFallback, world, process, locals, history,
     ResolutionComplete, PartialResolutionNeverApplied, Pending
<1>6. ASSUME NEW g \in Guests, SkipGuest(g) PROVE ResolutionComplete'
  BY <1>6 DEF SkipGuest, world, process, locals, history, ResolutionComplete,
     PartialResolutionNeverApplied, Pending
<1>7. CASE BuildDesired
  BY <1>7 DEF BuildDesired, world, process, locals, history, ResolutionOver,
     ResolutionComplete, PartialResolutionNeverApplied, Pending
<1>8. CASE ListRewrites
  BY <1>8 DEF ListRewrites, world, process, locals, history,
     ResolutionComplete, PartialResolutionNeverApplied, Pending
<1>9. CASE LoadAndPlan
  BY <1>9 DEF LoadAndPlan, world, process, history, ResolutionComplete,
     PartialResolutionNeverApplied, Pending
<1>10. ASSUME NEW d \in Domains, AddRewrite(d) PROVE ResolutionComplete'
  BY <1>10, AppliedCases DEF AddRewrite, Ended, ForgetLocals, process,
     ResolutionComplete, PartialResolutionNeverApplied, Pending
<1>11. ASSUME NEW d \in Domains, UpdateRewrite(d) PROVE ResolutionComplete'
  BY <1>11, AppliedCases DEF UpdateRewrite, Ended, ForgetLocals, process,
     ResolutionComplete, PartialResolutionNeverApplied, Pending
<1>12. ASSUME NEW d \in Domains, DeleteRewrite(d) PROVE ResolutionComplete'
  BY <1>12, AppliedCases DEF DeleteRewrite, Ended, ForgetLocals, process,
     ResolutionComplete, PartialResolutionNeverApplied, Pending
<1>13. CASE Save
  BY <1>13 DEF Save, ReturnToLoop, ForgetLocals, process, ResolutionComplete,
     PartialResolutionNeverApplied, Pending
<1>14. ASSUME NEW g \in Guests, GuestChanges(g) PROVE ResolutionComplete'
  BY <1>14 DEF GuestChanges, world, process, locals, history,
     ResolutionComplete, PartialResolutionNeverApplied, Pending
<1>15. ASSUME NEW d \in UserDomains, UserEdit(d) PROVE ResolutionComplete'
  BY <1>15 DEF UserEdit, world, process, locals, history, ResolutionComplete,
     PartialResolutionNeverApplied, Pending
<1>16. CASE ReadExisting
  BY <1>16 DEF ReadExisting, world, process, locals, history, ResolutionComplete, PartialResolutionNeverApplied, Pending
<1> QED
  BY StepCases, <1>1, <1>2, <1>3, <1>4, <1>5, <1>6, <1>7, <1>8, <1>9, <1>10,
     <1>11, <1>12, <1>13, <1>14, <1>15, <1>16

LEMMA NextProgress == SyncInvariant /\ [Next]_vars => Progress'
<1> SUFFICES ASSUME SyncInvariant, [Next]_vars PROVE Progress'
  OBVIOUS
<1> USE DEF SyncInvariant
<1>1. CASE Outside
  <2>1. UNCHANGED <<adguard, desired, current, plan, touched>>
        /\ (pc' = pc \/ pc' \in {"verify", "list"})
    BY <1>1, OutsideStep DEF locals
  <2> QED
    BY <2>1 DEF Progress, InPlace
<1>2. CASE Ends
  BY <1>2, EndsStep DEF Ended, ForgetLocals, world, NoPlan, Progress, InPlace
<1>3. CASE ListGuests
  BY <1>3 DEF ListGuests, world, process, locals, history, PlanSound, NoPlan,
     Progress, InPlace
<1>4. ASSUME NEW g \in Guests, ResolveGuest(g) PROVE Progress'
  BY <1>4 DEF ResolveGuest, world, process, locals, history, Progress,
     InPlace
<1>5. ASSUME NEW g \in Guests, ResolveFromFallback(g) PROVE Progress'
  BY <1>5 DEF ResolveFromFallback, world, process, locals, history, Progress,
     InPlace
<1>6. ASSUME NEW g \in Guests, SkipGuest(g) PROVE Progress'
  BY <1>6 DEF SkipGuest, world, process, locals, history, Progress, InPlace
<1>7. CASE BuildDesired
  BY <1>7 DEF BuildDesired, world, process, locals, history, PlanSound,
     NoPlan, Progress, InPlace
<1>8. CASE ListRewrites
  BY <1>8 DEF ListRewrites, world, process, locals, history, PlanSound,
     NoPlan, indexRewrites, Progress, InPlace
<1>9. CASE LoadAndPlan
  <2>1. \A d \in Domains \ touched : FrontAnswer(adguard[d]) = current[d]
    BY <1>9 DEF LoadAndPlan, Progress
  <2>2. \A d \in Mapped(desired) \ (plan'.add \cup plan'.update) :
            desired[d] = current[d]
    BY <1>9 DEF LoadAndPlan, BuildPlan, Mapped
  <2> QED
    BY <1>9, <2>1, <2>2 DEF LoadAndPlan, Progress, InPlace, Mapped, world, history
<1>10. ASSUME NEW d \in Domains, AddRewrite(d) PROVE Progress'
  <2>1. CASE Ended
    BY <1>10, <2>1 DEF AddRewrite, Ended, ForgetLocals, NoPlan, Progress
  <2>2. CASE ~Ended
    <3>1. /\ plan' = [plan EXCEPT !.add = plan.add \ {d}]
          /\ UNCHANGED <<pc, desired, current, touched>>
      BY <1>10, <2>2, AppliedCases DEF AddRewrite
    <3>2. \A w \in Domains : w # d => adguard'[w] = adguard[w]
      BY <1>10 DEF AddRewrite, TypeOK
    <3>3. d \notin touched => FrontAnswer(adguard'[d]) = desired[d]
      <4> SUFFICES ASSUME d \notin touched
                   PROVE  FrontAnswer(adguard'[d]) = desired[d]
        OBVIOUS
      <4>1. Write(d) \in Entry /\ Write(d).answer = desired[d]
        BY <1>10 DEF AddRewrite, TypeOK, PlanSound, Mapped, AnswerMap, Write, Entry, Authors
      <4>2. FrontAnswer(adguard[d]) = current[d]
        BY <1>10 DEF AddRewrite, Progress
      <4>3. current[d] = None
        BY <1>10 DEF AddRewrite, PlanSound, Mapped
      <4> QED
        BY <1>10, <4>1, <4>2, <4>3, AddTakesEffect DEF AddRewrite, TypeOK
    <3> QED
      BY <1>10, <3>1, <3>2, <3>3 DEF AddRewrite, Progress, InPlace, PlanSound, TypeOK, Plan, Mapped
  <2> QED
    BY <2>1, <2>2
<1>11. ASSUME NEW d \in Domains, UpdateRewrite(d) PROVE Progress'
  <2>1. CASE Ended
    BY <1>11, <2>1 DEF UpdateRewrite, Ended, ForgetLocals, NoPlan, Progress
  <2>2. CASE ~Ended
    <3>1. /\ plan' = [plan EXCEPT !.update = plan.update \ {d}]
          /\ UNCHANGED <<pc, desired, current, touched>>
      BY <1>11, <2>2, AppliedCases DEF UpdateRewrite
    <3>2. \A w \in Domains : w # d => adguard'[w] = adguard[w]
      BY <1>11 DEF UpdateRewrite, TypeOK
    <3>3. d \notin touched => FrontAnswer(adguard'[d]) = desired[d]
      <4> SUFFICES ASSUME d \notin touched
                   PROVE  FrontAnswer(adguard'[d]) = desired[d]
        OBVIOUS
      <4>1. Write(d) \in Entry /\ Write(d).answer = desired[d]
        BY <1>11 DEF UpdateRewrite, TypeOK, PlanSound, Mapped, AnswerMap, Write, Entry, Authors
      <4>2. FrontAnswer(adguard[d]) = current[d]
        BY <1>11 DEF UpdateRewrite, Progress
      <4> QED
        BY <1>11, <4>1, <4>2, UpdateTakesEffect DEF UpdateRewrite, TypeOK
    <3> QED
      BY <1>11, <3>1, <3>2, <3>3 DEF UpdateRewrite, Progress, InPlace, PlanSound, TypeOK, Plan, Mapped
  <2> QED
    BY <2>1, <2>2
<1>12. ASSUME NEW d \in Domains, DeleteRewrite(d) PROVE Progress'
  <2>1. CASE Ended
    BY <1>12, <2>1 DEF DeleteRewrite, Ended, ForgetLocals, NoPlan, Progress
  <2>2. CASE ~Ended
    <3>1. /\ plan' = [plan EXCEPT !.delete = plan.delete \ {d}]
          /\ UNCHANGED <<pc, desired, current, touched>>
      BY <1>12, <2>2, AppliedCases DEF DeleteRewrite
    <3>2. \A w \in Domains : w # d => adguard'[w] = adguard[w]
      BY <1>12 DEF DeleteRewrite, TypeOK
    <3>3. d \notin Mapped(desired) /\ plan.add = {} /\ plan.update = {}
      BY <1>12 DEF DeleteRewrite, PlanSound
    <3> QED
      BY <1>12, <3>1, <3>2, <3>3 DEF DeleteRewrite, Progress, InPlace, PlanSound, TypeOK, Plan, Mapped
  <2> QED
    BY <2>1, <2>2
<1>13. CASE Save
  BY <1>13 DEF Save, ReturnToLoop, ForgetLocals, process, NoPlan, Progress,
     InPlace
<1>14. ASSUME NEW g \in Guests, GuestChanges(g) PROVE Progress'
  BY <1>14 DEF GuestChanges, world, process, locals, history, Progress,
     InPlace
<1>15. ASSUME NEW d \in UserDomains, UserEdit(d) PROVE Progress'
  <2>1. \A w \in Domains : w # d => adguard'[w] = adguard[w]
    BY <1>15, DomainsAssumption DEF UserEdit, TypeOK
  <2>2. pc \in {"load", "execute", "replace"} => touched' = touched \cup {d}
    BY <1>15 DEF UserEdit
  <2>3. pc \notin {"load", "execute", "replace"} => plan = NoPlan
    BY DEF PlanSound
  <2> QED
    BY <1>15, <2>1, <2>2, <2>3 DEF UserEdit, Progress, InPlace, NoPlan, locals
<1>16. CASE ReadExisting
  BY <1>16 DEF ReadExisting, world, process, locals, history, Progress, InPlace
<1> QED
  BY StepCases, <1>1, <1>2, <1>3, <1>4, <1>5, <1>6, <1>7, <1>8, <1>9, <1>10,
     <1>11, <1>12, <1>13, <1>14, <1>15, <1>16

LEMMA NextGuestsFollowed == SyncInvariant /\ [Next]_vars => GuestsFollowed'
<1> SUFFICES ASSUME SyncInvariant, [Next]_vars PROVE GuestsFollowed'
  OBVIOUS
<1> USE DEF SyncInvariant
<1>1. CASE Outside
  BY <1>1, OutsideStep DEF locals, GuestsFollowed, Pending
<1>2. CASE Ends
  BY <1>2, EndsStep DEF Ended, ForgetLocals, world, GuestsFollowed, Pending
<1>3. CASE ListGuests
  BY <1>3 DEF ListGuests, world, process, locals, history, TypeOK,
     GuestsFollowed, Pending
<1>4. ASSUME NEW g \in Guests, ResolveGuest(g) PROVE GuestsFollowed'
  BY <1>4 DEF ResolveGuest, world, process, locals, history, TypeOK,
     GuestTarget, GuestsFollowed, Pending
<1>5. ASSUME NEW g \in Guests, ResolveFromFallback(g) PROVE GuestsFollowed'
  BY <1>5 DEF ResolveFromFallback, world, process, locals, history, TypeOK,
     GuestsFollowed, Pending
<1>6. ASSUME NEW g \in Guests, SkipGuest(g) PROVE GuestsFollowed'
  BY <1>6 DEF SkipGuest, world, process, locals, history, TypeOK,
     GuestsFollowed, Pending
<1>7. CASE BuildDesired
  <2>1. resolved \in Targets
    BY GuestTargetsAreTargets DEF TypeOK
  <2>2. \A g \in Guests :
           resolved[g] # None => desired'[resolved[g].domain] = resolved[g].answer
    BY <1>7, <2>1, DesiredHasGuest DEF BuildDesired
  <2>3. \A g \in Guests \ excused : guests[g] # None /\ ~Pending(g) =>
           desired'[guests[g].domain] = guests[g].answer
    BY <1>7, <2>2, NoneAssumption, DomainsAssumption
       DEF BuildDesired, GuestsFollowed, Pending, TypeOK, GuestTarget
  <2> QED
    BY <1>7, <2>3 DEF BuildDesired, GuestsFollowed, Pending, world, history
<1>8. CASE ListRewrites
  BY <1>8 DEF ListRewrites, world, process, locals, history, GuestsFollowed,
     Pending
<1>9. CASE LoadAndPlan
  BY <1>9 DEF LoadAndPlan, world, process, history, GuestsFollowed, Pending
<1>10. ASSUME NEW d \in Domains, AddRewrite(d) PROVE GuestsFollowed'
  <2>1. CASE Ended
    BY <1>10, <2>1 DEF AddRewrite, Ended, ForgetLocals, GuestsFollowed
  <2>2. CASE ~Ended
    BY <1>10, <2>2, AppliedCases DEF AddRewrite, GuestsFollowed, Pending
  <2> QED
    BY <2>1, <2>2
<1>11. ASSUME NEW d \in Domains, UpdateRewrite(d) PROVE GuestsFollowed'
  <2>1. CASE Ended
    BY <1>11, <2>1 DEF UpdateRewrite, Ended, ForgetLocals, GuestsFollowed
  <2>2. CASE ~Ended
    BY <1>11, <2>2, AppliedCases DEF UpdateRewrite, GuestsFollowed, Pending
  <2> QED
    BY <2>1, <2>2
<1>12. ASSUME NEW d \in Domains, DeleteRewrite(d) PROVE GuestsFollowed'
  <2>1. CASE Ended
    BY <1>12, <2>1 DEF DeleteRewrite, Ended, ForgetLocals, GuestsFollowed
  <2>2. CASE ~Ended
    BY <1>12, <2>2, AppliedCases DEF DeleteRewrite, GuestsFollowed, Pending
  <2> QED
    BY <2>1, <2>2
<1>13. CASE Save
  BY <1>13 DEF Save, ReturnToLoop, ForgetLocals, process, GuestsFollowed,
     Pending
<1>14. ASSUME NEW g \in Guests, GuestChanges(g) PROVE GuestsFollowed'
  BY <1>14 DEF GuestChanges, world, process, locals, history, TypeOK,
     GuestsFollowed, Pending
<1>15. ASSUME NEW d \in UserDomains, UserEdit(d) PROVE GuestsFollowed'
  BY <1>15 DEF UserEdit, world, process, locals, history, GuestsFollowed,
     Pending
<1>16. CASE ReadExisting
  BY <1>16 DEF ReadExisting, world, process, locals, history, GuestsFollowed, Pending
<1> QED
  BY StepCases, <1>1, <1>2, <1>3, <1>4, <1>5, <1>6, <1>7, <1>8, <1>9, <1>10,
     <1>11, <1>12, <1>13, <1>14, <1>15, <1>16

LEMMA NextDeletionsOwned == SyncInvariant /\ [Next]_vars => DeletionsOwned'
<1> SUFFICES ASSUME SyncInvariant, [Next]_vars PROVE DeletionsOwned'
  OBVIOUS
<1> USE DEF SyncInvariant
<1>1. CASE Outside
  <2>1. plan' = plan /\ (pc # "execute" => plan.delete = {})
    BY <1>1, OutsideStep DEF locals, PlanSound, NoPlan
  <2> QED
    BY <1>1, <2>1, OutsideStep DEF NoAnswers, Mapped, DeletionsOwned
<1>2. CASE Ends
  BY <1>2, EndsStep DEF Ended, ForgetLocals, world, NoPlan, DeletionsOwned
<1>3. CASE ListGuests
  BY <1>3 DEF ListGuests, world, process, locals, history, DeletionsOwned
<1>4. ASSUME NEW g \in Guests, ResolveGuest(g) PROVE DeletionsOwned'
  BY <1>4 DEF ResolveGuest, world, process, locals, history, DeletionsOwned
<1>5. ASSUME NEW g \in Guests, ResolveFromFallback(g) PROVE DeletionsOwned'
  BY <1>5 DEF ResolveFromFallback, world, process, locals, history, DeletionsOwned
<1>6. ASSUME NEW g \in Guests, SkipGuest(g) PROVE DeletionsOwned'
  BY <1>6 DEF SkipGuest, world, process, locals, history, DeletionsOwned
<1>7. CASE BuildDesired
  BY <1>7 DEF BuildDesired, world, process, locals, history, DeletionsOwned
<1>8. CASE ListRewrites
  BY <1>8 DEF ListRewrites, world, process, locals, history, DeletionsOwned
<1>9. CASE LoadAndPlan
  BY <1>9, PlanSplitsDomains DEF LoadAndPlan, world, process, history, TypeOK, DeletionsOwned
<1>10. ASSUME NEW d \in Domains, AddRewrite(d) PROVE DeletionsOwned'
  <2>1. CASE Ended
    BY <1>10, <2>1 DEF AddRewrite, Ended, ForgetLocals, NoPlan, DeletionsOwned
  <2>2. CASE ~Ended
    BY <1>10, <2>2, AppliedCases DEF AddRewrite, TypeOK, Plan, DeletionsOwned
  <2> QED
    BY <2>1, <2>2
<1>11. ASSUME NEW d \in Domains, UpdateRewrite(d) PROVE DeletionsOwned'
  <2>1. CASE Ended
    BY <1>11, <2>1 DEF UpdateRewrite, Ended, ForgetLocals, NoPlan, DeletionsOwned
  <2>2. CASE ~Ended
    BY <1>11, <2>2, AppliedCases DEF UpdateRewrite, TypeOK, Plan, DeletionsOwned
  <2> QED
    BY <2>1, <2>2
<1>12. ASSUME NEW d \in Domains, DeleteRewrite(d) PROVE DeletionsOwned'
  <2>1. CASE Ended
    BY <1>12, <2>1 DEF DeleteRewrite, Ended, ForgetLocals, NoPlan, DeletionsOwned
  <2>2. CASE ~Ended
    BY <1>12, <2>2, AppliedCases DEF DeleteRewrite, TypeOK, Plan, DeletionsOwned
  <2> QED
    BY <2>1, <2>2
<1>13. CASE Save
  BY <1>13 DEF Save, ReturnToLoop, ForgetLocals, process, NoPlan, DeletionsOwned
<1>14. ASSUME NEW g \in Guests, GuestChanges(g) PROVE DeletionsOwned'
  BY <1>14 DEF GuestChanges, world, process, locals, history, DeletionsOwned
<1>15. ASSUME NEW d \in UserDomains, UserEdit(d) PROVE DeletionsOwned'
  BY <1>15 DEF UserEdit, world, process, locals, history, DeletionsOwned
<1>16. CASE ReadExisting
  BY <1>16 DEF ReadExisting, world, process, locals, history, DeletionsOwned
<1> QED
  BY StepCases, <1>1, <1>2, <1>3, <1>4, <1>5, <1>6, <1>7, <1>8, <1>9, <1>10,
     <1>11, <1>12, <1>13, <1>14, <1>15, <1>16

LEMMA NextNothingLeftOver == SyncInvariant /\ [Next]_vars => NothingLeftOver'
<1> SUFFICES ASSUME SyncInvariant, [Next]_vars PROVE NothingLeftOver'
  OBVIOUS
<1> USE DEF SyncInvariant
<1>1. CASE Outside
  BY <1>1, OutsideStep DEF locals, NoAnswers, Mapped, NothingLeftOver
<1>2. CASE Ends
  BY <1>2, EndsStep DEF Ended, ForgetLocals, world, NothingLeftOver
<1>3. CASE ListGuests
  BY <1>3 DEF ListGuests, world, process, locals, history, NothingLeftOver
<1>4. ASSUME NEW g \in Guests, ResolveGuest(g) PROVE NothingLeftOver'
  BY <1>4 DEF ResolveGuest, world, process, locals, history, NothingLeftOver
<1>5. ASSUME NEW g \in Guests, ResolveFromFallback(g) PROVE NothingLeftOver'
  BY <1>5 DEF ResolveFromFallback, world, process, locals, history, NothingLeftOver
<1>6. ASSUME NEW g \in Guests, SkipGuest(g) PROVE NothingLeftOver'
  BY <1>6 DEF SkipGuest, world, process, locals, history, NothingLeftOver
<1>7. CASE BuildDesired
  BY <1>7 DEF BuildDesired, world, process, locals, history, NothingLeftOver
<1>8. CASE ListRewrites
  BY <1>8 DEF ListRewrites, world, process, locals, history, NothingLeftOver
<1>9. CASE LoadAndPlan
  BY <1>9 DEF LoadAndPlan, world, process, history, NothingLeftOver
<1>10. ASSUME NEW d \in Domains, AddRewrite(d) PROVE NothingLeftOver'
  <2>1. CASE Ended
    BY <1>10, <2>1 DEF AddRewrite, Ended, ForgetLocals, NothingLeftOver
  <2>2. CASE ~Ended
    BY <1>10, <2>2, AppliedCases DEF AddRewrite, NothingLeftOver
  <2> QED
    BY <2>1, <2>2
<1>11. ASSUME NEW d \in Domains, UpdateRewrite(d) PROVE NothingLeftOver'
  <2>1. CASE Ended
    BY <1>11, <2>1 DEF UpdateRewrite, Ended, ForgetLocals, NothingLeftOver
  <2>2. CASE ~Ended
    BY <1>11, <2>2, AppliedCases DEF UpdateRewrite, NothingLeftOver
  <2> QED
    BY <2>1, <2>2
<1>12. ASSUME NEW d \in Domains, DeleteRewrite(d) PROVE NothingLeftOver'
  <2>1. CASE Ended
    BY <1>12, <2>1 DEF DeleteRewrite, Ended, ForgetLocals, NothingLeftOver
  <2>2. CASE ~Ended
    BY <1>12, <2>2, AppliedCases DEF DeleteRewrite, NothingLeftOver
  <2> QED
    BY <2>1, <2>2
<1>13. CASE Save
  BY <1>13 DEF Save, ReturnToLoop, ForgetLocals, process, NothingLeftOver
<1>14. ASSUME NEW g \in Guests, GuestChanges(g) PROVE NothingLeftOver'
  BY <1>14 DEF GuestChanges, world, process, locals, history, NothingLeftOver
<1>15. ASSUME NEW d \in UserDomains, UserEdit(d) PROVE NothingLeftOver'
  BY <1>15 DEF UserEdit, world, process, locals, history, NothingLeftOver
<1>16. CASE ReadExisting
  BY <1>16 DEF ReadExisting, world, process, locals, history, NothingLeftOver
<1> QED
  BY StepCases, <1>1, <1>2, <1>3, <1>4, <1>5, <1>6, <1>7, <1>8, <1>9, <1>10,
     <1>11, <1>12, <1>13, <1>14, <1>15, <1>16

LEMMA NextDesiredIsWanted == SyncInvariant /\ [Next]_vars => DesiredIsWanted'
<1> SUFFICES ASSUME SyncInvariant, [Next]_vars PROVE DesiredIsWanted'
  OBVIOUS
<1> USE DEF SyncInvariant
<1>1. CASE Outside
  BY <1>1, OutsideStep DEF locals, NoAnswers, Mapped, DesiredIsWanted, Wanted, Pending, AsListed
<1>2. CASE Ends
  BY <1>2, EndsStep DEF Ended, ForgetLocals, world, DesiredIsWanted, Wanted, Pending, AsListed
<1>3. CASE ListGuests
  <2>1. \A g \in Guests :
           pending'[g] = IF guests[g] = None THEN None ELSE guests[g].domain
    BY <1>3 DEF ListGuests
  <2>2. \A g \in Guests : resolved'[g] = None
    BY <1>3 DEF ListGuests, NothingLeftOver, NoTargets
  <2> QED
    BY <1>3, <2>1, <2>2 DEF ListGuests, world, DesiredIsWanted, AsListed, Pending
<1>4. ASSUME NEW g \in Guests, ResolveGuest(g) PROVE DesiredIsWanted'
  <2>1. CASE excused = {}
    <3>1. pending[g] = guests[g].domain
      BY <1>4, <2>1 DEF ResolveGuest, DesiredIsWanted, AsListed, Pending
    <3>2. resolved'[g] = guests[g] /\ pending'[g] = None
      BY <1>4, <3>1 DEF ResolveGuest, TypeOK, GuestTarget
    <3>3. \A h \in Guests : h # g => resolved'[h] = resolved[h] /\ pending'[h] = pending[h]
      BY <1>4 DEF ResolveGuest, TypeOK
    <3> QED
      BY <1>4, <2>1, <3>2, <3>3
         DEF ResolveGuest, world, history, DesiredIsWanted, AsListed, Pending
  <2>2. CASE excused # {}
    BY <1>4, <2>2 DEF ResolveGuest, history, DesiredIsWanted
  <2> QED
    BY <2>1, <2>2
<1>5. ASSUME NEW g \in Guests, ResolveFromFallback(g) PROVE DesiredIsWanted'
  BY <1>5 DEF ResolveFromFallback, DesiredIsWanted
<1>6. ASSUME NEW g \in Guests, SkipGuest(g) PROVE DesiredIsWanted'
  BY <1>6 DEF SkipGuest, DesiredIsWanted
<1>7. CASE BuildDesired
  <2> SUFFICES ASSUME excused = {}, \A g \in Guests : ~Pending(g)
               PROVE  desired' = Wanted /\ ~DuplicateDomain(guests)
    BY <1>7 DEF BuildDesired, world, history, DesiredIsWanted, Wanted, Pending
  <2>1. \A g \in Guests : resolved[g] = guests[g]
    BY <1>7, NoneAssumption, DomainsAssumption
       DEF BuildDesired, DesiredIsWanted, AsListed, Pending, TypeOK, GuestTarget
  <2>2. resolved = guests
    BY <2>1 DEF TypeOK
  <2> QED
    BY <1>7, <2>2 DEF BuildDesired, Wanted
<1>8. CASE ListRewrites
  BY <1>8 DEF ListRewrites, world, process, locals, history, DesiredIsWanted, Wanted, Pending, AsListed
<1>9. CASE LoadAndPlan
  BY <1>9 DEF LoadAndPlan, world, process, history, DesiredIsWanted, Wanted, Pending, AsListed
<1>10. ASSUME NEW d \in Domains, AddRewrite(d) PROVE DesiredIsWanted'
  <2>1. CASE Ended
    BY <1>10, <2>1 DEF AddRewrite, Ended, ForgetLocals, DesiredIsWanted, Wanted, Pending, AsListed
  <2>2. CASE ~Ended
    BY <1>10, <2>2, AppliedCases DEF AddRewrite, DesiredIsWanted, Wanted, Pending, AsListed
  <2> QED
    BY <2>1, <2>2
<1>11. ASSUME NEW d \in Domains, UpdateRewrite(d) PROVE DesiredIsWanted'
  <2>1. CASE Ended
    BY <1>11, <2>1 DEF UpdateRewrite, Ended, ForgetLocals, DesiredIsWanted, Wanted, Pending, AsListed
  <2>2. CASE ~Ended
    BY <1>11, <2>2, AppliedCases DEF UpdateRewrite, DesiredIsWanted, Wanted, Pending, AsListed
  <2> QED
    BY <2>1, <2>2
<1>12. ASSUME NEW d \in Domains, DeleteRewrite(d) PROVE DesiredIsWanted'
  <2>1. CASE Ended
    BY <1>12, <2>1 DEF DeleteRewrite, Ended, ForgetLocals, DesiredIsWanted, Wanted, Pending, AsListed
  <2>2. CASE ~Ended
    BY <1>12, <2>2, AppliedCases DEF DeleteRewrite, DesiredIsWanted, Wanted, Pending, AsListed
  <2> QED
    BY <2>1, <2>2
<1>13. CASE Save
  BY <1>13 DEF Save, ReturnToLoop, ForgetLocals, process, DesiredIsWanted, Wanted, Pending, AsListed
<1>14. ASSUME NEW g \in Guests, GuestChanges(g) PROVE DesiredIsWanted'
  BY <1>14 DEF GuestChanges, DesiredIsWanted, locals, Wanted, Pending, AsListed
<1>15. ASSUME NEW d \in UserDomains, UserEdit(d) PROVE DesiredIsWanted'
  BY <1>15 DEF UserEdit, world, process, locals, history, DesiredIsWanted, Wanted, Pending, AsListed
<1>16. CASE ReadExisting
  BY <1>16 DEF ReadExisting, world, process, locals, history, DesiredIsWanted, Wanted, Pending, AsListed
<1> QED
  BY StepCases, <1>1, <1>2, <1>3, <1>4, <1>5, <1>6, <1>7, <1>8, <1>9, <1>10,
     <1>11, <1>12, <1>13, <1>14, <1>15, <1>16

\* Without edits a deletion of the entry that is listed empties the domain.
LEMMA DeleteEmpties ==
  ASSUME NEW list \in RewriteList, list.others = {},
         NEW result \in AfterDelete(list, FrontAnswer(list))
  PROVE  ~Listed(result) /\ result.others = {} /\ EntriesOf(result) = {}
  BY DEF AfterDelete, NoRewrites, Listed, EntriesOf

LEMMA NextOwnershipTracked == SyncInvariant /\ [Next]_vars => OwnershipTracked'
<1> SUFFICES ASSUME SyncInvariant, [Next]_vars PROVE OwnershipTracked'
  OBVIOUS
<1> USE DEF SyncInvariant
<1>1. CASE Outside
  BY <1>1, OutsideStep DEF locals, NoAnswers, Mapped, OwnershipTracked
<1>2. CASE Ends
  BY <1>2, EndsStep DEF Ended, ForgetLocals, world, OwnershipTracked
<1>3. CASE ListGuests
  BY <1>3 DEF ListGuests, world, process, locals, history, OwnershipTracked
<1>4. ASSUME NEW g \in Guests, ResolveGuest(g) PROVE OwnershipTracked'
  BY <1>4 DEF ResolveGuest, world, process, locals, history, OwnershipTracked
<1>5. ASSUME NEW g \in Guests, ResolveFromFallback(g) PROVE OwnershipTracked'
  BY <1>5 DEF ResolveFromFallback, world, process, locals, history,
     OwnershipTracked
<1>6. ASSUME NEW g \in Guests, SkipGuest(g) PROVE OwnershipTracked'
  BY <1>6 DEF SkipGuest, world, process, locals, history, OwnershipTracked
<1>7. CASE BuildDesired
  BY <1>7 DEF BuildDesired, world, process, locals, history, OwnershipTracked
<1>8. CASE ListRewrites
  BY <1>8 DEF ListRewrites, world, process, locals, history, OwnershipTracked
<1>9. CASE LoadAndPlan
  <2>1. "edit" \notin Env =>
          \A d \in Mapped(records) \ Mapped(desired) :
              Listed(adguard[d]) => d \in plan'.delete
    <3> SUFFICES ASSUME "edit" \notin Env,
                        NEW d \in Mapped(records) \ Mapped(desired),
                        Listed(adguard[d])
                 PROVE  d \in plan'.delete
      OBVIOUS
    <3>1. FrontAnswer(adguard[d]) = current[d] /\ d \in Domains
      BY <1>9 DEF LoadAndPlan, Progress, OwnershipTracked, Mapped
    <3>2. FrontAnswer(adguard[d]) # None
      BY <3>1, NoneAssumption DEF FrontAnswer, Listed, TypeOK, RewriteList, Entry
    <3> QED
      BY <1>9, <3>1, <3>2 DEF LoadAndPlan, BuildPlan, Mapped
  <2> QED
    BY <1>9, <2>1 DEF LoadAndPlan, OwnershipTracked, world, history
<1>10. ASSUME NEW d \in Domains, AddRewrite(d) PROVE OwnershipTracked'
  <2> SUFFICES ASSUME "edit" \notin Env PROVE OwnershipTracked'
    BY DEF OwnershipTracked
  <2>1. touched = {} /\ \A w \in Domains : adguard[w].others = {}
    BY DEF OwnershipTracked
  <2>2. \A w \in Domains : w # d => adguard'[w] = adguard[w]
    BY <1>10 DEF AddRewrite, TypeOK
  <2>3. adguard'[d].others = {}
    <3>1. Write(d) \in Entry
      BY <1>10 DEF AddRewrite, TypeOK, PlanSound, Mapped, AnswerMap, Write, Entry, Authors
    <3>2. FrontAnswer(adguard[d]) = current[d]
      BY <1>10, <2>1 DEF AddRewrite, Progress
    <3>3. current[d] = None
      BY <1>10 DEF AddRewrite, PlanSound, Mapped
    <3> QED
      BY <1>10, <2>1, <3>1, <3>2, <3>3, AddTakesEffect DEF AddRewrite, TypeOK
  <2>4. CASE Ended
    BY <1>10, <2>1, <2>2, <2>3, <2>4 DEF AddRewrite, Ended, ForgetLocals, OwnershipTracked
  <2>5. CASE ~Ended
    BY <1>10, <2>1, <2>2, <2>3, <2>5, AppliedCases
       DEF AddRewrite, OwnershipTracked, PlanSound, TypeOK, Plan, Mapped
  <2> QED
    BY <2>4, <2>5
<1>11. ASSUME NEW d \in Domains, UpdateRewrite(d) PROVE OwnershipTracked'
  <2> SUFFICES ASSUME "edit" \notin Env PROVE OwnershipTracked'
    BY DEF OwnershipTracked
  <2>1. touched = {} /\ \A w \in Domains : adguard[w].others = {}
    BY DEF OwnershipTracked
  <2>2. \A w \in Domains : w # d => adguard'[w] = adguard[w]
    BY <1>11 DEF UpdateRewrite, TypeOK
  <2>3. adguard'[d].others = {}
    <3>1. Write(d) \in Entry
      BY <1>11 DEF UpdateRewrite, TypeOK, PlanSound, Mapped, AnswerMap, Write, Entry, Authors
    <3>2. FrontAnswer(adguard[d]) = current[d]
      BY <1>11, <2>1 DEF UpdateRewrite, Progress
    <3> QED
      BY <1>11, <2>1, <3>1, <3>2, UpdateTakesEffect DEF UpdateRewrite, TypeOK
  <2>4. CASE Ended
    BY <1>11, <2>1, <2>2, <2>3, <2>4 DEF UpdateRewrite, Ended, ForgetLocals, OwnershipTracked
  <2>5. CASE ~Ended
    BY <1>11, <2>1, <2>2, <2>3, <2>5, AppliedCases
       DEF UpdateRewrite, OwnershipTracked, PlanSound, TypeOK, Plan, Mapped
  <2> QED
    BY <2>4, <2>5
<1>12. ASSUME NEW d \in Domains, DeleteRewrite(d) PROVE OwnershipTracked'
  <2> SUFFICES ASSUME "edit" \notin Env PROVE OwnershipTracked'
    BY DEF OwnershipTracked
  <2>1. touched = {} /\ \A w \in Domains : adguard[w].others = {}
    BY DEF OwnershipTracked
  <2>2. \A w \in Domains : w # d => adguard'[w] = adguard[w]
    BY <1>12 DEF DeleteRewrite, TypeOK
  <2>3. adguard'[d].others = {} /\ ~Listed(adguard'[d])
    <3>1. FrontAnswer(adguard[d]) = current[d]
      BY <1>12, <2>1 DEF DeleteRewrite, Progress
    <3> QED
      BY <1>12, <2>1, <3>1, DeleteEmpties DEF DeleteRewrite, TypeOK
  <2>4. CASE Ended
    BY <1>12, <2>1, <2>2, <2>3, <2>4 DEF DeleteRewrite, Ended, ForgetLocals, OwnershipTracked
  <2>5. CASE ~Ended
    BY <1>12, <2>1, <2>2, <2>3, <2>5, AppliedCases
       DEF DeleteRewrite, OwnershipTracked, PlanSound, TypeOK, Plan, Mapped
  <2> QED
    BY <2>4, <2>5
<1>13. CASE Save
  BY <1>13 DEF Save, ReturnToLoop, ForgetLocals, process, OwnershipTracked
<1>14. ASSUME NEW g \in Guests, GuestChanges(g) PROVE OwnershipTracked'
  BY <1>14 DEF GuestChanges, world, process, locals, history, OwnershipTracked
<1>15. ASSUME NEW d \in UserDomains, UserEdit(d) PROVE OwnershipTracked'
  BY <1>15 DEF UserEdit, world, process, locals, history, OwnershipTracked
<1>16. CASE ReadExisting
  BY <1>16 DEF ReadExisting, world, process, locals, history, OwnershipTracked
<1> QED
  BY StepCases, <1>1, <1>2, <1>3, <1>4, <1>5, <1>6, <1>7, <1>8, <1>9, <1>10,
     <1>11, <1>12, <1>13, <1>14, <1>15, <1>16

LEMMA NextNoOrphan == SyncInvariant /\ [Next]_vars => NoOrphan'
<1> SUFFICES ASSUME SyncInvariant, [Next]_vars PROVE NoOrphan'
  OBVIOUS
<1> USE DEF SyncInvariant
<1>1. CASE Outside
  BY <1>1, OutsideStep DEF locals, NoAnswers, Mapped, NoOrphan
<1>2. CASE Ends
  BY <1>2, EndsStep DEF Ended, ForgetLocals, world, NoOrphan
<1>3. CASE ListGuests
  BY <1>3 DEF ListGuests, world, process, locals, history, NoOrphan
<1>4. ASSUME NEW g \in Guests, ResolveGuest(g) PROVE NoOrphan'
  BY <1>4 DEF ResolveGuest, world, process, locals, history, NoOrphan
<1>5. ASSUME NEW g \in Guests, ResolveFromFallback(g) PROVE NoOrphan'
  BY <1>5 DEF ResolveFromFallback, world, process, locals, history, NoOrphan
<1>6. ASSUME NEW g \in Guests, SkipGuest(g) PROVE NoOrphan'
  BY <1>6 DEF SkipGuest, world, process, locals, history, NoOrphan
<1>7. CASE BuildDesired
  BY <1>7 DEF BuildDesired, world, process, locals, history, NoOrphan
<1>8. CASE ListRewrites
  BY <1>8 DEF ListRewrites, world, process, locals, history, NoOrphan
<1>9. CASE LoadAndPlan
  BY <1>9 DEF LoadAndPlan, world, process, history, NoOrphan
<1>10. ASSUME NEW d \in Domains, AddRewrite(d) PROVE NoOrphan'
  <2>1. \A w \in Domains : w # d => adguard'[w] = adguard[w]
    BY <1>10 DEF AddRewrite, TypeOK
  <2> QED
    BY <1>10, <2>1 DEF AddRewrite, NoOrphan
<1>11. ASSUME NEW d \in Domains, UpdateRewrite(d) PROVE NoOrphan'
  <2>1. \A w \in Domains : w # d => adguard'[w] = adguard[w]
    BY <1>11 DEF UpdateRewrite, TypeOK
  <2> QED
    BY <1>11, <2>1 DEF UpdateRewrite, NoOrphan
<1>12. ASSUME NEW d \in Domains, DeleteRewrite(d) PROVE NoOrphan'
  <2>1. \A w \in Domains : w # d => adguard'[w] = adguard[w]
    BY <1>12 DEF DeleteRewrite, TypeOK
  <2>2. "edit" \notin Env => ~HasAppEntry(adguard'[d])
    <3> SUFFICES ASSUME "edit" \notin Env PROVE ~HasAppEntry(adguard'[d])
      OBVIOUS
    <3>1. FrontAnswer(adguard[d]) = current[d] /\ adguard[d].others = {}
      BY <1>12 DEF DeleteRewrite, Progress, OwnershipTracked
    <3> QED
      BY <1>12, <3>1, DeleteEmpties DEF DeleteRewrite, TypeOK, HasAppEntry
  <2> QED
    BY <1>12, <2>1, <2>2 DEF DeleteRewrite, NoOrphan
<1>13. CASE Save
  <2> SUFFICES ASSUME "edit" \notin Env, NEW d \in Domains, HasAppEntry(adguard[d])
               PROVE  records'[d] # None \/ d \in unsaved'
    BY <1>13 DEF Save, NoOrphan
  <2>1. Listed(adguard[d])
    BY DEF OwnershipTracked, HasAppEntry, EntriesOf
  <2>2. desired[d] = None => records[d] = None
    BY <1>13, <2>1 DEF Save, PlanSound, OwnershipTracked, Mapped, NoPlan
  <2>3. records[d] # None \/ d \in unsaved
    BY DEF NoOrphan
  <2> QED
    BY <1>13, <2>2, <2>3 DEF Save, Mapped
<1>14. ASSUME NEW g \in Guests, GuestChanges(g) PROVE NoOrphan'
  BY <1>14 DEF GuestChanges, world, process, locals, history, NoOrphan
<1>15. ASSUME NEW d \in UserDomains, UserEdit(d) PROVE NoOrphan'
  BY <1>15 DEF UserEdit, world, process, locals, history, NoOrphan
<1>16. CASE ReadExisting
  BY <1>16 DEF ReadExisting, world, process, locals, history, NoOrphan
<1> QED
  BY StepCases, <1>1, <1>2, <1>3, <1>4, <1>5, <1>6, <1>7, <1>8, <1>9, <1>10,
     <1>11, <1>12, <1>13, <1>14, <1>15, <1>16

LEMMA InitSyncInvariant == Init => SyncInvariant
<1> SUFFICES ASSUME Init PROVE SyncInvariant
  OBVIOUS
<1>1. TypeOK
  BY InitTypeOK
<1>2. PlanSound /\ Confined /\ DeletionsOwned
  BY DEF Init, PlanSound, Confined, DeletionsOwned, NoPlan, NoAnswers, Mapped
<1>3. ResolutionComplete /\ Progress /\ GuestsFollowed
  BY DEF Init, ResolutionComplete, PartialResolutionNeverApplied, Progress,
         GuestsFollowed, NoPlan
<1>4. NothingLeftOver /\ DesiredIsWanted
  BY DEF Init, NothingLeftOver, DesiredIsWanted
<1>5. OwnershipTracked /\ NoOrphan
  BY DEF Init, OwnershipTracked, NoOrphan, NoRewrites, HasAppEntry, EntriesOf, Listed
<1> QED
  BY <1>1, <1>2, <1>3, <1>4, <1>5 DEF SyncInvariant

LEMMA NextSyncInvariant == SyncInvariant /\ [Next]_vars => SyncInvariant'
<1> SUFFICES ASSUME SyncInvariant, [Next]_vars PROVE SyncInvariant'
  OBVIOUS
<1>1. TypeOK' /\ PlanSound'
  BY NextTypeOK, NextPlanSound DEF SyncInvariant
<1> QED
  BY <1>1, NextConfined, NextResolutionComplete, NextProgress,
     NextGuestsFollowed, NextNothingLeftOver, NextDesiredIsWanted,
     NextDeletionsOwned, NextOwnershipTracked, NextNoOrphan DEF SyncInvariant

\* The invariant holds in every reachable state.
THEOREM SyncInvariantHolds == Spec => []SyncInvariant
  BY InitSyncInvariant, NextSyncInvariant, PTL DEF Spec

-----------------------------------------------------------------------------
(***************************************************************************)
(* What follows from it.                                                   *)
(***************************************************************************)

\* Where nobody edits AdGuard Home by hand, every rewrite the program wrote is
\* on record, unless a synchronisation that wrote it did not get to Save or
\* the record was lost.
THEOREM NoOrphanHolds == Spec => []NoOrphan
<1>1. SyncInvariant => NoOrphan
  BY DEF SyncInvariant
<1> QED
  BY <1>1, SyncInvariantHolds, PTL

\* A set of guests that a cancellation cut short is never planned from.
THEOREM PartialResolutionHolds == Spec => []PartialResolutionNeverApplied
<1>1. SyncInvariant => PartialResolutionNeverApplied
  BY DEF SyncInvariant, ResolutionComplete
<1> QED
  BY <1>1, SyncInvariantHolds, PTL

LEMMA UnrelatedStep ==
  SyncInvariant /\ Process =>
      \A d \in Domains \ GuestDomains : adguard'[d] = adguard[d]
<1> SUFFICES ASSUME SyncInvariant, Process, NEW d \in Domains \ GuestDomains
             PROVE  adguard'[d] = adguard[d]
  OBVIOUS
<1> USE DEF SyncInvariant
<1>1. d \notin plan.add \cup plan.update \cup plan.delete
  BY DEF PlanSound, Confined
<1>2. CASE \E e \in Domains : AddRewrite(e) \/ UpdateRewrite(e) \/ DeleteRewrite(e)
  BY <1>1, <1>2 DEF AddRewrite, UpdateRewrite, DeleteRewrite, TypeOK
<1>3. CASE Outside \/ Ends \/ Save
  BY <1>3, OutsideStep, EndsStep DEF Save, world
<1>4. CASE ListGuests \/ BuildDesired \/ ListRewrites \/ LoadAndPlan \/ ReadExisting
  BY <1>4 DEF ListGuests, BuildDesired, ListRewrites, LoadAndPlan,
     ReadExisting, world
<1>5. CASE \E g \in Guests : ResolveGuest(g) \/ ResolveFromFallback(g) \/ SkipGuest(g)
  BY <1>5 DEF ResolveGuest, ResolveFromFallback, SkipGuest, world
<1> QED
  BY <1>2, <1>3, <1>4, <1>5 DEF Process, Work, Fail, Outside, Ends

\* The program never changes a rewrite of a domain that no guest is named
\* after, whatever else happens to AdGuard Home, to Proxmox and to its record.
THEOREM UnrelatedStaysUntouched == Spec => UnrelatedUntouched
<1>1. SyncInvariant /\ [Next]_vars =>
        [Process => \A d \in Domains \ GuestDomains : adguard'[d] = adguard[d]]_vars
  BY UnrelatedStep
<1> QED
  BY <1>1, SyncInvariantHolds, PTL DEF Spec, UnrelatedUntouched

\* A deletion is sent only for a domain whose ownership is on record, or was
\* until the record was lost while this very plan was applied.
THEOREM OnlyOwnedAreDeleted == Spec => OnlyOwnedDeleted
<1>1. SyncInvariant /\ [Next]_vars =>
        [\A d \in Domains : DeleteRewrite(d) => d \in Mapped(records) \cup lost]_vars
  BY DEF SyncInvariant, DeletionsOwned, DeleteRewrite
<1> QED
  BY <1>1, SyncInvariantHolds, PTL DEF Spec, OnlyOwnedDeleted

\* Additions and updates are in place before the first deletion is sent.
THEOREM DeletionsComeLast == Spec => InPlaceBeforeDelete
<1>1. SyncInvariant /\ [Next]_vars =>
        [\A d \in Domains :
            DeleteRewrite(d) =>
                \A w \in Mapped(desired) \ touched : InPlace(w)]_vars
  BY DEF SyncInvariant, Progress, DeleteRewrite, Mapped
<1> QED
  BY <1>1, SyncInvariantHolds, PTL DEF Spec, InPlaceBeforeDelete

\* What is put on record is in place.
THEOREM RecordIsBorneOut == Spec => SavedMeansInPlace
<1>1. SyncInvariant /\ [Next]_vars =>
        [Save => \A d \in Mapped(records') \ touched :
                    FrontAnswer(adguard[d]) = records'[d]]_vars
  BY DEF SyncInvariant, PlanSound, Progress, InPlace, Save, NoPlan, Mapped
<1> QED
  BY <1>1, SyncInvariantHolds, PTL DEF Spec, SavedMeansInPlace

\* No deletion hits the name of a guest that was listed, resolved and left
\* alone in this synchronisation.
THEOREM HealthyGuestKeepsRewrite == Spec => HealthyGuestNotDeleted
<1>1. SyncInvariant /\ [Next]_vars =>
        [\A d \in Domains :
            DeleteRewrite(d) =>
                \A g \in Guests \ excused :
                    guests[g] # None => guests[g].domain # d]_vars
  <2> SUFFICES ASSUME SyncInvariant, NEW d \in Domains, DeleteRewrite(d),
                      NEW g \in Guests \ excused, guests[g] # None
               PROVE  guests[g].domain # d
    OBVIOUS
  <2> USE DEF SyncInvariant
  <2>1. desired[guests[g].domain] = guests[g].answer
    BY DEF DeleteRewrite, GuestsFollowed, ResolutionComplete,
           PartialResolutionNeverApplied
  <2>2. guests[g].answer # None
    BY NoneAssumption DEF TypeOK, GuestTarget
  <2> QED
    BY <2>1, <2>2 DEF DeleteRewrite, PlanSound, Mapped
<1> QED
  BY <1>1, SyncInvariantHolds, PTL DEF Spec, HealthyGuestNotDeleted

\* A synchronisation that completes has served every such guest.
THEOREM HealthyGuestIsServed == Spec => HealthyGuestServed
<1>1. SyncInvariant /\ [Next]_vars =>
        [Save => \A g \in Guests \ excused :
            guests[g] # None =>
                /\ records'[guests[g].domain] = guests[g].answer
                /\ \/ FrontAnswer(adguard[guests[g].domain]) = guests[g].answer
                   \/ guests[g].domain \in touched]_vars
  <2> SUFFICES ASSUME SyncInvariant, Save, NEW g \in Guests \ excused,
                      guests[g] # None
               PROVE  /\ records'[guests[g].domain] = guests[g].answer
                      /\ \/ FrontAnswer(adguard[guests[g].domain]) = guests[g].answer
                         \/ guests[g].domain \in touched
    OBVIOUS
  <2> USE DEF SyncInvariant
  <2>1. desired[guests[g].domain] = guests[g].answer
    BY DEF Save, GuestsFollowed, ResolutionComplete, PartialResolutionNeverApplied
  <2>2. guests[g].answer # None /\ guests[g].domain \in Domains
    BY NoneAssumption, DomainsAssumption DEF TypeOK, GuestTarget
  <2> QED
    BY <2>1, <2>2 DEF Save, PlanSound, Progress, InPlace, NoPlan, Mapped
<1> QED
  BY <1>1, SyncInvariantHolds, PTL DEF Spec, HealthyGuestServed

\* A dry run changes neither AdGuard Home nor the ownership record.
THEOREM DryRunChangesNothing == Spec => DryRunReadOnly
<1>1. SyncInvariant /\ [Next]_vars =>
        [dryRun /\ Process => UNCHANGED <<adguard, stateFile, records>>]_vars
  <2> SUFFICES ASSUME SyncInvariant, dryRun, Process
               PROVE  UNCHANGED <<adguard, stateFile, records>>
    OBVIOUS
  <2>1. pc \notin {"execute", "replace"}
    BY DEF SyncInvariant, PlanSound
  <2>2. ~ReadExisting /\ ~Save /\ \A d \in Domains :
                    ~AddRewrite(d) /\ ~UpdateRewrite(d) /\ ~DeleteRewrite(d)
    BY <2>1 DEF ReadExisting, Save, AddRewrite, UpdateRewrite, DeleteRewrite
  <2>3. CASE Verify \/ Tick
    BY <2>3 DEF Verify, Tick, world
  <2>4. CASE Ends
    BY <2>4, EndsStep DEF world, SyncInvariant
  <2>5. CASE ListGuests \/ BuildDesired \/ ListRewrites \/ LoadAndPlan
    BY <2>5 DEF ListGuests, BuildDesired, ListRewrites, LoadAndPlan, world
  <2>6. CASE \E g \in Guests : ResolveGuest(g) \/ ResolveFromFallback(g) \/ SkipGuest(g)
    BY <2>6 DEF ResolveGuest, ResolveFromFallback, SkipGuest, world
  <2> QED
    BY <2>2, <2>3, <2>4, <2>5, <2>6 DEF Process, Work, Fail, Ends
<1> QED
  BY <1>1, SyncInvariantHolds, PTL DEF Spec, DryRunReadOnly

\* While the state file does not decode, no synchronisation gets past loading
\* it to AdGuard Home or past reading it in Save: it is replaced only where it
\* was damaged after Save had read it.
THEOREM CorruptStateStays == Spec => CorruptStateKept
<1>1. TypeOK /\ [Next]_vars =>
        [stateFile = "corrupt" /\ pc # "replace" /\ Process =>
            /\ stateFile' = "corrupt"
            /\ pc' # "replace"
            /\ pc # "execute" => pc' # "execute"]_vars
  <2> SUFFICES ASSUME TypeOK, stateFile = "corrupt", pc # "replace", Process
               PROVE  /\ stateFile' = "corrupt"
                      /\ pc' # "replace"
                      /\ pc # "execute" => pc' # "execute"
    OBVIOUS
  <2>1. ~ReadExisting /\ ~Save /\ ~LoadAndPlan
    BY DEF ReadExisting, Save, LoadAndPlan
  <2>2. CASE Verify \/ Tick
    BY <2>2 DEF Verify, Tick, world
  <2>3. CASE Ends
    BY <2>3, EndsStep DEF Ended, world
  <2>4. CASE ListGuests \/ BuildDesired \/ ListRewrites
    BY <2>4 DEF ListGuests, BuildDesired, ListRewrites, world
  <2>5. CASE \E g \in Guests : ResolveGuest(g) \/ ResolveFromFallback(g) \/ SkipGuest(g)
    BY <2>5 DEF ResolveGuest, ResolveFromFallback, SkipGuest, world
  <2>6. ASSUME NEW d \in Domains, AddRewrite(d) \/ UpdateRewrite(d) \/ DeleteRewrite(d)
        PROVE  stateFile' = "corrupt" /\ pc = "execute" /\ pc' # "replace"
    <3>1. stateFile' = "corrupt" /\ pc = "execute"
      BY <2>6 DEF AddRewrite, UpdateRewrite, DeleteRewrite
    <3>2. Ended \/ pc' = pc
      BY <2>6, AppliedCases DEF AddRewrite, UpdateRewrite, DeleteRewrite
    <3> QED
      BY <3>1, <3>2 DEF Ended
  <2> QED
    BY <2>1, <2>2, <2>3, <2>4, <2>5, <2>6 DEF Process, Work, Fail, Ends
<1> QED
  BY <1>1, TypeCorrect, PTL DEF Spec, CorruptStateKept
-----------------------------------------------------------------------------
(***************************************************************************)
(* What a completed synchronisation leaves, and what keeps it so.          *)
(***************************************************************************)

LEMMA WantedType == TypeOK => Wanted \in AnswerMap
  BY DesiredType, GuestTargetsAreTargets DEF TypeOK, Wanted

\* In a settled state nothing is planned, so no mutation is sent.
LEMMA SettledSendsNothing ==
  ASSUME Settled, NEW d \in Domains
  PROVE  ~AddRewrite(d) /\ ~UpdateRewrite(d) /\ ~DeleteRewrite(d) /\ ~UpdateRefused(d)
  BY DEF Settled, NoPlan, AddRewrite, UpdateRewrite, DeleteRewrite, UpdateRefused

\* A synchronisation that ends without an effect leaves a settled state so.
LEMMA EndedStaysSettled ==
  ASSUME Settled, Ended, UNCHANGED world
  PROVE  Settled'
  BY DEF Settled, Ended, world, InSync, Wanted

LEMMA SaveSettles ==
  ASSUME SyncInvariant, Save, excused = {}, touched = {}
  PROVE  Settled'
<1> USE DEF SyncInvariant
<1>1. desired = Wanted /\ ~DuplicateDomain(guests)
  BY DEF Save, DesiredIsWanted, ResolutionComplete, PartialResolutionNeverApplied
<1>2. \A d \in Mapped(Wanted) : FrontAnswer(adguard[d]) = Wanted[d]
  BY <1>1 DEF Save, PlanSound, Progress, InPlace, NoPlan, Mapped
<1>3. Wanted' = Wanted
  BY DEF Save, Wanted
<1> QED
  BY <1>1, <1>2, <1>3 DEF Save, ReturnToLoop, Settled, InSync

LEMMA SettledStays ==
  ASSUME SyncInvariant, Settled, Undisturbed
  PROVE  Settled'
<1> USE DEF SyncInvariant
<1>1. CASE Ends
  BY <1>1, EndsStep, EndedStaysSettled DEF world
<1>2. CASE StartAgain \/ Verify \/ Tick \/ Signal
  BY <1>2 DEF StartAgain, Start, Verify, Tick, Signal, world, process, locals,
     Settled, InSync, Wanted
<1>3. CASE ListGuests
  <2>1. \A g \in Guests :
           pending'[g] = IF guests[g] = None THEN None ELSE guests[g].domain
    BY <1>3 DEF ListGuests
  <2>2. \A g \in Guests : resolved'[g] = None
    BY <1>3 DEF ListGuests, NothingLeftOver, NoTargets
  <2>3. \A g \in Guests : AsListed(g)'
    BY <1>3, <2>1, <2>2 DEF ListGuests, world, AsListed, Pending
  <2> QED
    BY <1>3, <2>3 DEF ListGuests, world, process, Settled, InSync, Wanted
<1>4. ASSUME NEW g \in Guests, ResolveGuest(g) PROVE Settled'
  <2>1. pending[g] = guests[g].domain
    BY <1>4 DEF ResolveGuest, Settled, AsListed, Pending
  <2>2. resolved'[g] = guests[g] /\ pending'[g] = None
    BY <1>4, <2>1 DEF ResolveGuest, TypeOK, GuestTarget
  <2>3. \A h \in Guests : h # g => resolved'[h] = resolved[h] /\ pending'[h] = pending[h]
    BY <1>4 DEF ResolveGuest, TypeOK
  <2>4. \A h \in Guests : AsListed(h)'
    BY <1>4, <2>2, <2>3 DEF ResolveGuest, world, Settled, AsListed, Pending
  <2> QED
    BY <1>4, <2>4 DEF ResolveGuest, world, process, Settled, InSync, Wanted
<1>5. ASSUME NEW g \in Guests, guests[g] = None \/ cancelled,
             SkipGuest(g) \/ ResolveFromFallback(g)
      PROVE  Settled'
  <2>1. pc = "resolve" /\ Pending(g)
    BY <1>5 DEF SkipGuest, ResolveFromFallback
  <2>2. cancelled
    BY <1>5, <2>1, NoneAssumption, DomainsAssumption DEF Settled, AsListed
  <2> QED
    BY <1>5, <2>1, <2>2
       DEF SkipGuest, ResolveFromFallback, world, process, Settled, InSync, Wanted
<1>6. CASE BuildDesired
  <2>1. cancelled \/ \A g \in Guests : resolved[g] = guests[g]
    BY <1>6, NoneAssumption, DomainsAssumption
       DEF BuildDesired, ResolutionOver, Settled, AsListed, Pending, TypeOK,
           GuestTarget
  <2>2. cancelled \/ resolved = guests
    BY <2>1 DEF TypeOK
  <2> QED
    BY <1>6, <2>2 DEF BuildDesired, world, process, Settled, InSync, Wanted
<1>7. CASE ListRewrites
  <2>1. desired = Wanted
    BY <1>7 DEF ListRewrites, Settled
  <2>2. \A d \in Mapped(Wanted) : current'[d] = Wanted[d]
    BY <1>7 DEF ListRewrites, Settled, InSync, indexRewrites, Mapped
  <2> QED
    BY <1>7, <2>1, <2>2 DEF ListRewrites, world, process, Settled, InSync, Wanted
<1>8. CASE LoadAndPlan
  <2>1. desired = Wanted /\ records = Wanted
    BY <1>8 DEF LoadAndPlan, Settled, InSync
  <2>2. \A d \in Mapped(desired) : current[d] = desired[d]
    BY <1>8, <2>1 DEF LoadAndPlan, Settled
  <2>3. plan' = NoPlan
    BY <1>8, <2>1, <2>2, ServedNeedsNoPlan DEF LoadAndPlan, TypeOK
  <2> QED
    BY <1>8, <2>1, <2>3 DEF LoadAndPlan, world, process, Settled, InSync, Wanted
<1>9. CASE ReadExisting
  BY <1>9 DEF ReadExisting, world, process, locals, Settled, InSync, Wanted
<1>10. CASE Save
  BY <1>10 DEF Save, ReturnToLoop, Settled, InSync, Wanted
<1> QED
  BY SettledSendsNothing, <1>1, <1>2, <1>3, <1>4, <1>5, <1>6, <1>7, <1>8,
     <1>9, <1>10 DEF Undisturbed, Work, Ends

\* A synchronisation that followed every guest and met no user leaves AdGuard
\* Home, the record and the guests in agreement, and no failing call, no lost
\* response, no signal, crash or restart undoes that.
THEOREM SettlesForGood == Spec => Settles
<1>1. SyncInvariant /\ [Next]_vars =>
        [(Save /\ excused = {} /\ touched = {}) \/ (Settled /\ Undisturbed)
            => Settled']_vars
  BY SaveSettles, SettledStays
<1> QED
  BY <1>1, SyncInvariantHolds, PTL DEF Spec, Settles

\* So where from now on nothing outside the program changes and every guest
\* answers, a settled state is settled for ever.
THEOREM SettledForEver ==
  Spec /\ [][Undisturbed]_vars => [](Settled => []Settled)
<1>1. Settled /\ UNCHANGED vars => Settled'
  BY DEF vars, world, process, locals, Settled, InSync, Wanted, AsListed, Pending
<1>2. SyncInvariant /\ Settled /\ [Undisturbed]_vars => Settled'
  BY <1>1, SettledStays
<1> QED
  BY <1>2, SyncInvariantHolds, PTL
=============================================================================
