--------------------------- MODULE InstancesProofs ---------------------------
(***************************************************************************)
(* Proofs about Instances, for any instances, domains, answers, guests and *)
(* lists of users, and whatever bound there is on the parties at work.     *)
(***************************************************************************)
EXTENDS Instances, SequenceTheorems, FiniteSetTheorems, TLAPS

(* AdGuard Home's list. *)

LEMMA WrittenType ==
  ASSUME NEW answer \in Answers
  PROVE  Written(answer) \in Rewrite
  BY DEF Written, Rewrite, Authors

LEMMA SelectedEntries ==
  ASSUME NEW l \in Seq(Rewrite), NEW K \in SUBSET DOMAIN l, NEW m \in Selected(l, K)
  PROVE  /\ m \in Seq(Rewrite)
         /\ \A k \in DOMAIN m : \E j \in K : m[k] = l[j]
<1>1. DOMAIN l = 1 .. Len(l) /\ Len(l) \in Nat /\ l \in [1 .. Len(l) -> Rewrite]
  BY LenProperties
<1>2. Cardinality(K) \in Nat
  <2>1. IsFiniteSet(1 .. Len(l))
    BY <1>1, FS_Interval
  <2>2. K \in SUBSET (1 .. Len(l))
    BY <1>1
  <2>3. IsFiniteSet(K)
    BY <2>1, <2>2, FS_Subset
  <2> QED
    BY <2>3, FS_CardinalityType
<1> DEFINE n == Cardinality(K)
<1>3. PICK f \in [1 .. n -> K] : m = [k \in 1 .. n |-> l[f[k]]]
  BY DEF Selected
<1>4. m \in [1 .. n -> Rewrite]
  BY <1>1, <1>3
<1>5. m \in Seq(Rewrite)
  BY <1>2, <1>4, SeqDef
<1> QED
  BY <1>3, <1>5

LEMMA EffectResult ==
  ASSUME NEW l \in Seq(Rewrite), NEW r \in Request, NEW m \in Effect(l, r)
  PROVE  /\ m \in Seq(Rewrite)
         /\ r.kind = "delete" =>
               \A k \in DOMAIN m :
                   \E j \in DOMAIN l \ Matching(l, r.old) : m[k] = l[j]
<1>1. CASE r.kind = "add"
  <2>1. m = Append(l, Written(r.new)) /\ r.new \in Answers
    BY <1>1 DEF Effect, Request
  <2> QED
    BY <1>1, <2>1, WrittenType, AppendProperties
<1>2. CASE r.kind = "update"
  <2>1. PICK k \in Matching(l, r.old) : m = [l EXCEPT ![k] = Written(r.new)]
    BY <1>2 DEF Effect
  <2>2. r.new \in Answers /\ k \in 1 .. Len(l)
    BY <1>2, LenProperties DEF Request, Matching
  <2> QED
    BY <1>2, <2>1, <2>2, WrittenType, ExceptSeq
<1>3. CASE r.kind = "delete"
  <2>1. m \in Selected(l, DOMAIN l \ Matching(l, r.old))
    BY <1>3 DEF Effect
  <2> QED
    BY <2>1, SelectedEntries
<1> QED
  BY <1>1, <1>2, <1>3 DEF Request

LEMMA FrontType ==
  ASSUME NEW l \in Seq(Rewrite)
  PROVE  /\ Front(l) \in Answers \cup {None}
         /\ l # <<>> => 1 \in DOMAIN l /\ l[1] \in Rewrite /\ Front(l) \in Answers
         /\ Front(l) = None <=> l = <<>>
<1>1. CASE l = <<>>
  BY <1>1 DEF Front
<1>2. CASE l # <<>>
  <2>1. 1 \in 1 .. Len(l) /\ DOMAIN l = 1 .. Len(l)
    BY <1>2, EmptySeq, LenProperties
  <2>2. l[1] \in Rewrite
    BY <2>1, ElementOfSeq
  <2> QED
    BY <1>2, <2>1, <2>2, NoneAssumption DEF Front, Rewrite
<1> QED
  BY <1>1, <1>2

\* Where all is in order and the request goes by the first entry, all stays in
\* order; and a deletion leaves no rewrite of the program's.
LEMMA EffectInOrder ==
  ASSUME NEW l \in Seq(Rewrite), NEW r \in Request, NEW m \in Effect(l, r),
         \A k \in DOMAIN l : l[k].plain, AppEntries(l) \subseteq {1},
         Front(l) = r.old
  PROVE  /\ \A k \in DOMAIN m : m[k].plain
         /\ AppEntries(m) \subseteq {1}
         /\ r.kind = "delete" => AppEntries(m) = {}
<1>1. CASE r.kind = "add"
  <2>1. r.old = None /\ r.new \in Answers
    BY <1>1 DEF Request
  <2>2. l = <<>>
    BY <2>1, FrontType
  <2>3. m = Append(<<>>, Written(r.new))
    BY <1>1, <2>2 DEF Effect
  <2>4. m \in Seq(Rewrite) /\ Len(m) = 1 /\ m[1] = Written(r.new)
    BY <2>1, <2>3, WrittenType, AppendProperties, EmptySeq
  <2>5. DOMAIN m = {1}
    BY <2>4, LenProperties
  <2> QED
    BY <1>1, <2>4, <2>5 DEF AppEntries, Written
<1>2. CASE r.kind = "update"
  <2>1. r.old \in Answers /\ r.new \in Answers
    BY <1>2 DEF Request
  <2>2. l # <<>> /\ 1 \in DOMAIN l /\ l[1].answer = r.old
    BY <2>1, FrontType, NoneAssumption DEF Front
  <2>3. 1 \in Matching(l, r.old)
    BY <2>2 DEF Matching
  <2>4. PICK k \in Matching(l, r.old) :
           k <= 1 /\ m = [l EXCEPT ![k] = Written(r.new)]
    BY <1>2, <2>3 DEF Effect
  <2>5. k = 1 /\ DOMAIN l = 1 .. Len(l) /\ Len(l) \in Nat
    BY <2>4, LenProperties DEF Matching
  <2>6. DOMAIN m = DOMAIN l /\ m[1] = Written(r.new) /\ \A j \in DOMAIN l \ {1} : m[j] = l[j]
    BY <2>2, <2>4, <2>5
  <2> QED
    BY <1>2, <2>6 DEF AppEntries, Written
<1>3. CASE r.kind = "delete"
  <2>1. r.old \in Answers
    BY <1>3 DEF Request
  <2>2. l # <<>> /\ 1 \in DOMAIN l /\ l[1].answer = r.old
    BY <2>1, FrontType, NoneAssumption DEF Front
  <2>3. 1 \in Matching(l, r.old)
    BY <2>2 DEF Matching
  <2>4. \A k \in DOMAIN m : \E j \in DOMAIN l \ {1} : m[k] = l[j]
    BY <1>3, <2>3, EffectResult
  <2> QED
    BY <2>4 DEF AppEntries
<1> QED
  BY <1>1, <1>2, <1>3 DEF Request

\* An addition to a domain without entries, and an update of the first entry,
\* make the new answer the first.
LEMMA EffectInPlace ==
  ASSUME NEW l \in Seq(Rewrite), NEW r \in Request, NEW m \in Effect(l, r),
         r.kind # "delete", Front(l) = r.old, ~OddFront(l)
  PROVE  Front(m) = r.new
<1>1. CASE r.kind = "add"
  <2>1. r.old = None /\ r.new \in Answers
    BY <1>1 DEF Request
  <2>2. l = <<>>
    BY <2>1, FrontType
  <2>3. m = Append(<<>>, Written(r.new))
    BY <1>1, <2>2 DEF Effect
  <2>4. m \in Seq(Rewrite) /\ Len(m) = 1 /\ m[1] = Written(r.new)
    BY <2>1, <2>3, WrittenType, AppendProperties, EmptySeq
  <2>5. m # <<>>
    <3>1. DOMAIN m = {1}
      BY <2>4, LenProperties
    <3> QED
      BY <3>1
  <2> QED
    BY <2>4, <2>5 DEF Front, Written
<1>2. CASE r.kind = "update"
  <2>1. r.old \in Answers /\ r.new \in Answers
    BY <1>2 DEF Request
  <2>2. l # <<>> /\ 1 \in DOMAIN l /\ l[1].answer = r.old /\ l[1].plain
    BY <2>1, FrontType, NoneAssumption DEF Front, OddFront
  <2>3. 1 \in Matching(l, r.old)
    BY <2>2 DEF Matching
  <2>4. PICK k \in Matching(l, r.old) :
           k <= 1 /\ m = [l EXCEPT ![k] = Written(r.new)]
    BY <1>2, <2>3 DEF Effect
  <2>5. k = 1 /\ DOMAIN l = 1 .. Len(l) /\ Len(l) \in Nat
    BY <2>4, LenProperties DEF Matching
  <2>6. DOMAIN m = DOMAIN l /\ m[1] = Written(r.new)
    BY <2>2, <2>4, <2>5
  <2>7. m # <<>>
    BY <2>2, <2>6
  <2> QED
    BY <2>6, <2>7 DEF Front, Written
<1> QED
  BY <1>1, <1>2 DEF Request

-----------------------------------------------------------------------------
(* Plans and requests. *)

LEMMA BuildPlanFacts ==
  ASSUME NEW wish \in AnswerMap, NEW listed \in AnswerMap, NEW owned \in AnswerMap
  PROVE  LET p == BuildPlan(wish, listed, owned)
         IN  /\ p \in Plan
             /\ p.add \cup p.update \subseteq Mapped(wish)
             /\ p.add \cap Mapped(listed) = {}
             /\ p.update \cup p.delete \subseteq Mapped(listed)
             /\ p.delete = (Mapped(listed) \ Mapped(wish)) \cap Mapped(owned)
  BY DEF BuildPlan, Plan, Mapped

LEMMA SendableFacts ==
  ASSUME TypeOK, PlansSound, NEW i \in Processes, NEW r \in Sendable(i)
  PROVE  /\ r \in Request
         /\ r.domain \in Domains /\ r.domain \in Planned(plan[i])
         /\ r.old = current[i][r.domain]
         /\ r.kind = "delete" => r.domain \in plan[i].delete
         /\ r.kind # "delete" =>
               r.domain \in Mapped(desired[i]) /\ r.new = desired[i][r.domain]
<1>1. desired[i] \in AnswerMap /\ current[i] \in AnswerMap /\ plan[i] \in Plan
  BY DEF TypeOK
<1>2. CASE plan[i].add # {}
  <2>1. PICK d \in plan[i].add : r = Asks("add", d, None, desired[i][d])
    BY <1>2 DEF Sendable
  <2>2. d \in Domains /\ d \in Mapped(desired[i]) /\ current[i][d] = None
    BY <1>1, <2>1 DEF PlansSound, Plan, Mapped
  <2>3. desired[i][d] \in Answers
    BY <1>1, <2>2 DEF AnswerMap, Mapped
  <2> QED
    BY <2>1, <2>2, <2>3 DEF Asks, Request, Planned
<1>3. CASE plan[i].add = {} /\ plan[i].update # {}
  <2>1. PICK d \in plan[i].update : r = Asks("update", d, current[i][d], desired[i][d])
    BY <1>3 DEF Sendable
  <2>2. d \in Domains /\ d \in Mapped(desired[i]) /\ d \in Mapped(current[i])
    BY <1>1, <2>1 DEF PlansSound, Plan, Mapped
  <2>3. desired[i][d] \in Answers /\ current[i][d] \in Answers
    BY <1>1, <2>2 DEF AnswerMap, Mapped
  <2> QED
    BY <2>1, <2>2, <2>3 DEF Asks, Request, Planned
<1>4. CASE plan[i].add = {} /\ plan[i].update = {}
  <2>1. PICK d \in plan[i].delete : r = Asks("delete", d, current[i][d], None)
    BY <1>4 DEF Sendable
  <2>2. d \in Domains /\ d \in Mapped(current[i])
    BY <1>1, <2>1 DEF PlansSound, Plan, Mapped
  <2>3. current[i][d] \in Answers
    BY <1>1, <2>2 DEF AnswerMap, Mapped
  <2> QED
    BY <2>1, <2>2, <2>3 DEF Asks, Request, Planned
<1> QED
  BY <1>2, <1>3, <1>4

-----------------------------------------------------------------------------
(* Steps.  Ends is what a synchronisation that ends without a record does. *)

Ends(i) == Return(i) /\ UNCHANGED <<list, record, wanted, disturbed, unsaved>>

LEMMA EndingSteps ==
  ASSUME NEW i \in Processes
  PROVE  /\ Fails(i) => Ends(i) /\ late' = late
         /\ \A r : Refused(i, r) => Ends(i) /\ late' = late
         /\ \A r : GiveUp(i, r) => Ends(i) /\ r \in Sendable(i) /\ late' = late \cup {r}
  BY DEF Fails, Refused, GiveUp, Ends, shared

LEMMA Emptiness ==
  /\ NoAnswers \in AnswerMap /\ Mapped(NoAnswers) = {}
  /\ NoPlan \in Plan /\ Planned(NoPlan) = {}
  /\ NoPlan.add = {} /\ NoPlan.update = {} /\ NoPlan.delete = {}
  BY DEF NoAnswers, AnswerMap, Mapped, NoPlan, Plan, Planned

LEMMA ReturnTypes ==
  ASSUME TypeOK, NEW i \in Processes, Return(i)
  PROVE  /\ pc' \in [Processes -> {"idle", "fetch", "load", "execute"}]
         /\ desired' \in [Processes -> AnswerMap]
         /\ current' \in [Processes -> AnswerMap]
         /\ plan' \in [Processes -> Plan]
         /\ moved' \in [Processes -> SUBSET Domains]
  BY Emptiness DEF TypeOK, Return

LEMMA MovesType ==
  ASSUME TypeOK, NEW d \in Domains, NEW callers, Moves(d, callers)
  PROVE  moved' \in [Processes -> SUBSET Domains]
  BY DEF TypeOK, Moves

LEMMA ChangedTypes ==
  ASSUME TypeOK, NEW r \in Request, NEW callers, Changed(r, callers)
  PROVE  /\ list' \in [Domains -> Seq(Rewrite)]
         /\ unsaved' \subseteq Domains
         /\ moved' \in [Processes -> SUBSET Domains]
<1>1. r.domain \in Domains
  BY DEF Request
<1>2. PICK m \in Effect(list[r.domain], r) : list' = [list EXCEPT ![r.domain] = m]
  BY DEF Changed
<1>3. m \in Seq(Rewrite)
  BY <1>1, EffectResult DEF TypeOK
<1>4. list' \in [Domains -> Seq(Rewrite)]
  BY <1>1, <1>2, <1>3 DEF TypeOK
<1>5. unsaved' \subseteq Domains
  BY <1>1 DEF TypeOK, Changed
<1>6. moved' \in [Processes -> SUBSET Domains]
  BY <1>1, MovesType DEF Changed
<1> QED
  BY <1>4, <1>5, <1>6

LEMMA IndexedType ==
  ASSUME NEW l \in [Domains -> Seq(Rewrite)]
  PROVE  indexed(l) \in AnswerMap /\ \A d \in Domains : indexed(l)[d] = Front(l[d])
  BY FrontType DEF indexed, AnswerMap

LEMMA UserListType ==
  ASSUME NEW l \in UserLists
  PROVE  l \in Seq(Rewrite) /\ AppEntries(l) = {}
<1> DEFINE ByUsers == {e \in Rewrite : e.by = "user"}
<1>1. l \in Seq(ByUsers)
  BY InstancesAssumption
<1>2. l \in Seq(Rewrite)
  BY <1>1, SeqMonotonic
<1>3. DOMAIN l = 1 .. Len(l) /\ \A k \in 1 .. Len(l) : l[k] \in ByUsers
  BY <1>1, LenProperties, ElementOfSeq
<1> QED
  BY <1>2, <1>3 DEF AppEntries

LEMMA InitTypes == Init => TypeOK
<1> SUFFICES ASSUME Init PROVE TypeOK
  OBVIOUS
<1>1. list \in [Domains -> Seq(Rewrite)]
  BY UserListType DEF Init
<1> QED
  BY <1>1, Emptiness DEF Init, TypeOK

LEMMA TypesKept ==
  TypeOK /\ PlansSound /\ [Next]_vars => TypeOK'
<1> SUFFICES ASSUME TypeOK, PlansSound, [Next]_vars PROVE TypeOK'
  OBVIOUS
<1>1. ASSUME NEW i \in Processes, Resolve(i) PROVE TypeOK'
  BY <1>1, InstancesAssumption DEF TypeOK, Resolve, shared
<1>2. ASSUME NEW i \in Processes, ListRewrites(i) PROVE TypeOK'
  BY <1>2, IndexedType DEF TypeOK, ListRewrites, shared
<1>3. ASSUME NEW i \in Processes, LoadAndPlan(i) PROVE TypeOK'
  <2>1. BuildPlan(desired[i], current[i], record) \in Plan
    BY BuildPlanFacts DEF TypeOK
  <2> QED
    BY <1>3, <2>1 DEF TypeOK, LoadAndPlan, shared
<1>4. ASSUME NEW i \in Processes, NEW r \in Sendable(i), Apply(i, r) PROVE TypeOK'
  <2>1. r \in Request /\ r.domain \in Domains
    BY SendableFacts
  <2>2. Without(plan[i], r.domain) \in Plan
    BY DEF TypeOK, Without, Plan
  <2>3. /\ list' \in [Domains -> Seq(Rewrite)]
        /\ unsaved' \subseteq Domains
        /\ moved' \in [Processes -> SUBSET Domains]
    BY <1>4, <2>1, ChangedTypes DEF Apply
  <2> QED
    BY <1>4, <2>1, <2>2, <2>3 DEF TypeOK, Apply
<1>5. ASSUME NEW i \in Processes, Save(i) PROVE TypeOK'
  <2>1. record' \in AnswerMap /\ unsaved' \subseteq Domains /\ disturbed' \subseteq Domains
    BY <1>5 DEF TypeOK, Save
  <2> QED
    BY <1>5, <2>1, ReturnTypes DEF TypeOK, Save
<1>6. ASSUME NEW i \in Processes, Ends(i), late' \subseteq Request PROVE TypeOK'
  BY <1>6, ReturnTypes DEF TypeOK, Ends
<1>7. ASSUME NEW r \in late, Arrive(r) PROVE TypeOK'
  <2>1. r \in Request /\ r.domain \in Domains
    BY DEF TypeOK, Request
  <2>2. /\ list' \in [Domains -> Seq(Rewrite)]
        /\ unsaved' \subseteq Domains
        /\ moved' \in [Processes -> SUBSET Domains]
    BY <1>7, <2>1, ChangedTypes DEF Arrive, TypeOK
  <2> QED
    BY <1>7, <2>1, <2>2 DEF TypeOK, Arrive
<1>8. CASE GuestsChange
  BY <1>8 DEF TypeOK, GuestsChange, locals
<1>9. ASSUME NEW d \in Domains, UserEdits(d) PROVE TypeOK'
  <2>1. list' \in [Domains -> Seq(Rewrite)]
    BY <1>9, UserListType DEF TypeOK, UserEdits
  <2>2. moved' \in [Processes -> SUBSET Domains]
    BY <1>9, MovesType DEF UserEdits
  <2> QED
    BY <1>9, <2>1, <2>2 DEF TypeOK, UserEdits
<1>10. CASE UNCHANGED vars
  BY <1>10 DEF TypeOK, vars, shared, locals
<1>11. ASSUME NEW i \in Processes, Unanswered(i) \/ \E r \in Sendable(i) : Refused(i, r)
       PROVE  Ends(i) /\ late' \subseteq Request
  BY <1>11, EndingSteps, SendableFacts DEF Unanswered, TypeOK
<1> QED
  BY <1>1, <1>2, <1>3, <1>4, <1>5, <1>6, <1>7, <1>8, <1>9, <1>10, <1>11
     DEF Next, Step, Answered

-----------------------------------------------------------------------------
(* The parts of the invariant, one lemma each. *)

\* A step is one of these.
LEMMA StepCases ==
  ASSUME TypeOK, PlansSound, [Next]_vars,
         NEW Goal,
         \A i \in Processes : Resolve(i) => Goal,
         \A i \in Processes : ListRewrites(i) => Goal,
         \A i \in Processes : LoadAndPlan(i) => Goal,
         \A i \in Processes : \A r \in Sendable(i) : Apply(i, r) => Goal,
         \A i \in Processes : Save(i) => Goal,
         \A i \in Processes : Ends(i) => Goal,
         \A r \in late : Arrive(r) => Goal,
         UNCHANGED <<list, record, late, disturbed, unsaved, pc, locals>> => Goal,
         \A d \in Domains : UserEdits(d) => Goal
  PROVE  Goal
<1>1. \A i \in Processes :
         Unanswered(i) \/ (\E r \in Sendable(i) : Refused(i, r)) => Ends(i)
  BY EndingSteps DEF Unanswered
<1>2. GuestsChange \/ UNCHANGED vars
        => UNCHANGED <<list, record, late, disturbed, unsaved, pc, locals>>
  BY DEF GuestsChange, vars, shared, locals
<1> QED
  BY <1>1, <1>2 DEF Next, Step, Answered

\* How a process that returns looks afterwards, and the others.
LEMMA AfterReturn ==
  ASSUME TypeOK, NEW i \in Processes, Return(i)
  PROVE  /\ pc'[i] = "idle" /\ plan'[i] = NoPlan /\ moved'[i] = {}
         /\ desired'[i] = NoAnswers /\ current'[i] = NoAnswers
         /\ \A j \in Processes \ {i} :
               /\ pc'[j] = pc[j] /\ plan'[j] = plan[j] /\ moved'[j] = moved[j]
               /\ desired'[j] = desired[j] /\ current'[j] = current[j]
  BY DEF TypeOK, Return

LEMMA PlansSoundKept ==
  TypeOK /\ PlansSound /\ [Next]_vars => PlansSound'
<1> SUFFICES ASSUME TypeOK, PlansSound, [Next]_vars PROVE PlansSound'
  OBVIOUS
<1> DEFINE Sound(p, step, wish, listed) ==
             /\ step # "execute" => p = NoPlan
             /\ p.add \cup p.update \subseteq Mapped(wish)
             /\ p.delete \cap Mapped(wish) = {}
             /\ p.add \cap Mapped(listed) = {}
             /\ p.update \cup p.delete \subseteq Mapped(listed)
<1>a. \A j \in Processes : Sound(plan[j], pc[j], desired[j], current[j])
  BY DEF PlansSound
<1>b. SUFFICES \A j \in Processes : Sound(plan'[j], pc'[j], desired'[j], current'[j])
  BY DEF PlansSound
<1>c. ASSUME NEW wish, NEW step, NEW listed PROVE Sound(NoPlan, step, wish, listed)
  BY Emptiness
<1> DEFINE Goal == \A j \in Processes : Sound(plan'[j], pc'[j], desired'[j], current'[j])
<1> HIDE DEF Sound
<1>1. ASSUME NEW i \in Processes, Resolve(i) PROVE Goal
  <2>1. plan[i] = NoPlan
    BY <1>1, <1>a DEF Resolve, Sound
  <2>2. \A j \in Processes \ {i} : pc'[j] = pc[j] /\ desired'[j] = desired[j]
    BY <1>1 DEF Resolve, TypeOK
  <2> QED
    BY <1>1, <1>a, <1>c, <2>1, <2>2 DEF Resolve
<1>2. ASSUME NEW i \in Processes, ListRewrites(i) PROVE Goal
  <2>1. plan[i] = NoPlan
    BY <1>2, <1>a DEF ListRewrites, Sound
  <2>2. \A j \in Processes \ {i} : pc'[j] = pc[j] /\ current'[j] = current[j]
    BY <1>2 DEF ListRewrites, TypeOK
  <2> QED
    BY <1>2, <1>a, <1>c, <2>1, <2>2 DEF ListRewrites
<1>3. ASSUME NEW i \in Processes, LoadAndPlan(i) PROVE Goal
  <2>1. /\ pc'[i] = "execute" /\ plan'[i] = BuildPlan(desired[i], current[i], record)
        /\ \A j \in Processes \ {i} : pc'[j] = pc[j] /\ plan'[j] = plan[j]
        /\ desired' = desired /\ current' = current
    BY <1>3 DEF LoadAndPlan, TypeOK
  <2>2. Sound(BuildPlan(desired[i], current[i], record), "execute", desired[i], current[i])
    BY BuildPlanFacts DEF Sound, TypeOK
  <2> QED
    BY <1>a, <2>1, <2>2
<1>4. ASSUME NEW i \in Processes, NEW r \in Sendable(i), Apply(i, r) PROVE Goal
  <2>1. /\ pc[i] = "execute" /\ plan'[i] = Without(plan[i], r.domain)
        /\ \A j \in Processes \ {i} : plan'[j] = plan[j]
        /\ pc' = pc /\ desired' = desired /\ current' = current
    BY <1>4 DEF Apply, TypeOK
  <2>2. Sound(Without(plan[i], r.domain), "execute", desired[i], current[i])
    BY <1>a, <2>1 DEF Sound, Without
  <2> QED
    BY <1>a, <2>1, <2>2
<1>5. ASSUME NEW i \in Processes, Return(i) PROVE Goal
  <2>1. \A j \in Processes \ {i} : Sound(plan'[j], pc'[j], desired'[j], current'[j])
    BY <1>5, <1>a, AfterReturn
  <2>2. Sound(plan'[i], pc'[i], desired'[i], current'[i])
    BY <1>5, <1>c, AfterReturn
  <2> QED
    BY <2>1, <2>2
<1>6. ASSUME UNCHANGED <<pc, desired, current, plan>> PROVE Goal
  BY <1>6, <1>a
<1> HIDE DEF Goal
<1>7. \A i \in Processes : Save(i) \/ Ends(i) => Goal
  BY <1>5 DEF Save, Ends
<1>8. \A r \in late : Arrive(r) => Goal
  BY <1>6 DEF Arrive
<1>9. \A d \in Domains : UserEdits(d) => Goal
  BY <1>6 DEF UserEdits
<1>10. UNCHANGED <<list, record, late, disturbed, unsaved, pc, locals>> => Goal
  BY <1>6 DEF locals
<1>11. Goal
  BY <1>1, <1>2, <1>3, <1>4, <1>7, <1>8, <1>9, <1>10, StepCases
<1> QED
  BY <1>11 DEF Goal

\* What a request that takes effect leaves alone.
LEMMA AfterChange ==
  ASSUME TypeOK, NEW r \in Request, NEW callers, Changed(r, callers)
  PROVE  /\ r.domain \in Domains
         /\ \E m \in Effect(list[r.domain], r) : list'[r.domain] = m
         /\ \A d \in Domains \ {r.domain} : list'[d] = list[d]
         /\ \A j \in Processes :
               /\ moved[j] \subseteq moved'[j] /\ moved'[j] \subseteq moved[j] \cup {r.domain}
               /\ pc[j] \in {"load", "execute"} /\ j \notin callers => r.domain \in moved'[j]
         /\ unsaved \subseteq unsaved'
         /\ r.kind # "delete" => r.domain \in unsaved'
  BY DEF TypeOK, Changed, Moves, Request

LEMMA PlannedIsExecuting ==
  ASSUME PlansSound, NEW i \in Processes, NEW d \in Planned(plan[i])
  PROVE  pc[i] = "execute"
  BY Emptiness DEF PlansSound

LEMMA ListedAsIsKept ==
  TypeOK /\ PlansSound /\ ListedAsIs /\ [Next]_vars => ListedAsIs'
<1> SUFFICES ASSUME TypeOK, PlansSound, ListedAsIs, [Next]_vars PROVE ListedAsIs'
  OBVIOUS
<1> DEFINE Known(answer, l) == answer = Front(l) /\ ~OddFront(l)
           Goal == \A j \in Processes : \A d \in Domains \ moved'[j] :
                      pc'[j] = "load" \/ d \in Planned(plan'[j]) =>
                          Known(current'[j][d], list'[d])
<1>a. \A j \in Processes : \A d \in Domains \ moved[j] :
         pc[j] = "load" \/ d \in Planned(plan[j]) => Known(current[j][d], list[d])
  BY DEF ListedAsIs
<1>b. SUFFICES Goal
  BY DEF ListedAsIs
<1> HIDE DEF Known
<1>1. ASSUME NEW i \in Processes, Resolve(i) PROVE Goal
  <2>1. /\ pc'[i] = "fetch" /\ \A j \in Processes \ {i} : pc'[j] = pc[j]
        /\ plan' = plan /\ moved' = moved /\ current' = current /\ list' = list
    BY <1>1 DEF Resolve, TypeOK, shared
  <2> QED
    BY <1>a, <2>1
<1>2. ASSUME NEW i \in Processes, ListRewrites(i) PROVE Goal
  <2>1. /\ plan' = plan /\ list' = list
        /\ \A j \in Processes \ {i} :
              pc'[j] = pc[j] /\ current'[j] = current[j] /\ moved'[j] = moved[j]
        /\ current'[i] = indexed(list)
        /\ moved'[i] = {d \in Domains : OddFront(list[d])}
    BY <1>2 DEF ListRewrites, TypeOK, shared
  <2>2. \A d \in Domains \ moved'[i] : Known(current'[i][d], list'[d])
    BY <2>1, IndexedType DEF Known, TypeOK
  <2> QED
    BY <1>a, <2>1, <2>2
<1>3. ASSUME NEW i \in Processes, LoadAndPlan(i) PROVE Goal
  <2>1. /\ pc[i] = "load" /\ pc'[i] = "execute"
        /\ \A j \in Processes \ {i} : pc'[j] = pc[j] /\ plan'[j] = plan[j]
        /\ current' = current /\ moved' = moved /\ list' = list
    BY <1>3 DEF LoadAndPlan, TypeOK, shared
  <2> QED
    BY <1>a, <2>1
<1>4. ASSUME NEW i \in Processes, NEW r \in Sendable(i), Apply(i, r) PROVE Goal
  <2>1. /\ pc' = pc /\ current' = current /\ pc[i] = "execute"
        /\ plan'[i] = Without(plan[i], r.domain)
        /\ \A j \in Processes \ {i} : plan'[j] = plan[j]
        /\ Changed(r, {i})
    BY <1>4 DEF Apply, TypeOK
  <2>2. /\ \A d \in Domains \ {r.domain} : list'[d] = list[d]
        /\ \A j \in Processes : moved[j] \subseteq moved'[j]
        /\ \A j \in Processes \ {i} :
              pc[j] \in {"load", "execute"} => r.domain \in moved'[j]
    BY <2>1, SendableFacts, AfterChange
  <2>3. Planned(plan'[i]) = Planned(plan[i]) \ {r.domain}
    BY <2>1 DEF Planned, Without
  <2>4. ASSUME NEW d \in Domains \ moved'[i], d \in Planned(plan'[i])
        PROVE  Known(current'[i][d], list'[d])
    BY <1>a, <2>1, <2>2, <2>3, <2>4
  <2>5. ASSUME NEW j \in Processes \ {i}, NEW d \in Domains \ moved'[j],
               pc'[j] = "load" \/ d \in Planned(plan'[j])
        PROVE  Known(current'[j][d], list'[d])
    <3>1. pc[j] \in {"load", "execute"}
      BY <2>1, <2>5, PlannedIsExecuting
    <3> QED
      BY <1>a, <2>1, <2>2, <2>5, <3>1
  <2> QED
    BY <2>1, <2>4, <2>5
<1>5. ASSUME NEW i \in Processes, Return(i), list' = list PROVE Goal
  <2>1. Planned(plan'[i]) = {} /\ pc'[i] = "idle"
    BY <1>5, AfterReturn, Emptiness
  <2> QED
    BY <1>5, <1>a, <2>1, AfterReturn
<1>6. ASSUME UNCHANGED <<pc, current, plan>>,
             NEW e \in Domains, \A d \in Domains \ {e} : list'[d] = list[d],
             \A j \in Processes :
                /\ moved[j] \subseteq moved'[j]
                /\ pc[j] \in {"load", "execute"} => e \in moved'[j]
      PROVE  Goal
  <2> SUFFICES ASSUME NEW j \in Processes, NEW d \in Domains \ moved'[j],
                      pc[j] = "load" \/ d \in Planned(plan[j])
               PROVE  Known(current[j][d], list'[d])
    BY <1>6
  <2>1. pc[j] \in {"load", "execute"}
    BY PlannedIsExecuting
  <2> QED
    BY <1>a, <1>6, <2>1
<1> HIDE DEF Goal
<1>7. \A i \in Processes : Save(i) \/ Ends(i) => Goal
  BY <1>5 DEF Save, Ends
<1>8. ASSUME NEW r \in late, Arrive(r) PROVE Goal
  <2>1. r \in Request /\ r.domain \in Domains /\ UNCHANGED <<pc, current, plan>>
    BY <1>8 DEF TypeOK, Request, Arrive
  <2>2. CASE Changed(r, {})
    BY <1>6, <2>1, <2>2, AfterChange
  <2>3. CASE UNCHANGED <<list, moved>>
    BY <1>a, <2>1, <2>3 DEF Goal
  <2> QED
    BY <1>8, <2>2, <2>3 DEF Arrive
<1>9. ASSUME NEW d \in Domains, UserEdits(d) PROVE Goal
  <2>1. /\ UNCHANGED <<pc, current, plan>>
        /\ \A e \in Domains \ {d} : list'[e] = list[e]
        /\ \A j \in Processes :
                /\ moved[j] \subseteq moved'[j]
                /\ pc[j] \in {"load", "execute"} => d \in moved'[j]
    BY <1>9 DEF UserEdits, TypeOK, Moves
  <2> QED
    BY <1>6, <2>1
<1>10. UNCHANGED <<list, record, late, disturbed, unsaved, pc, locals>> => Goal
  BY <1>a DEF locals, Goal
<1> QED
  BY <1>1, <1>2, <1>3, <1>4, <1>7, <1>8, <1>9, <1>10, StepCases DEF Goal

LEMMA DoneIsInPlaceKept ==
  TypeOK /\ PlansSound /\ ListedAsIs /\ DoneIsInPlace /\ [Next]_vars => DoneIsInPlace'
<1> SUFFICES ASSUME TypeOK, PlansSound, ListedAsIs, DoneIsInPlace, [Next]_vars
             PROVE  DoneIsInPlace'
  OBVIOUS
<1> DEFINE Goal == \A j \in Processes : \A d \in Domains \ moved'[j] :
                      /\ pc'[j] = "execute"
                      /\ desired'[j][d] # None
                      /\ d \notin Planned(plan'[j])
                      => Front(list'[d]) = desired'[j][d]
<1>a. \A j \in Processes : \A d \in Domains \ moved[j] :
         pc[j] = "execute" /\ desired[j][d] # None /\ d \notin Planned(plan[j]) =>
             Front(list[d]) = desired[j][d]
  BY DEF DoneIsInPlace, Mapped
<1>b. SUFFICES Goal
  BY DEF DoneIsInPlace, Mapped
<1>1. ASSUME NEW i \in Processes, pc'[i] # "execute", list' = list,
             \A j \in Processes \ {i} :
                /\ pc'[j] = pc[j] /\ moved'[j] = moved[j]
                /\ desired'[j] = desired[j] /\ plan'[j] = plan[j]
      PROVE  Goal
  BY <1>1, <1>a
<1>2. ASSUME UNCHANGED <<pc, desired, plan>>,
             NEW e \in Domains, \A d \in Domains \ {e} : list'[d] = list[d],
             \A j \in Processes :
                /\ moved[j] \subseteq moved'[j]
                /\ pc[j] \in {"load", "execute"} => e \in moved'[j]
      PROVE  Goal
  BY <1>2, <1>a
<1>3. ASSUME NEW i \in Processes, LoadAndPlan(i) PROVE Goal
  <2>1. /\ pc[i] = "load" /\ plan'[i] = BuildPlan(desired[i], current[i], record)
        /\ \A j \in Processes \ {i} : pc'[j] = pc[j] /\ plan'[j] = plan[j]
        /\ desired' = desired /\ moved' = moved /\ list' = list
    BY <1>3 DEF LoadAndPlan, TypeOK, shared
  <2>2. ASSUME NEW d \in Domains \ moved[i], desired[i][d] # None,
               d \notin Planned(plan'[i])
        PROVE  Front(list[d]) = desired[i][d]
    <3>1. current[i][d] = desired[i][d]
      BY <2>1, <2>2 DEF BuildPlan, Planned, Mapped
    <3> QED
      BY <2>1, <2>2, <3>1 DEF ListedAsIs
  <2> QED
    BY <1>a, <2>1, <2>2
<1>4. ASSUME NEW i \in Processes, NEW r \in Sendable(i), Apply(i, r) PROVE Goal
  <2>1. /\ pc' = pc /\ desired' = desired /\ pc[i] = "execute"
        /\ plan'[i] = Without(plan[i], r.domain)
        /\ \A j \in Processes \ {i} : plan'[j] = plan[j]
        /\ Changed(r, {i})
    BY <1>4 DEF Apply, TypeOK
  <2>2. /\ r \in Request /\ r.domain \in Domains /\ r.domain \in Planned(plan[i])
        /\ r.old = current[i][r.domain]
        /\ r.kind = "delete" => r.domain \in plan[i].delete
        /\ r.kind # "delete" => r.new = desired[i][r.domain]
    BY SendableFacts
  <2>3. /\ \A d \in Domains \ {r.domain} : list'[d] = list[d]
        /\ \A j \in Processes : moved[j] \subseteq moved'[j]
        /\ \A j \in Processes \ {i} :
              pc[j] \in {"load", "execute"} => r.domain \in moved'[j]
    BY <2>1, <2>2, AfterChange
  <2>4. Planned(plan'[i]) = Planned(plan[i]) \ {r.domain}
    BY <2>1 DEF Planned, Without
  <2>5. ASSUME r.domain \notin moved'[i], desired[i][r.domain] # None
        PROVE  Front(list'[r.domain]) = desired[i][r.domain]
    <3>1. r.kind # "delete"
      BY <2>2, <2>5 DEF PlansSound, Mapped
    <3>2. r.old = Front(list[r.domain]) /\ ~OddFront(list[r.domain])
      BY <2>2, <2>3, <2>5 DEF ListedAsIs
    <3>3. PICK m \in Effect(list[r.domain], r) : list'[r.domain] = m
      BY <2>1, <2>2, AfterChange
    <3>4. list[r.domain] \in Seq(Rewrite)
      BY <2>2 DEF TypeOK
    <3> QED
      BY <2>2, <3>1, <3>2, <3>3, <3>4, EffectInPlace
  <2>6. ASSUME NEW d \in Domains \ moved'[i], desired[i][d] # None,
               d \notin Planned(plan'[i])
        PROVE  Front(list'[d]) = desired[i][d]
    BY <1>a, <2>1, <2>3, <2>4, <2>5, <2>6
  <2>7. ASSUME NEW j \in Processes \ {i}, NEW d \in Domains \ moved'[j],
               pc[j] = "execute", desired[j][d] # None, d \notin Planned(plan[j])
        PROVE  Front(list'[d]) = desired[j][d]
    BY <1>a, <2>3, <2>7
  <2> QED
    BY <2>1, <2>6, <2>7
<1> HIDE DEF Goal
<1>5. \A i \in Processes : Save(i) \/ Ends(i) => Goal
  BY <1>1, AfterReturn DEF Save, Ends
<1>6. \A i \in Processes : Resolve(i) \/ ListRewrites(i) => Goal
  BY <1>1 DEF Resolve, ListRewrites, TypeOK, shared
<1>7. ASSUME NEW r \in late, Arrive(r) PROVE Goal
  <2>1. r \in Request /\ r.domain \in Domains /\ UNCHANGED <<pc, desired, plan>>
    BY <1>7 DEF TypeOK, Request, Arrive
  <2>2. CASE Changed(r, {})
    BY <1>2, <2>1, <2>2, AfterChange
  <2>3. CASE UNCHANGED <<list, moved>>
    BY <1>a, <2>1, <2>3 DEF Goal
  <2> QED
    BY <1>7, <2>2, <2>3 DEF Arrive
<1>8. ASSUME NEW d \in Domains, UserEdits(d) PROVE Goal
  <2>1. /\ UNCHANGED <<pc, desired, plan>>
        /\ \A e \in Domains \ {d} : list'[e] = list[e]
        /\ \A j \in Processes :
                /\ moved[j] \subseteq moved'[j]
                /\ pc[j] \in {"load", "execute"} => d \in moved'[j]
    BY <1>8 DEF UserEdits, TypeOK, Moves
  <2> QED
    BY <1>2, <2>1
<1>9. UNCHANGED <<list, record, late, disturbed, unsaved, pc, locals>> => Goal
  BY <1>a DEF locals, Goal
<1> QED
  BY <1>3, <1>4, <1>5, <1>6, <1>7, <1>8, <1>9, StepCases DEF Goal

\* A request that overlaps with nothing meets the list as it was read.
LEMMA ApplyInOrder ==
  ASSUME TypeOK, PlansSound, ListedAsIs, Undisturbed,
         NEW i \in Processes, NEW r \in Sendable(i), Apply(i, r),
         r.domain \notin disturbed'
  PROVE  /\ Busy = {i} /\ disturbed' = disturbed
         /\ \A k \in DOMAIN list'[r.domain] : list'[r.domain][k].plain
         /\ AppEntries(list'[r.domain]) \subseteq {1}
         /\ r.kind = "delete" => AppEntries(list'[r.domain]) = {}
<1>1. Busy = {i} /\ disturbed' = disturbed
  BY DEF Apply
<1>2. /\ r \in Request /\ r.domain \in Domains /\ r.domain \in Planned(plan[i])
      /\ r.old = current[i][r.domain]
  BY SendableFacts
<1>3. r.domain \notin disturbed /\ r.domain \notin moved[i]
  BY <1>1 DEF Undisturbed
<1>4. Front(list[r.domain]) = r.old
  BY <1>2, <1>3 DEF ListedAsIs
<1>5. /\ \A k \in DOMAIN list[r.domain] : list[r.domain][k].plain
      /\ AppEntries(list[r.domain]) \subseteq {1}
  BY <1>2, <1>3 DEF Undisturbed
<1>6. PICK m \in Effect(list[r.domain], r) : list'[r.domain] = m
  BY <1>2, AfterChange DEF Apply
<1>7. list[r.domain] \in Seq(Rewrite)
  BY <1>2 DEF TypeOK
<1> QED
  BY <1>1, <1>2, <1>4, <1>5, <1>6, <1>7, EffectInOrder

LEMMA UndisturbedKept ==
  TypeOK /\ PlansSound /\ ListedAsIs /\ Undisturbed /\ [Next]_vars => Undisturbed'
<1> SUFFICES ASSUME TypeOK, PlansSound, ListedAsIs, Undisturbed, [Next]_vars
             PROVE  Undisturbed'
  OBVIOUS
<1> DEFINE InOrder(l) == (\A k \in DOMAIN l : l[k].plain) /\ AppEntries(l) \subseteq {1}
           Goal == /\ \A j \in Processes : moved'[j] \subseteq disturbed'
                   /\ \A d \in Domains \ disturbed' : InOrder(list'[d])
<1>a. /\ \A j \in Processes : moved[j] \subseteq disturbed
      /\ \A d \in Domains \ disturbed : InOrder(list[d])
  BY DEF Undisturbed
<1>b. SUFFICES Goal
  BY DEF Undisturbed
<1>1. ASSUME NEW i \in Processes, Resolve(i) PROVE Goal
  BY <1>1, <1>a DEF Resolve, shared
<1>2. ASSUME NEW i \in Processes, ListRewrites(i) PROVE Goal
  <2>1. \A d \in Domains : OddFront(list[d]) => d \in disturbed
    BY <1>a, FrontType DEF OddFront, TypeOK
  <2> QED
    BY <1>2, <1>a, <2>1 DEF ListRewrites, TypeOK, shared
<1>3. ASSUME NEW i \in Processes, LoadAndPlan(i) PROVE Goal
  BY <1>3, <1>a DEF LoadAndPlan, shared
<1>4. ASSUME NEW i \in Processes, NEW r \in Sendable(i), Apply(i, r) PROVE Goal
  <2>1. r \in Request /\ disturbed \subseteq disturbed' /\ Changed(r, {i})
    BY <1>4, SendableFacts DEF Apply
  <2>2. /\ \A d \in Domains \ {r.domain} : list'[d] = list[d]
        /\ \A j \in Processes : moved'[j] \subseteq moved[j] \cup {r.domain}
    BY <2>1, AfterChange
  <2>3. CASE r.domain \in disturbed'
    BY <1>a, <2>1, <2>2, <2>3
  <2>4. CASE r.domain \notin disturbed'
    <3>1. /\ Busy = {i} /\ InOrder(list'[r.domain])
      BY <1>4, <2>4, ApplyInOrder
    <3>2. \A j \in Processes : pc[j] \in {"load", "execute"} => j = i
      BY <3>1 DEF Busy
    <3>3. \A j \in Processes : moved'[j] = moved[j]
      BY <2>1, <3>2 DEF Changed, Moves, TypeOK
    <3> QED
      BY <1>a, <2>1, <2>2, <3>1, <3>3
  <2> QED
    BY <2>3, <2>4
<1>5. ASSUME NEW i \in Processes, Return(i), list' = list, disturbed \subseteq disturbed'
      PROVE  Goal
  BY <1>5, <1>a, AfterReturn
<1>6. ASSUME NEW e \in Domains, disturbed' = disturbed \cup {e},
             \A d \in Domains \ {e} : list'[d] = list[d],
             \A j \in Processes : moved'[j] \subseteq moved[j] \cup {e}
      PROVE  Goal
  BY <1>6, <1>a
<1>7. \A i \in Processes : Save(i) \/ Ends(i) => Goal
  BY <1>5 DEF Save, Ends
<1>8. ASSUME NEW r \in late, Arrive(r) PROVE Goal
  <2>1. r \in Request /\ r.domain \in Domains /\ disturbed' = disturbed \cup {r.domain}
    BY <1>8 DEF TypeOK, Request, Arrive
  <2>2. CASE Changed(r, {})
    BY <1>6, <2>1, <2>2, AfterChange
  <2>3. CASE UNCHANGED <<list, moved>>
    BY <1>a, <2>1, <2>3
  <2> QED
    BY <1>8, <2>2, <2>3 DEF Arrive
<1>9. ASSUME NEW d \in Domains, UserEdits(d) PROVE Goal
  <2>1. /\ disturbed' = disturbed \cup {d}
        /\ \A e \in Domains \ {d} : list'[e] = list[e]
        /\ \A j \in Processes : moved'[j] \subseteq moved[j] \cup {d}
    BY <1>9 DEF UserEdits, TypeOK, Moves
  <2> QED
    BY <1>6, <2>1
<1>10. UNCHANGED <<list, record, late, disturbed, unsaved, pc, locals>> => Goal
  BY <1>a DEF locals
<1> HIDE DEF Goal
<1> QED
  BY <1>1, <1>2, <1>3, <1>4, <1>7, <1>8, <1>9, <1>10, StepCases

LEMMA DroppedIsDeletedKept ==
  /\ TypeOK /\ PlansSound /\ ListedAsIs /\ Undisturbed /\ DroppedIsDeleted
  /\ [Next]_vars
  => DroppedIsDeleted'
<1> SUFFICES ASSUME TypeOK, PlansSound, ListedAsIs, Undisturbed, DroppedIsDeleted,
                    [Next]_vars
             PROVE  DroppedIsDeleted'
  OBVIOUS
<1> DEFINE Dropped(d, owned, wish) == d \in Mapped(owned) /\ d \notin Mapped(wish)
           Goal == \A j \in Processes : \A d \in Domains \ disturbed' :
                      pc'[j] = "execute" /\ Dropped(d, record', desired'[j])
                      /\ AppEntries(list'[d]) # {} => d \in plan'[j].delete
<1>a. \A j \in Processes : \A d \in Domains \ disturbed :
         pc[j] = "execute" /\ Dropped(d, record, desired[j])
         /\ AppEntries(list[d]) # {} => d \in plan[j].delete
  BY DEF DroppedIsDeleted
<1>b. SUFFICES Goal
  BY DEF DroppedIsDeleted
<1> HIDE DEF Dropped
<1>1. ASSUME NEW i \in Processes, Resolve(i) PROVE Goal
  <2>1. /\ pc'[i] = "fetch" /\ UNCHANGED <<plan, list, record, disturbed>>
        /\ \A j \in Processes \ {i} : pc'[j] = pc[j] /\ desired'[j] = desired[j]
    BY <1>1 DEF Resolve, TypeOK, shared
  <2> QED
    BY <1>a, <2>1
<1>2. ASSUME NEW i \in Processes, ListRewrites(i) PROVE Goal
  <2>1. /\ pc'[i] = "load" /\ UNCHANGED <<plan, list, record, disturbed, desired>>
        /\ \A j \in Processes \ {i} : pc'[j] = pc[j]
    BY <1>2 DEF ListRewrites, TypeOK, shared
  <2> QED
    BY <1>a, <2>1
<1>3. ASSUME NEW i \in Processes, LoadAndPlan(i) PROVE Goal
  <2>1. /\ pc[i] = "load" /\ UNCHANGED <<list, record, disturbed, desired>>
        /\ \A j \in Processes \ {i} : pc'[j] = pc[j] /\ plan'[j] = plan[j]
        /\ plan'[i] = BuildPlan(desired[i], current[i], record)
    BY <1>3 DEF LoadAndPlan, TypeOK, shared
  <2>2. ASSUME NEW d \in Domains \ disturbed, Dropped(d, record, desired[i]),
               AppEntries(list[d]) # {}
        PROVE  d \in plan'[i].delete
    <3>1. d \notin moved[i]
      BY DEF Undisturbed
    <3>2. current[i][d] = Front(list[d])
      BY <2>1, <3>1 DEF ListedAsIs
    <3>3. list[d] # <<>>
      BY <2>2 DEF AppEntries
    <3>4. current[i][d] # None
      BY <3>2, <3>3, FrontType DEF TypeOK
    <3>5. d \in (Mapped(current[i]) \ Mapped(desired[i])) \cap Mapped(record)
      BY <2>2, <3>4 DEF Dropped, Mapped
    <3>6. BuildPlan(desired[i], current[i], record).delete
             = (Mapped(current[i]) \ Mapped(desired[i])) \cap Mapped(record)
      BY BuildPlanFacts DEF TypeOK
    <3> QED
      BY <2>1, <3>5, <3>6
  <2> QED
    BY <1>a, <2>1, <2>2
<1>4. ASSUME NEW i \in Processes, NEW r \in Sendable(i), Apply(i, r) PROVE Goal
  <2>1. /\ r \in Request /\ disturbed \subseteq disturbed' /\ Changed(r, {i})
        /\ UNCHANGED <<pc, record, desired>>
        /\ plan'[i] = Without(plan[i], r.domain)
        /\ \A j \in Processes \ {i} : plan'[j] = plan[j]
        /\ r.kind # "delete" => r.domain \in Mapped(desired[i])
    BY <1>4, SendableFacts DEF Apply, TypeOK
  <2>2. \A d \in Domains \ {r.domain} : list'[d] = list[d]
    BY <2>1, AfterChange
  <2>3. ASSUME NEW d \in Domains \ disturbed', Dropped(d, record, desired[i]),
               pc[i] = "execute", AppEntries(list'[d]) # {}
        PROVE  d \in plan'[i].delete
    <3>1. d # r.domain
      <4>1. CASE r.kind = "delete"
        BY <1>4, <2>3, <4>1, ApplyInOrder
      <4>2. CASE r.kind # "delete"
        BY <2>1, <2>3, <4>2 DEF Dropped
      <4> QED
        BY <4>1, <4>2
    <3>2. d \in plan[i].delete
      BY <1>a, <2>1, <2>2, <2>3, <3>1
    <3> QED
      BY <2>1, <3>1, <3>2 DEF Without
  <2>4. ASSUME NEW j \in Processes \ {i}, NEW d \in Domains \ disturbed',
               Dropped(d, record, desired[j]), pc[j] = "execute", AppEntries(list'[d]) # {}
        PROVE  d \in plan'[j].delete
    <3>1. Busy # {i}
      BY <2>4 DEF Busy
    <3>2. d # r.domain
      BY <1>4, <2>4, <3>1 DEF Apply
    <3> QED
      BY <1>a, <2>1, <2>2, <2>4, <3>2
  <2> QED
    BY <2>1, <2>3, <2>4
<1>5. ASSUME NEW i \in Processes, Ends(i) PROVE Goal
  <2>1. UNCHANGED <<list, record, disturbed>>
    BY <1>5 DEF Ends
  <2> QED
    BY <1>5, <1>a, <2>1, AfterReturn DEF Ends
<1>6. ASSUME NEW i \in Processes, Save(i) PROVE Goal
  <2>1. pc'[i] = "idle" /\ list' = list
        /\ \A j \in Processes \ {i} :
              pc'[j] = pc[j] /\ plan'[j] = plan[j] /\ desired'[j] = desired[j]
    BY <1>6, AfterReturn DEF Save
  <2>2. ASSUME NEW j \in Processes \ {i}, NEW d \in Domains \ disturbed', pc[j] = "execute"
        PROVE  d \notin disturbed /\ record'[d] = record[d]
    <3>1. Busy # {i}
      BY <2>2 DEF Busy
    <3> QED
      BY <1>6, <2>2, <3>1 DEF Save
  <2>3. ASSUME NEW j \in Processes \ {i}, NEW d \in Domains \ disturbed', pc[j] = "execute",
               Dropped(d, record', desired[j])
        PROVE  d \notin disturbed /\ Dropped(d, record, desired[j])
    BY <2>2, <2>3 DEF Dropped, Mapped
  <2> QED
    BY <1>a, <2>1, <2>3
<1>7. ASSUME NEW e \in Domains, disturbed' = disturbed \cup {e},
             UNCHANGED <<pc, plan, record, desired>>,
             \A d \in Domains \ {e} : list'[d] = list[d]
      PROVE  Goal
  BY <1>7, <1>a
<1>8. ASSUME NEW r \in late, Arrive(r) PROVE Goal
  <2>1. /\ r \in Request /\ r.domain \in Domains /\ disturbed' = disturbed \cup {r.domain}
        /\ UNCHANGED <<pc, plan, record, desired>>
    BY <1>8 DEF TypeOK, Request, Arrive
  <2>2. CASE Changed(r, {})
    BY <1>7, <2>1, <2>2, AfterChange
  <2>3. CASE list' = list
    BY <1>7, <2>1, <2>3
  <2> QED
    BY <1>8, <2>2, <2>3 DEF Arrive
<1>9. ASSUME NEW d \in Domains, UserEdits(d) PROVE Goal
  <2>1. /\ disturbed' = disturbed \cup {d} /\ UNCHANGED <<pc, plan, record, desired>>
        /\ \A e \in Domains \ {d} : list'[e] = list[e]
    BY <1>9 DEF UserEdits, TypeOK
  <2> QED
    BY <1>7, <2>1
<1>10. UNCHANGED <<list, record, late, disturbed, unsaved, pc, locals>> => Goal
  BY <1>a DEF locals
<1> HIDE DEF Goal
<1> QED
  BY <1>1, <1>2, <1>3, <1>4, <1>5, <1>6, <1>8, <1>9, <1>10, StepCases

LEMMA OrphansKept ==
  /\ TypeOK /\ PlansSound /\ ListedAsIs /\ Undisturbed /\ DroppedIsDeleted
  /\ OrphansNeedARace /\ [Next]_vars
  => OrphansNeedARace'
<1> SUFFICES ASSUME TypeOK, PlansSound, ListedAsIs, Undisturbed, DroppedIsDeleted,
                    OrphansNeedARace, [Next]_vars
             PROVE  OrphansNeedARace'
  OBVIOUS
<1> DEFINE Excused(d, l, owner, open) == AppEntries(l) # {} => owner # None \/ d \in open
           Goal == \A d \in Domains :
                      Excused(d, list'[d], record'[d], unsaved' \cup disturbed')
<1>a. \A d \in Domains : Excused(d, list[d], record[d], unsaved \cup disturbed)
  BY DEF OrphansNeedARace
<1>b. SUFFICES Goal
  BY DEF OrphansNeedARace
<1>1. UNCHANGED <<list, record, disturbed, unsaved>> => Goal
  BY <1>a
<1>2. ASSUME NEW e \in Domains, record' = record,
             unsaved \subseteq unsaved', disturbed \subseteq disturbed',
             \A d \in Domains \ {e} : list'[d] = list[d],
             Excused(e, list'[e], record'[e], unsaved' \cup disturbed')
      PROVE  Goal
  BY <1>2, <1>a
<1>3. ASSUME NEW i \in Processes, NEW r \in Sendable(i), Apply(i, r) PROVE Goal
  <2>1. /\ r \in Request /\ Changed(r, {i})
        /\ record' = record /\ disturbed \subseteq disturbed'
    BY <1>3, SendableFacts DEF Apply
  <2>2. /\ r.domain \in Domains /\ unsaved \subseteq unsaved'
        /\ \A d \in Domains \ {r.domain} : list'[d] = list[d]
        /\ r.kind # "delete" => r.domain \in unsaved'
    BY <2>1, AfterChange
  <2>3. Excused(r.domain, list'[r.domain], record'[r.domain], unsaved' \cup disturbed')
    BY <1>3, <2>2, ApplyInOrder
  <2> QED
    BY <1>2, <2>1, <2>2, <2>3
<1>4. ASSUME NEW i \in Processes, Save(i) PROVE Goal
  <2>1. /\ pc[i] = "execute" /\ plan[i].delete = {} /\ list' = list
        /\ record' = desired[i] /\ disturbed \subseteq disturbed'
        /\ unsaved' = unsaved \ Mapped(desired[i])
    BY <1>4, Emptiness DEF Save
  <2> SUFFICES ASSUME NEW d \in Domains, AppEntries(list[d]) # {},
                      d \notin disturbed, d \notin Mapped(desired[i])
               PROVE  d \in unsaved
    BY <2>1 DEF Mapped
  <2>2. d \notin Mapped(record)
    BY <2>1 DEF DroppedIsDeleted
  <2> QED
    BY <1>a, <2>2 DEF Mapped
<1>5. ASSUME NEW r \in late, Arrive(r) PROVE Goal
  <2>1. /\ r \in Request /\ r.domain \in Domains /\ record' = record
        /\ disturbed' = disturbed \cup {r.domain}
    BY <1>5 DEF TypeOK, Request, Arrive
  <2>2. CASE Changed(r, {})
    BY <1>2, <2>1, <2>2, AfterChange
  <2>3. CASE UNCHANGED <<list, unsaved>>
    BY <1>2, <2>1, <2>3
  <2> QED
    BY <1>5, <2>2, <2>3 DEF Arrive
<1>6. ASSUME NEW d \in Domains, UserEdits(d) PROVE Goal
  <2>1. /\ record' = record /\ disturbed' = disturbed \cup {d} /\ unsaved' = unsaved
        /\ \A e \in Domains \ {d} : list'[e] = list[e]
    BY <1>6 DEF UserEdits, TypeOK
  <2> QED
    BY <1>2, <2>1
<1> HIDE DEF Goal
<1>7. \A i \in Processes :
         Resolve(i) \/ ListRewrites(i) \/ LoadAndPlan(i) \/ Ends(i) => Goal
  BY <1>1 DEF Resolve, ListRewrites, LoadAndPlan, Ends, shared
<1> QED
  BY <1>1, <1>3, <1>4, <1>5, <1>6, <1>7, StepCases

LEMMA InitInvariant == Init => InstancesInvariant
<1> SUFFICES ASSUME Init PROVE InstancesInvariant
  OBVIOUS
<1>1. TypeOK
  BY InitTypes
<1>2. /\ \A i \in Processes : pc[i] = "idle" /\ plan[i] = NoPlan /\ moved[i] = {}
      /\ \A d \in Domains : list[d] \in UserLists
  BY DEF Init
<1>3. PlansSound
  BY <1>2, Emptiness DEF PlansSound
<1>4. ListedAsIs
  BY <1>2, Emptiness DEF ListedAsIs
<1>5. \A d \in Domains : AppEntries(list[d]) = {}
  BY <1>2, UserListType
<1>6. Undisturbed
  BY <1>2, <1>5 DEF Init, Undisturbed
<1>7. DoneIsInPlace
  BY <1>2 DEF DoneIsInPlace
<1> QED
  BY <1>1, <1>2, <1>3, <1>4, <1>5, <1>6, <1>7
     DEF InstancesInvariant, DroppedIsDeleted, OrphansNeedARace

-----------------------------------------------------------------------------
(* The theorems. *)

\* The inductive invariant: plans hold what BuildPlan puts there, what is still
\* to be changed is as it was listed, undisturbed domains are in order, and
\* rewrites about to leave the record are being deleted (plan.go:72-136,
\* main.go:299-444).
THEOREM InstancesInvariantHolds == Spec => []InstancesInvariant
<1>1. InstancesInvariant /\ [Next]_vars => InstancesInvariant'
  BY TypesKept, PlansSoundKept, ListedAsIsKept, DoneIsInPlaceKept,
     UndisturbedKept, DroppedIsDeletedKept, OrphansKept DEF InstancesInvariant
<1> QED
  BY <1>1, InitInvariant, PTL DEF Spec

\* Every variable keeps its type, however many instances there are.
THEOREM TypesHold == Spec => []TypeOK
<1>1. InstancesInvariant => TypeOK
  BY DEF InstancesInvariant
<1> QED
  BY <1>1, InstancesInvariantHolds, PTL

\* An update or deletion names an entry that is there, unless someone changed
\* its domain since it was listed or its first entry has an odd spelling
\* (plan.go:157-180, executor.go:51-87).
THEOREM RequestsAim == Spec => []AimsAtWhatIsThere
<1>1. InstancesInvariant => AimsAtWhatIsThere
  <2> SUFFICES ASSUME InstancesInvariant, NEW i \in Processes, NEW r \in Sendable(i),
                      r.kind # "add", r.domain \notin moved[i]
               PROVE  Matching(list[r.domain], r.old) # {}
    BY DEF AimsAtWhatIsThere
  <2>1. /\ r \in Request /\ r.domain \in Domains /\ r.domain \in Planned(plan[i])
        /\ r.old = current[i][r.domain]
    BY SendableFacts DEF InstancesInvariant
  <2>2. r.old = Front(list[r.domain]) /\ ~OddFront(list[r.domain])
    BY <2>1 DEF InstancesInvariant, ListedAsIs
  <2>3. r.old \in Answers
    BY <2>1 DEF Request
  <2>4. /\ list[r.domain] # <<>> /\ 1 \in DOMAIN list[r.domain]
        /\ list[r.domain][1].answer = r.old
    BY <2>1, <2>2, <2>3, FrontType, NoneAssumption DEF InstancesInvariant, TypeOK, Front
  <2> QED
    BY <2>2, <2>4 DEF Matching, OddFront
<1> QED
  BY <1>1, InstancesInvariantHolds, PTL

\* A rewrite of the program's that nobody owns was not put on record, or its
\* domain saw an overlap, a late request, an edit or an odd spelling
\* (main.go:299-444).
THEOREM OrphansFromRaces == Spec => []OrphansNeedARace
<1>1. InstancesInvariant => OrphansNeedARace
  BY DEF InstancesInvariant
<1> QED
  BY <1>1, InstancesInvariantHolds, PTL

\* And so did a domain that the program gave two rewrites (plan.go:99-101).
THEOREM DuplicatesFromRaces == Spec => []DuplicatesNeedARace
<1>1. InstancesInvariant => DuplicatesNeedARace
  <2> SUFFICES ASSUME InstancesInvariant, NEW d \in Domains \ disturbed,
                      NEW j \in AppEntries(list[d]), NEW k \in AppEntries(list[d])
               PROVE  j = k
    BY DEF DuplicatesNeedARace
  <2>1. AppEntries(list[d]) \subseteq {1}
    BY DEF InstancesInvariant, Undisturbed
  <2> QED
    BY <2>1
<1> QED
  BY <1>1, InstancesInvariantHolds, PTL

-----------------------------------------------------------------------------
(***************************************************************************)
(* What the last synchronisation leaves, and what keeps it so.             *)
(***************************************************************************)

\* At rest an instance has nothing to send, so it can neither change AdGuard
\* Home nor give up a request that might.
LEMMA RestSendsNothing ==
  ASSUME TypeOK, AtRest, NEW i \in Processes, pc[i] = "execute"
  PROVE  Sendable(i) = {}
<1>1. plan[i] = NoPlan
  BY DEF AtRest, Busy
<1> QED
  BY <1>1 DEF Sendable, NoPlan

LEMMA LastLeavesRest ==
  ASSUME InstancesInvariant, NEW i \in Processes, LastToFinish(i)
  PROVE  AtRest'
<1> USE DEF InstancesInvariant
<1>1. /\ pc[i] = "execute" /\ plan[i] = NoPlan /\ desired[i] = wanted /\ moved[i] = {}
      /\ record' = wanted /\ UNCHANGED <<list, wanted, late>> /\ late = {}
      /\ Busy = {i} /\ Return(i)
  BY DEF LastToFinish, Save
<1>2. \A d \in Mapped(wanted) : Front(list[d]) = wanted[d]
  BY <1>1, Emptiness DEF DoneIsInPlace, Mapped
<1>3. \A j \in Processes : pc'[j] = "idle"
  BY <1>1, AfterReturn DEF Busy
<1> QED
  BY <1>1, <1>2, <1>3 DEF AtRest, InStep, Busy

LEMMA RestStays ==
  ASSUME InstancesInvariant, AtRest, NEW i \in Processes, Step(i)
  PROVE  AtRest'
<1> USE DEF InstancesInvariant
<1>1. CASE Resolve(i)
  <2>1. /\ UNCHANGED <<list, record, wanted, late, plan, current>>
        /\ desired'[i] = wanted /\ pc'[i] = "fetch" /\ plan[i] = NoPlan
        /\ \A j \in Processes \ {i} : pc'[j] = pc[j] /\ desired'[j] = desired[j]
    BY <1>1 DEF Resolve, shared, TypeOK, PlansSound
  <2> QED
    BY <2>1 DEF AtRest, InStep, Busy
<1>2. CASE ListRewrites(i)
  <2>1. /\ UNCHANGED <<list, record, wanted, late, plan, desired>>
        /\ current'[i] = indexed(list) /\ pc[i] = "fetch"
        /\ \A j \in Processes \ {i} : pc'[j] = pc[j] /\ current'[j] = current[j]
    BY <1>2 DEF ListRewrites, shared, TypeOK
  <2>2. \A d \in Mapped(wanted) : current'[i][d] = wanted[d]
    BY <2>1 DEF AtRest, InStep, indexed, Mapped
  <2> QED
    BY <2>1, <2>2 DEF AtRest, InStep, Busy
<1>3. CASE LoadAndPlan(i)
  <2>1. /\ UNCHANGED <<list, record, wanted, late, desired, current>> /\ pc[i] = "load"
        /\ plan'[i] = BuildPlan(desired[i], current[i], record)
        /\ \A j \in Processes \ {i} : pc'[j] = pc[j] /\ plan'[j] = plan[j]
        /\ pc'[i] = "execute"
    BY <1>3 DEF LoadAndPlan, shared, TypeOK
  <2>2. /\ desired[i] = wanted /\ record = wanted
        /\ \A d \in Mapped(wanted) : current[i][d] = wanted[d]
    BY <2>1 DEF AtRest, InStep, Busy
  <2>3. plan'[i] = NoPlan
    BY <2>1, <2>2 DEF BuildPlan, NoPlan, Mapped
  <2> QED
    BY <2>1, <2>2, <2>3 DEF AtRest, InStep, Busy
<1>4. ASSUME Return(i), UNCHANGED <<list, record, wanted, late>> PROVE AtRest'
  BY <1>4, AfterReturn DEF AtRest, InStep, Busy
<1>5. CASE Save(i)
  <2>1. desired[i] = wanted /\ record = wanted
    BY <1>5 DEF Save, AtRest, InStep, Busy
  <2> QED
    BY <1>4, <1>5, <2>1 DEF Save
<1>6. CASE Fails(i)
  BY <1>4, <1>6 DEF Fails, shared
<1>7. \A r \in Sendable(i) : ~Apply(i, r) /\ ~Refused(i, r) /\ ~GiveUp(i, r)
  BY RestSendsNothing DEF Apply, Refused, GiveUp
<1> QED
  BY <1>1, <1>2, <1>3, <1>5, <1>6, <1>7 DEF Step, Answered, Unanswered

\* The last of overlapping synchronisations to finish leaves AdGuard Home, the
\* record and the guests in agreement, if nobody changed a domain after it had
\* listed it; and no step of any instance then undoes that.
THEOREM RestIsKeptAlways == Spec => RestIsKept
<1>1. InstancesInvariant /\ [Next]_vars =>
        [\A i \in Processes : LastToFinish(i) \/ (AtRest /\ Step(i)) => AtRest']_vars
  BY LastLeavesRest, RestStays
<1> QED
  BY <1>1, InstancesInvariantHolds, PTL DEF Spec, RestIsKept

-----------------------------------------------------------------------------
(***************************************************************************)
(* One party at a time: a bound of one leaves no room for a second         *)
(* instance at work nor for a request that outlives its caller.  It is     *)
(* what the lock file that ROADMAP.md:71 asks for would bring, and what a  *)
(* single service has as long as AdGuard Home answers in time.             *)
(***************************************************************************)
OneAtATime ==
    /\ late = {}
    /\ Busy = {} \/ \E i \in Processes : Busy = {i}
    /\ disturbed = {}

LEMMA OneAtATimeInit ==
  ASSUME \A l \in UserLists : \A k \in DOMAIN l : l[k].plain, Init
  PROVE  OneAtATime
<1>1. disturbed = {}
  BY DEF Init
<1> QED
  BY <1>1 DEF Init, OneAtATime, Busy

\* With nobody at work and no request under way there is room for one party,
\* with somebody at work there is none.
LEMMA RoomForOne ==
  ASSUME MaxParties = 1, OneAtATime, NEW i \in Processes
  PROVE  /\ Resolve(i) => Busy = {}
         /\ \A r : ~GiveUp(i, r)
<1>1. Cardinality(late) = 0
  BY FS_EmptySet DEF OneAtATime
<1>2. ASSUME Resolve(i), Busy # {} PROVE FALSE
  <2>1. PICK j \in Processes : Busy = {j}
    BY <1>2 DEF OneAtATime
  <2>2. Cardinality(Busy) = 1
    BY <2>1, FS_Singleton
  <2> QED
    BY <1>1, <1>2, <2>2 DEF Resolve
<1>3. ASSUME NEW r, GiveUp(i, r) PROVE FALSE
  BY <1>1, <1>3 DEF GiveUp
<1> QED
  BY <1>2, <1>3

LEMMA OneAtATimeKept ==
  ASSUME MaxParties = 1, "edit" \notin Events, TypeOK, OneAtATime, [Next]_vars
  PROVE  OneAtATime'
<1>1. ASSUME NEW i \in Processes, Resolve(i) PROVE OneAtATime'
  <2>1. Busy = {}
    BY <1>1, RoomForOne
  <2>2. Busy' = {i}
    BY <1>1, <2>1 DEF Resolve, Busy, TypeOK
  <2> QED
    BY <1>1, <2>2 DEF Resolve, shared, OneAtATime
<1>2. ASSUME NEW i \in Processes, pc[i] # "idle",
             \/ pc' = pc
             \/ pc' = [pc EXCEPT ![i] = "load"]
             \/ pc' = [pc EXCEPT ![i] = "execute"]
             \/ pc' = [pc EXCEPT ![i] = "idle"]
      PROVE  /\ Busy = {i}
             /\ Busy' \subseteq {i}
  <2>1. i \in Busy
    BY <1>2 DEF Busy
  <2>2. Busy = {i}
    BY <2>1 DEF OneAtATime
  <2>3. \A j \in Processes \ {i} : pc[j] = "idle"
    BY <2>2 DEF Busy
  <2>4. \A j \in Processes \ {i} : pc'[j] = "idle"
    BY <1>2, <2>3 DEF TypeOK
  <2> QED
    BY <2>2, <2>4 DEF Busy
<1>3. ASSUME NEW i \in Processes, Busy' \subseteq {i}, late' = {}, disturbed' = {}
      PROVE  OneAtATime'
  BY <1>3 DEF OneAtATime
<1>4. ASSUME NEW i \in Processes,
             \/ ListRewrites(i) \/ LoadAndPlan(i) \/ Fails(i)
             \/ \E r \in Sendable(i) : Refused(i, r)
      PROVE  OneAtATime'
  <2>1. late' = {} /\ disturbed' = {}
    BY <1>4 DEF ListRewrites, LoadAndPlan, Fails, Refused, shared, OneAtATime
  <2>2. /\ pc[i] # "idle"
        /\ \/ pc' = [pc EXCEPT ![i] = "load"]
           \/ pc' = [pc EXCEPT ![i] = "execute"]
           \/ pc' = [pc EXCEPT ![i] = "idle"]
    BY <1>4 DEF ListRewrites, LoadAndPlan, Fails, Refused, Return
  <2> QED
    BY <1>2, <1>3, <2>1, <2>2
<1>5. ASSUME NEW i \in Processes, NEW r \in Sendable(i), Apply(i, r) PROVE OneAtATime'
  BY <1>2, <1>3, <1>5 DEF Apply, OneAtATime
<1>6. ASSUME NEW i \in Processes, Save(i) PROVE OneAtATime'
  BY <1>2, <1>3, <1>6 DEF Save, Return, OneAtATime
<1>7. \A r \in late : ~Arrive(r)
  BY DEF OneAtATime
<1>8. \A d \in Domains : ~UserEdits(d)
  BY DEF UserEdits
<1>9. GuestsChange \/ UNCHANGED vars => OneAtATime'
  BY DEF GuestsChange, vars, shared, OneAtATime, Busy
<1>10. \A i \in Processes : \A r \in Sendable(i) : ~GiveUp(i, r)
  BY RoomForOne
<1> QED
  BY <1>1, <1>4, <1>5, <1>6, <1>7, <1>8, <1>9, <1>10
     DEF Next, Step, Answered, Unanswered

LEMMA NeverTwoAtOnce ==
  ASSUME MaxParties = 1, "edit" \notin Events,
         \A l \in UserLists : \A k \in DOMAIN l : l[k].plain
  PROVE  Spec => []OneAtATime
<1>1. Init => OneAtATime
  BY OneAtATimeInit
<1>2. TypeOK /\ OneAtATime /\ [Next]_vars => OneAtATime'
  BY OneAtATimeKept
<1> QED
  BY <1>1, <1>2, TypesHold, PTL DEF Spec

\* One synchronisation after another, with nobody editing AdGuard Home and no
\* odd spelling in it, nothing is ever disturbed: every rewrite the program
\* left is on record or was written by a synchronisation that did not get to
\* Save, no domain has two of them, and every request names an entry that is
\* there.  The exceptions of the theorems above are races and nothing else.
THEOREM NoRaceNoOrphan ==
  ASSUME MaxParties = 1, "edit" \notin Events,
         \A l \in UserLists : \A k \in DOMAIN l : l[k].plain
  PROVE  Spec => []( \A d \in Domains :
                        /\ AppEntries(list[d]) # {} => record[d] # None \/ d \in unsaved
                        /\ \A j, k \in AppEntries(list[d]) : j = k )
<1>1. Spec => []OneAtATime
  BY NeverTwoAtOnce
<1>2. OneAtATime /\ OrphansNeedARace /\ DuplicatesNeedARace =>
         \A d \in Domains :
            /\ AppEntries(list[d]) # {} => record[d] # None \/ d \in unsaved
            /\ \A j, k \in AppEntries(list[d]) : j = k
  BY DEF OneAtATime, OrphansNeedARace, DuplicatesNeedARace
<1> QED
  BY <1>1, <1>2, OrphansFromRaces, DuplicatesFromRaces, PTL

\* And every update and deletion then names an entry that is there, so that
\* AdGuard Home refuses none of them.
THEOREM NoRaceNoRefusal ==
  ASSUME MaxParties = 1, "edit" \notin Events,
         \A l \in UserLists : \A k \in DOMAIN l : l[k].plain
  PROVE  Spec => [](\A i \in Processes : pc[i] = "execute" =>
                       \A r \in Sendable(i) :
                          r.kind # "add" => Matching(list[r.domain], r.old) # {})
<1>1. Spec => []OneAtATime
  BY NeverTwoAtOnce
<1>2. InstancesInvariant /\ OneAtATime => \A i \in Processes : moved[i] = {}
  BY DEF InstancesInvariant, Undisturbed, OneAtATime
<1>3. (\A i \in Processes : moved[i] = {}) /\ AimsAtWhatIsThere =>
         \A i \in Processes : pc[i] = "execute" =>
            \A r \in Sendable(i) :
               r.kind # "add" => Matching(list[r.domain], r.old) # {}
  BY DEF AimsAtWhatIsThere
<1> QED
  BY <1>1, <1>2, <1>3, InstancesInvariantHolds, RequestsAim, PTL
=============================================================================
