------------------------------ MODULE Instances ------------------------------
(***************************************************************************)
(* Several instances of the program on one AdGuard Home and one state file *)
(* (nothing keeps them apart: ROADMAP.md:71), and requests that AdGuard    *)
(* Home carries out after their caller gave up on them.                    *)
(*                                                                         *)
(* AdGuard's list is here the sequence of the entries of each domain, in   *)
(* the spelling they were written in.  The program compares normalised     *)
(* domains, and names the normalised domain in its requests: a plain entry *)
(* is one whose spelling is the normalised domain, and AdGuard finds no    *)
(* other by that name.  What a synchronisation does in itself is module    *)
(* Sync; its steps are taken together here as far as no other instance can *)
(* tell.                                                                   *)
(***************************************************************************)
EXTENDS Reconcile, Naturals, Sequences, FiniteSets

CONSTANTS
    Processes,   \* the instances
    Wishes,      \* what BuildDesiredRewrites may make of the guests
    UserLists,   \* what users may leave as the entries of a domain
    MaxParties,  \* bound: instances at work and requests given up, together
    Events       \* "guests", "fault", "edit"

\* adguard.Rewrite, without its domain.  "by" is a history component.
Rewrite == [answer : Answers, plain : BOOLEAN, by : Authors]

ASSUME InstancesAssumption ==
    /\ Wishes \subseteq AnswerMap
    /\ UserLists \subseteq Seq({e \in Rewrite : e.by = "user"})
    /\ MaxParties \in Nat

VARIABLES
    list,      \* AdGuard Home: the entries of each domain, in their order
    record,    \* the state file: who is owned, with which answer
    wanted,    \* Proxmox VE: what the guests would make of the rewrites now
    late,      \* requests given up by their caller, and still to be applied
    pc,        \* where each instance is: "idle", "fetch", "load", "execute"
    desired, current, plan,   \* the locals of each instance's synchronize
    moved,     \* history: domains that others changed since the instance
               \* listed them, or that had an odd first entry then
    disturbed, \* history: domains edited, odd, late, or changed in an overlap
    unsaved    \* history: domains written without being put on record yet

shared  == <<list, record, wanted, late, disturbed, unsaved>>
locals  == <<desired, current, plan, moved>>
vars    == <<shared, pc, locals>>

-----------------------------------------------------------------------------
(* AdGuard Home's side of a request. *)

Front(l) == IF l = <<>> THEN None ELSE l[1].answer

OddFront(l) == l # <<>> /\ ~l[1].plain

\* Slip: the index holds the entries and not their answers.
indexedEntries(l) == [d \in Domains |-> IF l[d] = <<>> THEN None ELSE l[d][1]]

\* indexRewrites: the answer of the first entry, whatever its spelling.
indexed(l) == [d \in Domains |-> Front(l[d])]

Request ==
         [kind : {"add"}, domain : Domains, old : {None}, new : Answers]
    \cup [kind : {"update"}, domain : Domains, old : Answers, new : Answers]
    \cup [kind : {"delete"}, domain : Domains, old : Answers, new : {None}]

Matching(l, answer) == {k \in DOMAIN l : l[k].plain /\ l[k].answer = answer}

Written(answer) == [answer |-> answer, plain |-> TRUE, by |-> "app"]

\* The entries of l at the positions in K, in their order.
Selected(l, K) ==
    LET Orders == {f \in [1 .. Cardinality(K) -> K] :
                      \A j, k \in DOMAIN f : j < k => f[j] < f[k]}
    IN  {[k \in 1 .. Cardinality(K) |-> l[f[k]]] : f \in Orders}

\* The lists a request may leave: none when AdGuard refuses it.  An update
\* changes the first entry it names, a deletion removes all of them.
Effect(l, request) ==
    LET named == Matching(l, request.old)
    IN  CASE request.kind = "add"    -> {Append(l, Written(request.new))}
          [] request.kind = "update" ->
                {[l EXCEPT ![k] = Written(request.new)] :
                    k \in {first \in named : \A j \in named : first <= j}}
          [] request.kind = "delete" -> Selected(l, DOMAIN l \ named)

-----------------------------------------------------------------------------
Init ==
    /\ list \in [Domains -> UserLists]
    /\ record = NoAnswers
    /\ wanted \in Wishes
    /\ late = {}
    /\ pc = [i \in Processes |-> "idle"]
    /\ desired = [i \in Processes |-> NoAnswers]
    /\ current = [i \in Processes |-> NoAnswers]
    /\ plan = [i \in Processes |-> NoPlan]
    /\ moved = [i \in Processes |-> {}]
    /\ disturbed = {d \in Domains : \E k \in DOMAIN list[d] : ~list[d][k].plain}
    /\ unsaved = {}

\* synchronize returns, with an error or without.
Return(i) ==
    /\ pc' = [pc EXCEPT ![i] = "idle"]
    /\ desired' = [desired EXCEPT ![i] = NoAnswers]
    /\ current' = [current EXCEPT ![i] = NoAnswers]
    /\ plan' = [plan EXCEPT ![i] = NoPlan]
    /\ moved' = [moved EXCEPT ![i] = {}]

Busy == {i \in Processes : pc[i] # "idle"}

\* The guests are listed and resolved, and BuildDesiredRewrites has them.
Resolve(i) ==
    /\ pc[i] = "idle"
    /\ Cardinality(Busy) + Cardinality(late) < MaxParties
    /\ pc' = [pc EXCEPT ![i] = "fetch"]
    /\ desired' = [desired EXCEPT ![i] = wanted]
    /\ UNCHANGED <<shared, current, plan, moved>>

ListRewrites(i) ==
    /\ pc[i] = "fetch"
    /\ pc' = [pc EXCEPT ![i] = "load"]
    /\ current' = [current EXCEPT ![i] = indexed(list)]
    /\ moved' = [moved EXCEPT ![i] = {d \in Domains : OddFront(list[d])}]
    /\ UNCHANGED <<shared, desired, plan>>

LoadAndPlan(i) ==
    /\ pc[i] = "load"
    /\ pc' = [pc EXCEPT ![i] = "execute"]
    /\ plan' = [plan EXCEPT ![i] = BuildPlan(desired[i], current[i], record)]
    /\ UNCHANGED <<shared, desired, current, moved>>

-----------------------------------------------------------------------------
(* Applying a plan: additions first, deletions last. *)

Asks(kind, d, old, new) == [kind |-> kind, domain |-> d, old |-> old, new |-> new]

\* Slip: what the record says is deleted, and not what was listed.
SendableByRecord(i) ==
    CASE plan[i].add # {} ->
            {Asks("add", d, None, desired[i][d]) : d \in plan[i].add}
      [] plan[i].add = {} /\ plan[i].update # {} ->
            {Asks("update", d, current[i][d], desired[i][d]) : d \in plan[i].update}
      [] OTHER ->
            {Asks("delete", d, record[d], None) : d \in plan[i].delete}

\* Slip: a changed answer is added beside the old one.
SendableBeside(i) ==
    CASE plan[i].add # {} ->
            {Asks("add", d, None, desired[i][d]) : d \in plan[i].add}
      [] plan[i].add = {} /\ plan[i].update # {} ->
            {Asks("add", d, None, desired[i][d]) : d \in plan[i].update}
      [] OTHER ->
            {Asks("delete", d, current[i][d], None) : d \in plan[i].delete}

\* The requests that Execute may send next.
Sendable(i) ==
    CASE plan[i].add # {} ->
            {Asks("add", d, None, desired[i][d]) : d \in plan[i].add}
      [] plan[i].add = {} /\ plan[i].update # {} ->
            {Asks("update", d, current[i][d], desired[i][d]) : d \in plan[i].update}
      [] OTHER ->
            {Asks("delete", d, current[i][d], None) : d \in plan[i].delete}

Without(p, d) ==
    [add |-> p.add \ {d}, update |-> p.update \ {d}, delete |-> p.delete \ {d}]

\* Whoever has listed the rewrites, save the callers, sees that a domain moved.
Moves(d, callers) ==
    moved' = [j \in Processes |->
                 IF pc[j] \in {"load", "execute"} /\ j \notin callers
                   THEN moved[j] \cup {d} ELSE moved[j]]

Changed(request, callers) ==
    /\ \E l \in Effect(list[request.domain], request) :
          list' = [list EXCEPT ![request.domain] = l]
    /\ unsaved' = IF request.kind = "delete" THEN unsaved
                  ELSE unsaved \cup {request.domain}
    /\ Moves(request.domain, callers)

Apply(i, request) ==
    /\ pc[i] = "execute"
    /\ request \in Sendable(i)
    /\ Changed(request, {i})
    /\ plan' = [plan EXCEPT ![i] = Without(@, request.domain)]
    /\ disturbed' = IF Busy # {i} THEN disturbed \cup {request.domain}
                    ELSE disturbed
    /\ UNCHANGED <<record, wanted, late, pc, desired, current>>

\* AdGuard Home has no entry of that name.
Refused(i, request) ==
    /\ pc[i] = "execute"
    /\ request \in Sendable(i)
    /\ Effect(list[request.domain], request) = {}
    /\ Return(i)
    /\ UNCHANGED shared

\* The client's 15 seconds are over, or the response is lost; the request is
\* still on its way.
GiveUp(i, request) ==
    /\ pc[i] = "execute"
    /\ request \in Sendable(i)
    /\ Cardinality(late) + 1 < MaxParties
    /\ late' = late \cup {request}
    /\ Return(i)
    /\ UNCHANGED <<list, record, wanted, disturbed, unsaved>>

\* Slip: what was on record before stays on it.
SaveBeside(i) ==
    /\ pc[i] = "execute"
    /\ plan[i] = NoPlan
    /\ record' = [d \in Domains |->
                     IF desired[i][d] = None THEN record[d] ELSE desired[i][d]]
    /\ unsaved' = unsaved \ Mapped(desired[i])
    /\ UNCHANGED <<list, wanted, late, disturbed>>
    /\ Return(i)

Save(i) ==
    /\ pc[i] = "execute"
    /\ plan[i] = NoPlan
    /\ record' = desired[i]
    /\ unsaved' = unsaved \ Mapped(desired[i])
    /\ disturbed' = IF Busy # {i}
                      THEN disturbed \cup {d \in Domains : record[d] # desired[i][d]}
                      ELSE disturbed
    /\ Return(i)
    /\ UNCHANGED <<list, wanted, late>>

\* A call without an effect fails, or the process is killed and started again.
Fails(i) ==
    /\ "fault" \in Events
    /\ pc[i] # "idle"
    /\ Return(i)
    /\ UNCHANGED shared

-----------------------------------------------------------------------------
(* What happens around the instances. *)

\* A request that was given up is carried out, or refused, after all.
Arrive(request) ==
    /\ request \in late
    /\ late' = late \ {request}
    /\ \/ Changed(request, {})
       \/ /\ Effect(list[request.domain], request) = {}
          /\ UNCHANGED <<list, unsaved, moved>>
    /\ disturbed' = disturbed \cup {request.domain}
    /\ UNCHANGED <<record, wanted, pc, desired, current, plan>>

GuestsChange ==
    /\ "guests" \in Events
    /\ wanted' \in Wishes \ {wanted}
    /\ UNCHANGED <<list, record, late, disturbed, unsaved, pc, locals>>

UserEdits(d) ==
    /\ "edit" \in Events
    /\ \E l \in UserLists \ {list[d]} : list' = [list EXCEPT ![d] = l]
    /\ Moves(d, {})
    /\ disturbed' = disturbed \cup {d}
    /\ UNCHANGED <<record, wanted, late, unsaved, pc, desired, current, plan>>

-----------------------------------------------------------------------------
Answered(i) ==
    \/ Resolve(i) \/ ListRewrites(i) \/ LoadAndPlan(i) \/ Save(i)
    \/ \E request \in Sendable(i) : Apply(i, request) \/ Refused(i, request)

Unanswered(i) == Fails(i) \/ \E request \in Sendable(i) : GiveUp(i, request)

Step(i) == Answered(i) \/ Unanswered(i)

Next ==
    \/ \E i \in Processes : Step(i)
    \/ \E request \in late : Arrive(request)
    \/ GuestsChange
    \/ \E d \in Domains : UserEdits(d)

Spec == Init /\ [][Next]_vars

\* Each instance keeps taking steps, as in Sync: its calls end by the client's
\* timeout.  A request that is under way may never arrive.
FairSpec == Spec /\ \A i \in Processes : WF_vars(Step(i))

-----------------------------------------------------------------------------
TypeOK ==
    /\ list \in [Domains -> Seq(Rewrite)]
    /\ record \in AnswerMap
    /\ wanted \in Wishes
    /\ late \subseteq Request
    /\ pc \in [Processes -> {"idle", "fetch", "load", "execute"}]
    /\ desired \in [Processes -> AnswerMap]
    /\ current \in [Processes -> AnswerMap]
    /\ plan \in [Processes -> Plan]
    /\ moved \in [Processes -> SUBSET Domains]
    /\ disturbed \subseteq Domains
    /\ unsaved \subseteq Domains

\* An update or a deletion that is about to be sent names an entry AdGuard
\* Home has, unless someone changed the domain since it was listed, or its
\* first entry was in another spelling (plan.go:157-180, executor.go:51-87).
AimsAtWhatIsThere ==
    \A i \in Processes :
        pc[i] = "execute" =>
            \A request \in {r \in Sendable(i) : r.kind # "add"} :
                \/ request.domain \in moved[i]
                \/ Matching(list[request.domain], request.old) # {}

AppEntries(l) == {k \in DOMAIN l : l[k].by = "app"}

\* A rewrite that the program wrote and nobody owns comes of a write that was
\* not put on record, or of a domain that saw overlapping synchronisations, a
\* request that came late, an edit, or an odd spelling (main.go:299-444).
OrphansNeedARace ==
    \A d \in Domains :
        AppEntries(list[d]) # {} => record[d] # None \/ d \in unsaved \cup disturbed

\* And so does a domain that the program gave two rewrites (plan.go:99-101).
DuplicatesNeedARace ==
    \A d \in Domains \ disturbed : \A j, k \in AppEntries(list[d]) : j = k

-----------------------------------------------------------------------------
(* The inductive invariant behind these, in named parts. *)

Planned(p) == p.add \cup p.update \cup p.delete

\* What a plan holds is what BuildPlan puts there.
PlansSound ==
    \A i \in Processes :
        /\ pc[i] # "execute" => plan[i] = NoPlan
        /\ plan[i].add \cup plan[i].update \subseteq Mapped(desired[i])
        /\ plan[i].delete \cap Mapped(desired[i]) = {}
        /\ plan[i].add \cap Mapped(current[i]) = {}
        /\ plan[i].update \cup plan[i].delete \subseteq Mapped(current[i])

\* What is still to be changed is as it was listed, where nobody else moved it.
ListedAsIs ==
    \A i \in Processes : \A d \in Domains \ moved[i] :
        pc[i] = "load" \/ d \in Planned(plan[i]) =>
            current[i][d] = Front(list[d]) /\ ~OddFront(list[d])

\* What was done, or needs not be done, is in place, where nobody else moved it.
DoneIsInPlace ==
    \A i \in Processes : \A d \in Mapped(desired[i]) \ moved[i] :
        pc[i] = "execute" /\ d \notin Planned(plan[i]) =>
            Front(list[d]) = desired[i][d]

\* Domains that are not disturbed are in order, and no instance doubts them.
Undisturbed ==
    /\ \A i \in Processes : moved[i] \subseteq disturbed
    /\ \A d \in Domains \ disturbed :
          /\ \A k \in DOMAIN list[d] : list[d][k].plain
          /\ AppEntries(list[d]) \subseteq {1}

\* Every rewrite that is about to leave the record is in the plan's deletions.
DroppedIsDeleted ==
    \A i \in Processes : \A d \in Domains \ disturbed :
        /\ pc[i] = "execute"
        /\ d \in Mapped(record) \ Mapped(desired[i])
        /\ AppEntries(list[d]) # {}
        => d \in plan[i].delete

InstancesInvariant ==
    /\ TypeOK
    /\ PlansSound
    /\ ListedAsIs
    /\ DoneIsInPlace
    /\ Undisturbed
    /\ DroppedIsDeleted
    /\ OrphansNeedARace

-----------------------------------------------------------------------------
InStep ==
    /\ record = wanted
    /\ \A d \in Mapped(wanted) : Front(list[d]) = wanted[d]

\* All agree, and the instances at work are about to find that.
AtRest ==
    /\ InStep
    /\ late = {}
    /\ \A i \in Busy :
          /\ desired[i] = wanted
          /\ plan[i] = NoPlan
          /\ pc[i] = "load" => \A d \in Mapped(wanted) : current[i][d] = wanted[d]

LastToFinish(i) ==
    /\ Save(i)
    /\ Busy = {i}
    /\ late = {}
    /\ desired[i] = wanted
    /\ moved[i] = {}

\* The last of overlapping synchronisations to finish leaves all at rest, if it
\* knew the guests as they are and nobody changed a domain after it listed it;
\* and then no number of instances, failing, killed or giving up at any point,
\* disturbs the rest of the others (main.go:299-444).
RestIsKept ==
    [][\A i \in Processes : LastToFinish(i) \/ (AtRest /\ Step(i)) => AtRest']_vars

\* An entry that no update can name stands in front of a wanted rewrite.
Stuck == \E d \in Mapped(wanted) : OddFront(list[d]) /\ Front(list[d]) # wanted[d]

Calm == (\E i \in Processes : Answered(i)) \/ (\E request \in late : Arrive(request))

\* Whatever overlapping synchronisations, late requests and edits did, once
\* guests and users rest and calls are answered the instances bring AdGuard
\* Home and the record into agreement with the guests for ever, unless an odd
\* spelling blocks them.
OverlapsHeal == <>[][Calm]_vars => <>[](InStep \/ Stuck)
=============================================================================
