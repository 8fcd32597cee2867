------------------------------ MODULE Reconcile ------------------------------
(***************************************************************************)
(* The pure part of a synchronisation: internal/reconcile/plan.go and the  *)
(* ownership records of internal/state/store.go, over normalised names.    *)
(*                                                                         *)
(* A set of rewrites with one answer per domain (the desired rewrites, the *)
(* indexed current ones, the ownership records) is an answer map: a        *)
(* function that gives a domain its answer, or None when it is absent.     *)
(***************************************************************************)
EXTENDS AdGuard

CONSTANT Guests       \* virtual machines and containers, by VMID

AnswerMap == [Domains -> Answers \cup {None}]

NoAnswers == [d \in Domains |-> None]

Mapped(map) == {d \in Domains : map[d] # None}

\* What discovery makes of a guest: its name under the DNS suffix and its
\* address; None when the guest is not selected or has no address.
Target == [domain : Domains, answer : Answers]

ASSUME NoTargetAssumption == None \notin Target

Targets == [Guests -> Target \cup {None}]

NoTargets == [g \in Guests |-> None]

\* Two resolved guests claim one domain: BuildDesiredRewrites fails.
DuplicateDomain(targets) ==
    \E g, h \in Guests :
        /\ g # h
        /\ targets[g] # None
        /\ targets[h] # None
        /\ targets[g].domain = targets[h].domain

ClaimedBy(targets, d) ==
    {g \in Guests : targets[g] # None /\ targets[g].domain = d}

BuildDesiredRewrites(targets) ==
    [d \in Domains |->
        IF ClaimedBy(targets, d) = {}
          THEN None
          ELSE targets[CHOOSE g \in ClaimedBy(targets, d) : TRUE].answer]

indexRewrites(rewrites) == [d \in Domains |-> FrontAnswer(rewrites[d])]

\* The domains to add, update and delete; the rewrites themselves are read
\* off the desired and the indexed current answer maps.
Plan == [add : SUBSET Domains, update : SUBSET Domains, delete : SUBSET Domains]

NoPlan == [add |-> {}, update |-> {}, delete |-> {}]

(***************************************************************************)
(* Wrong plans, each one slip away from BuildPlan: they show which of the  *)
(* properties depends on which part of it.                                 *)
(***************************************************************************)
\* Every undesired rewrite is deleted, owned or not.
PlanIgnoringOwnership(desired, current, managed) ==
    [add    |-> Mapped(desired) \ Mapped(current),
     update |-> {d \in Mapped(desired) \cap Mapped(current) :
                    desired[d] # current[d]},
     delete |-> Mapped(current) \ Mapped(desired)]

\* The test for ownership is the wrong way round.
PlanDeletingUnowned(desired, current, managed) ==
    [add    |-> Mapped(desired) \ Mapped(current),
     update |-> {d \in Mapped(desired) \cap Mapped(current) :
                    desired[d] # current[d]},
     delete |-> (Mapped(current) \ Mapped(desired)) \ Mapped(managed)]

\* Owned rewrites are deleted without asking whether they are desired.
PlanDeletingDesired(desired, current, managed) ==
    [add    |-> Mapped(desired) \ Mapped(current),
     update |-> {d \in Mapped(desired) \cap Mapped(current) :
                    desired[d] # current[d]},
     delete |-> Mapped(current) \cap Mapped(managed)]

\* A rewrite of the domain counts as unchanged whatever its answer.
PlanWithoutUpdates(desired, current, managed) ==
    [add    |-> Mapped(desired) \ Mapped(current),
     update |-> {},
     delete |-> (Mapped(current) \ Mapped(desired)) \cap Mapped(managed)]

\* plan.go: BuildPlan
BuildPlan(desired, current, managed) ==
    [add    |-> Mapped(desired) \ Mapped(current),
     update |-> {d \in Mapped(desired) \cap Mapped(current) :
                    desired[d] # current[d]},
     delete |-> (Mapped(current) \ Mapped(desired)) \cap Mapped(managed)]
=============================================================================
