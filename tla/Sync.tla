-------------------------------- MODULE Sync --------------------------------
(***************************************************************************)
(* The synchroniser: one process that periodically makes the DNS rewrites  *)
(* of AdGuard Home follow the guests of Proxmox VE, and keeps in a local   *)
(* state file which rewrites it owns (cmd/proxmox-adguard-sync/main.go).   *)
(*                                                                         *)
(* One step is one remote call, one access to the state file, or one event *)
(* of the world around the process.  Env names the events a configuration  *)
(* allows; an event that is not in Env never happens.                      *)
(***************************************************************************)
EXTENDS Reconcile, FiniteSets, Naturals

CONSTANTS GuestDomains,   \* the names guests can take under the DNS suffix
          UserDomains,    \* the domains users edit by hand in AdGuard Home
          DryRunModes,    \* the values of DRY_RUN a start may use
          MaxOthers,      \* bound: entries of a domain beyond the first
          Env             \* the kinds of events that may happen

EventKinds ==
    {"guests",    \* guests are created, changed and removed
     "edit",      \* users edit the rewrite list
     "fault",     \* calls and file accesses fail
     "agent",     \* a QEMU agent does not answer
     "lost",      \* a mutation is applied but its response is lost
     "crash",     \* the process dies
     "signal",    \* SIGINT or SIGTERM
     "lose",      \* the state file is removed
     "corrupt"}   \* the state file becomes unreadable as a state file

ASSUME DomainsAssumption ==
    GuestDomains \subseteq Domains /\ UserDomains \subseteq Domains
ASSUME BoundAssumption == MaxOthers \in Nat
ASSUME ModesAssumption == DryRunModes \subseteq BOOLEAN
ASSUME EnvAssumption == Env \subseteq EventKinds

VARIABLES
    \* The world
    guests,      \* Proxmox: what each guest would resolve to now
    adguard,     \* AdGuard Home: the rewrite list of each domain
    stateFile,   \* the state file: "missing", "ok" or "corrupt"
    records,     \* the ownership records in an "ok" state file
    \* The process
    pc,          \* where the process is in its loop
    dryRun,      \* config.Runtime.DryRun
    cancelled,   \* the signal context is cancelled
    \* The locals of synchronize
    pending,     \* guests listed and not yet resolved, by listed name
    resolved,    \* resolvedGuests
    desired,     \* desiredRewrites
    current,     \* indexed currentRewrites
    plan,        \* what is left of the plan
    \* History, read by no action
    touched,     \* domains edited by users since this cycle listed them
    excused,     \* guests this cycle skipped, degraded or saw change
    unsaved,     \* domains written without their ownership being on record
    lost         \* domains whose record was lost while this plan is applied

world   == <<guests, adguard, stateFile, records>>
process == <<dryRun, cancelled>>
locals  == <<pending, resolved, desired, current, plan>>
history == <<touched, excused, unsaved, lost>>
vars    == <<world, pc, process, locals, history>>

\* "execute" ends with Save reading the state file it is about to replace, and
\* "replace" is what it does then.
Steps == {"down", "verify", "list", "resolve", "fetch", "load", "execute",
          "replace", "idle"}

GuestTarget == [domain : GuestDomains, answer : Answers]

TypeOK ==
    /\ guests \in [Guests -> GuestTarget \cup {None}]
    /\ adguard \in [Domains -> RewriteList]
    /\ stateFile \in {"missing", "ok", "corrupt"}
    /\ records \in AnswerMap
    /\ pc \in Steps
    /\ dryRun \in BOOLEAN
    /\ cancelled \in BOOLEAN
    /\ pending \in [Guests -> GuestDomains \cup {None}]
    /\ resolved \in [Guests -> GuestTarget \cup {None}]
    /\ desired \in AnswerMap
    /\ current \in AnswerMap
    /\ plan \in Plan
    /\ touched \subseteq Domains
    /\ excused \subseteq Guests
    /\ unsaved \subseteq Domains
    /\ lost \subseteq Domains

NothingPending == [g \in Guests |-> None]

Pending(g) == pending[g] # None

Init ==
    /\ guests \in [Guests -> GuestTarget \cup {None}]
    /\ adguard = [d \in Domains |-> NoRewrites]
    /\ stateFile = "missing"
    /\ records = NoAnswers
    /\ pc = "down"
    /\ dryRun = FALSE
    /\ cancelled = FALSE
    /\ pending = NothingPending
    /\ resolved = NoTargets
    /\ desired = NoAnswers
    /\ current = NoAnswers
    /\ plan = NoPlan
    /\ touched = {}
    /\ excused = {}
    /\ unsaved = {}
    /\ lost = {}

-----------------------------------------------------------------------------
(***************************************************************************)
(* Leaving a synchronisation.  synchronize returns, with or without an     *)
(* error, and runLoop waits for the next tick; or the process is gone.     *)
(***************************************************************************)
ForgetLocals ==
    /\ pending' = NothingPending
    /\ resolved' = NoTargets
    /\ desired' = NoAnswers
    /\ current' = NoAnswers
    /\ plan' = NoPlan
    /\ touched' = {}
    /\ excused' = {}
    /\ lost' = {}

ReturnToLoop ==
    /\ pc' = "idle"
    /\ ForgetLocals
    /\ UNCHANGED process

GoDown ==
    /\ pc' = "down"
    /\ dryRun' = FALSE
    /\ cancelled' = FALSE
    /\ ForgetLocals

(***************************************************************************)
(* A call made with a cancelled context fails.  runLoop returns when it    *)
(* recognises context.Canceled in the error; an error it does not          *)
(* recognise (the context's cause, or the failure of the service that      *)
(* happened at the same time) is logged, and the loop goes on.             *)
(***************************************************************************)
ReturnError == ReturnToLoop \/ (cancelled /\ GoDown)

-----------------------------------------------------------------------------
(* The life of the process: run, verifyConnections, runLoop. *)

Start(mode) ==
    /\ pc = "down"
    /\ pc' = "verify"
    /\ dryRun' = mode
    /\ UNCHANGED <<world, cancelled, locals, history>>

Verify ==
    /\ pc = "verify"
    /\ ~cancelled
    /\ pc' = "list"
    /\ UNCHANGED <<world, process, locals, history>>

VerifyFails ==
    /\ pc = "verify"
    /\ cancelled \/ "fault" \in Env
    /\ GoDown
    /\ UNCHANGED <<world, unsaved>>

Tick ==
    /\ pc = "idle"
    /\ pc' = "list"
    /\ UNCHANGED <<world, process, locals, history>>

\* Slip: the select waits for the ticker alone.
ShutdownNotAwaited ==
    /\ pc = "idle"
    /\ FALSE
    /\ GoDown
    /\ UNCHANGED <<world, unsaved>>

Shutdown ==
    /\ pc = "idle"
    /\ cancelled
    /\ GoDown
    /\ UNCHANGED <<world, unsaved>>

-----------------------------------------------------------------------------
(* Reading the guests: ListGuests, Filter, resolveGuests. *)

\* Slip: the guest is kept where its name belongs.
ListGuestsWhole ==
    /\ pc = "list"
    /\ ~cancelled
    /\ pc' = "resolve"
    /\ pending' = guests
    /\ excused' = {}
    /\ UNCHANGED <<world, process, resolved, desired, current, plan, touched, unsaved, lost>>

ListGuests ==
    /\ pc = "list"
    /\ ~cancelled
    /\ pc' = "resolve"
    /\ pending' = [g \in Guests |->
                      IF guests[g] = None THEN None ELSE guests[g].domain]
    /\ excused' = {}
    /\ UNCHANGED <<world, process, resolved, desired, current, plan, touched, unsaved, lost>>

\* The address comes from the configuration fetched now; the name from the
\* configuration or from the list fetched earlier.
ResolveGuest(g) ==
    /\ pc = "resolve"
    /\ Pending(g)
    /\ guests[g] # None
    /\ ~cancelled
    /\ \E name \in {pending[g], guests[g].domain} :
          resolved' = [resolved EXCEPT ![g] =
                          [domain |-> name, answer |-> guests[g].answer]]
    /\ pending' = [pending EXCEPT ![g] = None]
    /\ UNCHANGED <<world, pc, process, desired, current, plan, history>>

\* The guest agent does not answer, and a source further down the order
\* gives the address.
ResolveFromFallback(g) ==
    /\ pc = "resolve"
    /\ Pending(g)
    /\ guests[g] # None
    /\ cancelled \/ "agent" \in Env
    /\ \E answer \in Answers \ {guests[g].answer} :
          resolved' = [resolved EXCEPT ![g] =
                          [domain |-> pending[g], answer |-> answer]]
    /\ pending' = [pending EXCEPT ![g] = None]
    /\ excused' = excused \cup {g}
    /\ UNCHANGED <<world, pc, process, desired, current, plan, touched, unsaved, lost>>

\* The configuration cannot be fetched, or gives no name or no address:
\* the guest is left out of this synchronisation.
SkipGuest(g) ==
    /\ pc = "resolve"
    /\ Pending(g)
    /\ guests[g] = None \/ cancelled \/ "fault" \in Env
    /\ pending' = [pending EXCEPT ![g] = None]
    /\ excused' = excused \cup {g}
    /\ UNCHANGED <<world, pc, process, resolved, desired, current, plan, touched, unsaved, lost>>

\* Slip: one guest that is dealt with ends the loop.
ResolutionOverEarly == (\E g \in Guests : ~Pending(g)) \/ cancelled

\* The loop over the guests ends, or is left when the context is cancelled.
ResolutionOver == (\A g \in Guests : ~Pending(g)) \/ cancelled

BuildDesired ==
    /\ pc = "resolve"
    /\ ResolutionOver
    /\ ~DuplicateDomain(resolved)
    /\ pc' = "fetch"
    /\ desired' = BuildDesiredRewrites(resolved)
    /\ resolved' = NoTargets
    /\ UNCHANGED <<world, process, pending, current, plan, history>>

BuildDesiredFails ==
    /\ pc = "resolve"
    /\ ResolutionOver
    /\ DuplicateDomain(resolved)
    /\ ReturnToLoop
    /\ UNCHANGED <<world, unsaved>>

-----------------------------------------------------------------------------
(* Planning: ListRewrites, Load, BuildPlan. *)

\* Slip: the call is not given the context.
ListRewritesDetached ==
    /\ pc = "fetch"
    /\ pc' = "load"
    /\ current' = indexRewrites(adguard)
    /\ touched' = {}
    /\ UNCHANGED <<world, process, pending, resolved, desired, plan, excused, unsaved, lost>>

ListRewrites ==
    /\ pc = "fetch"
    /\ ~cancelled
    /\ pc' = "load"
    /\ current' = indexRewrites(adguard)
    /\ touched' = {}
    /\ UNCHANGED <<world, process, pending, resolved, desired, plan, excused, unsaved, lost>>

\* Slip: DRY_RUN is not looked at.
LoadAndPlanAlways ==
    /\ pc = "load"
    /\ stateFile # "corrupt"
    /\ pc' = "execute"
    /\ plan' = BuildPlan(desired, current, records)
    /\ UNCHANGED <<world, process, pending, resolved, desired, current, history>>

\* Slip: what an earlier cycle wrote without recording it counts as owned.
LoadAndPlanRemembering ==
    /\ pc = "load"
    /\ stateFile # "corrupt"
    /\ ~dryRun
    /\ pc' = "execute"
    /\ plan' = BuildPlan(desired, current,
                  [d \in Domains |-> IF d \in unsaved THEN current[d] ELSE records[d]])
    /\ UNCHANGED <<world, process, pending, resolved, desired, current, history>>

LoadAndPlan ==
    /\ pc = "load"
    /\ stateFile # "corrupt"
    /\ ~dryRun
    /\ pc' = "execute"
    /\ plan' = BuildPlan(desired, current, records)
    /\ UNCHANGED <<world, process, pending, resolved, desired, current, history>>

LoadAndReportPlan ==
    /\ pc = "load"
    /\ stateFile # "corrupt"
    /\ dryRun
    /\ ReturnToLoop
    /\ UNCHANGED <<world, unsaved>>

LoadFails ==
    /\ pc = "load"
    /\ stateFile = "corrupt" \/ "fault" \in Env
    /\ ReturnToLoop
    /\ UNCHANGED <<world, unsaved>>

-----------------------------------------------------------------------------
(* Applying the plan: Execute.  Additions, updates, deletions, in that order. *)

Write(d) == [answer |-> desired[d], by |-> "app"]

\* The mutation is applied, and the response comes back or is lost.
Applied(d, remaining) ==
    \/ /\ ~cancelled
       /\ plan' = remaining
       /\ UNCHANGED <<pc, process, pending, resolved, desired, current,
                      touched, excused, lost>>
    \/ /\ cancelled \/ "lost" \in Env
       /\ ReturnError

AddRewrite(d) ==
    /\ pc = "execute"
    /\ d \in plan.add
    /\ adguard' = [adguard EXCEPT ![d] = AfterAdd(@, Write(d))]
    /\ unsaved' = unsaved \cup {d}
    /\ Applied(d, [plan EXCEPT !.add = @ \ {d}])
    /\ UNCHANGED <<guests, stateFile, records>>

UpdateRewrite(d) ==
    /\ pc = "execute"
    /\ plan.add = {}
    /\ d \in plan.update
    /\ \E list \in AfterUpdate(adguard[d], current[d], Write(d)) :
          adguard' = [adguard EXCEPT ![d] = list]
    /\ unsaved' = unsaved \cup {d}
    /\ Applied(d, [plan EXCEPT !.update = @ \ {d}])
    /\ UNCHANGED <<guests, stateFile, records>>

\* AdGuard Home has no such rewrite any more.
UpdateRefused(d) ==
    /\ pc = "execute"
    /\ plan.add = {}
    /\ d \in plan.update
    /\ AfterUpdate(adguard[d], current[d], Write(d)) = {}
    /\ ReturnError
    /\ UNCHANGED <<world, unsaved>>

\* Slip: deletions do not wait for the other changes.
DeleteRewriteFirst(d) ==
    /\ pc = "execute"
    /\ d \in plan.delete
    /\ \E list \in AfterDelete(adguard[d], current[d]) :
          adguard' = [adguard EXCEPT ![d] = list]
    /\ UNCHANGED unsaved
    /\ Applied(d, [plan EXCEPT !.delete = @ \ {d}])
    /\ UNCHANGED <<guests, stateFile, records>>

DeleteRewrite(d) ==
    /\ pc = "execute"
    /\ plan.add = {}
    /\ plan.update = {}
    /\ d \in plan.delete
    /\ \E list \in AfterDelete(adguard[d], current[d]) :
          adguard' = [adguard EXCEPT ![d] = list]
    /\ UNCHANGED unsaved
    /\ Applied(d, [plan EXCEPT !.delete = @ \ {d}])
    /\ UNCHANGED <<guests, stateFile, records>>

\* A call that needs an answer of Proxmox or AdGuard Home fails, and had no
\* effect.
CallFails ==
    /\ \/ pc \in {"list", "fetch"}
       \/ pc = "execute" /\ plan # NoPlan
    /\ cancelled \/ "fault" \in Env
    /\ ReturnError
    /\ UNCHANGED <<world, unsaved>>

-----------------------------------------------------------------------------
(***************************************************************************)
(* Recording ownership: buildOwnershipState, Save.  Save reads and decodes *)
(* the file that is there, backs it up, and then renames the new one over  *)
(* it without a second look.  No context is involved.                      *)
(***************************************************************************)

\* Slip: the existing file is not decoded before it is replaced.
ReadExistingUndecoded ==
    /\ pc = "execute"
    /\ plan = NoPlan
    /\ pc' = "replace"
    /\ UNCHANGED <<world, process, locals, history>>

ReadExisting ==
    /\ pc = "execute"
    /\ plan = NoPlan
    /\ stateFile # "corrupt"
    /\ pc' = "replace"
    /\ UNCHANGED <<world, process, locals, history>>

Save ==
    /\ pc = "replace"
    /\ stateFile' = "ok"
    /\ records' = desired
    /\ unsaved' = unsaved \ Mapped(desired)
    /\ ReturnToLoop
    /\ UNCHANGED <<guests, adguard>>

SaveMayFail ==
    \/ /\ pc = "execute"
       /\ plan = NoPlan
       /\ stateFile = "corrupt" \/ "fault" \in Env
    \/ pc = "replace" /\ "fault" \in Env

\* Slip: the old file is removed before the new one is there.
SaveFailsWithoutFile ==
    /\ SaveMayFail
    /\ stateFile' = "missing"
    /\ records' = NoAnswers
    /\ unsaved' = unsaved \cup Mapped(records)
    /\ ReturnToLoop
    /\ UNCHANGED <<guests, adguard>>

SaveFails ==
    /\ SaveMayFail
    /\ ReturnToLoop
    /\ UNCHANGED <<world, unsaved>>

-----------------------------------------------------------------------------
(* Events around the process. *)

Signal ==
    /\ "signal" \in Env
    /\ pc # "down"
    /\ ~cancelled
    /\ cancelled' = TRUE
    /\ UNCHANGED <<world, pc, dryRun, locals, history>>

Crash ==
    /\ "crash" \in Env
    /\ pc # "down"
    /\ GoDown
    /\ UNCHANGED <<world, unsaved>>

GuestChanges(g) ==
    /\ "guests" \in Env
    /\ \E target \in (GuestTarget \cup {None}) \ {guests[g]} :
          guests' = [guests EXCEPT ![g] = target]
    /\ excused' = IF pc \in {"resolve", "fetch", "load", "execute", "replace"}
                    THEN excused \cup {g} ELSE excused
    /\ UNCHANGED <<adguard, stateFile, records, pc, process, locals, touched, unsaved, lost>>

\* A user adds an entry, removes one, or rewrites the first.
UserEdits(list) ==
    {AfterAdd(list, [answer |-> a, by |-> "user"]) : a \in Answers}
    \cup (UNION {AfterDelete(list, a) : a \in Answers})
    \cup (IF Listed(list)
            THEN {[list EXCEPT !.front = [answer |-> a, by |-> "user"]] : a \in Answers}
            ELSE {})

UserEdit(d) ==
    /\ "edit" \in Env
    /\ \E list \in UserEdits(adguard[d]) \ {adguard[d]} :
          /\ Cardinality(list.others) <= MaxOthers
          /\ adguard' = [adguard EXCEPT ![d] = list]
    /\ touched' = IF pc \in {"load", "execute", "replace"}
                    THEN touched \cup {d} ELSE touched
    /\ UNCHANGED <<guests, stateFile, records, pc, process, locals, excused, unsaved, lost>>

\* What was on record is now only in AdGuard Home.
LoseRecords(status) ==
    /\ stateFile' = status
    /\ records' = NoAnswers
    /\ unsaved' = unsaved \cup Mapped(records)
    /\ lost' = IF pc = "execute" THEN lost \cup Mapped(records) ELSE lost
    /\ UNCHANGED <<guests, adguard, pc, process, locals, touched, excused>>

StateFileRemoved ==
    /\ "lose" \in Env
    /\ stateFile # "missing"
    /\ LoseRecords("missing")

StateFileCorrupted ==
    /\ "corrupt" \in Env
    /\ stateFile = "ok"
    /\ LoseRecords("corrupt")

-----------------------------------------------------------------------------
StartAgain == \E mode \in DryRunModes : Start(mode)

\* What the process does when every call it makes is answered.
Work ==
    \/ Verify \/ Tick \/ ListGuests \/ BuildDesired \/ BuildDesiredFails
    \/ ListRewrites \/ LoadAndPlan \/ LoadAndReportPlan
    \/ ReadExisting \/ Save
    \/ \E g \in Guests : ResolveGuest(g)
    \/ \E d \in Domains : AddRewrite(d) \/ UpdateRewrite(d) \/ DeleteRewrite(d)

\* What it does when one is not, or when there is nothing to be had.
Fail ==
    \/ VerifyFails \/ LoadFails \/ CallFails \/ SaveFails
    \/ \E g \in Guests : SkipGuest(g) \/ ResolveFromFallback(g)
    \/ \E d \in Domains : UpdateRefused(d)

Process == Work \/ Fail \/ Shutdown

Users ==
    \/ \E g \in Guests : GuestChanges(g)
    \/ \E d \in UserDomains : UserEdit(d)

Accidents == Signal \/ Crash \/ StateFileRemoved \/ StateFileCorrupted

Next == StartAgain \/ Process \/ Users \/ Accidents

Spec == Init /\ [][Next]_vars

(***************************************************************************)
(* The Go runtime runs the loop, every call ends by its 15 s client        *)
(* timeout at the latest, and the ticker ticks: the process never stops    *)
(* taking steps.  Where the select of runLoop finds both the tick and the  *)
(* cancellation ready it picks either at random, so neither is passed over *)
(* for ever.  Nobody is assumed to start the process again.                *)
(***************************************************************************)
Fairness == WF_vars(Process) /\ SF_vars(Shutdown)

FairSpec == Spec /\ Fairness

-----------------------------------------------------------------------------
(* What the synchroniser promises. *)

InPlace(d) == FrontAnswer(adguard[d]) = desired[d]

\* A run that stopped early or lost its state file may leave rewrites that
\* nobody owns, but these are the only ones: every rewrite the program wrote
\* is on record, or was written without its record being kept.  It is the
\* deletion of what is dropped from the record (plan.go:122-133) and the
\* order Execute, then Save (main.go:407-444) that make it so.
NoOrphan ==
    "edit" \notin Env =>
        \A d \in Domains :
            HasAppEntry(adguard[d]) => records[d] # None \/ d \in unsaved

\* The program changes no rewrite of a domain that is not the name of a
\* guest, whatever users do to it and whatever happens to the state file:
\* "unrelated AdGuard rewrites remain untouched" (README.md:69).
UnrelatedUntouched ==
    [][Process => \A d \in Domains \ GuestDomains : adguard'[d] = adguard[d]]_vars

\* "new and updated records are in place before stale managed records are
\* removed" (executor.go:69-70): when a deletion is sent, every desired
\* rewrite that no user edited meanwhile is what AdGuard Home answers.
InPlaceBeforeDelete ==
    [][\A d \in Domains :
          DeleteRewrite(d) =>
              \A w \in Mapped(desired) \ touched : InPlace(w)]_vars

\* "A rewrite is eligible for automatic deletion only when it was previously
\* recorded as owned by this application" (README.md:67): every domain that
\* loses a rewrite is on record, or was until the state file was lost while
\* this very plan was applied.  What an earlier cycle wrote without getting to
\* Save is not enough.  (The answer on record may be another: see below.)
OnlyOwnedDeleted ==
    [][\A d \in Domains : DeleteRewrite(d) => d \in Mapped(records) \cup lost]_vars

\* The ownership record is replaced only by one that AdGuard Home bears out:
\* every rewrite put on record is in the list at that moment, unless a user
\* edited it after this synchronisation listed it (main.go:407-444).
SavedMeansInPlace ==
    [][Save => \A d \in Mapped(records') \ touched :
                  FrontAnswer(adguard[d]) = records'[d]]_vars

\* A guest that was listed, resolved and did not change in this cycle keeps
\* its rewrite: no deletion hits its name, whichever other guests failed.
HealthyGuestNotDeleted ==
    [][\A d \in Domains :
          DeleteRewrite(d) =>
              \A g \in Guests \ excused : guests[g] # None => guests[g].domain # d]_vars

\* The synchronisation that completes has served every such guest: its name
\* is on record and answers with its address.
HealthyGuestServed ==
    [][Save => \A g \in Guests \ excused :
          guests[g] # None =>
              /\ records'[guests[g].domain] = guests[g].answer
              /\ \/ FrontAnswer(adguard[guests[g].domain]) = guests[g].answer
                 \/ guests[g].domain \in touched]_vars

\* A cancellation leaves the loop over the guests early (main.go:598-600)
\* with some of them missing from the desired set; nothing is ever planned or
\* applied from such a set.
PartialResolutionNeverApplied ==
    pc \in {"load", "execute", "replace"} => \A g \in Guests : ~Pending(g)

\* Under DRY_RUN the program changes neither AdGuard Home nor the ownership
\* record, in whatever state it finds them.
DryRunReadOnly ==
    [][dryRun /\ Process =>
          UNCHANGED <<adguard, stateFile, records>>]_vars

\* While the state file does not decode, no synchronisation that has not yet
\* loaded it gets to AdGuard Home, and none that has gets past reading it again
\* in Save (main.go:357-363, store.go:121-132): it is not replaced, unless it
\* was damaged after Save had read it and before the rename (store.go:371).
CorruptStateKept ==
    [][stateFile = "corrupt" /\ pc # "replace" /\ Process =>
          /\ stateFile' = "corrupt"
          /\ pc' # "replace"
          /\ pc # "execute" => pc' # "execute"]_vars

-----------------------------------------------------------------------------
(***************************************************************************)
(* The inductive invariant behind these, in named parts.                   *)
(***************************************************************************)

\* A plan is there only while it is applied, never in a dry run, and it says
\* what the desired rewrites ask for.
PlanSound ==
    /\ plan # NoPlan => pc = "execute"
    /\ pc \in {"execute", "replace"} => ~dryRun
    /\ plan.add \cup plan.update \subseteq Mapped(desired)
    /\ plan.delete \cap Mapped(desired) = {}
    /\ plan.add \cap Mapped(current) = {}
    /\ plan.update \cup plan.delete \subseteq Mapped(current)

\* Nothing but the names of guests is desired, owned or deleted.
Confined == Mapped(desired) \cup Mapped(records) \cup plan.delete \subseteq GuestDomains

\* What is to be deleted is on record, or was until the record was lost.
DeletionsOwned == plan.delete \subseteq Mapped(records) \cup lost

\* The loop over the guests was left early only by a cancellation, and a
\* cancelled process gets no further than the next call.
ResolutionComplete ==
    /\ PartialResolutionNeverApplied
    /\ pc = "fetch" => cancelled \/ \A g \in Guests : ~Pending(g)

\* What the plan still has to do is as ListRewrites found it, and what it has
\* done or need not do is in place, save for what users touched.
Progress ==
    \A d \in Domains \ touched :
        /\ pc = "load" => FrontAnswer(adguard[d]) = current[d]
        /\ d \in plan.add \cup plan.update \cup plan.delete =>
               FrontAnswer(adguard[d]) = current[d]
        /\ pc \in {"execute", "replace"}
             /\ d \in Mapped(desired) \ (plan.add \cup plan.update) => InPlace(d)

Wanted == BuildDesiredRewrites(guests)

\* A guest that is not excused is still what it was when it was listed, and
\* is on its way into the desired rewrites, or in them.
GuestsFollowed ==
    \A g \in Guests \ excused : guests[g] # None =>
        /\ pc = "resolve" =>
               \/ pending[g] = guests[g].domain
               \/ ~Pending(g) /\ resolved[g] = guests[g]
        /\ pc \in {"fetch", "load", "execute", "replace"} /\ ~Pending(g) =>
               desired[guests[g].domain] = guests[g].answer

\* A synchronisation in which no guest is excused is after what the guests
\* are, no more and no less.
NothingLeftOver ==
    pc \in {"down", "verify", "list", "idle"} => resolved = NoTargets

AsListed(g) ==
    \/ ~Pending(g) /\ resolved[g] = guests[g]
    \/ guests[g] # None /\ pending[g] = guests[g].domain

DesiredIsWanted ==
    excused = {} =>
        /\ pc = "resolve" => \A g \in Guests : AsListed(g)
        /\ pc \in {"fetch", "load", "execute", "replace"}
             /\ (\A g \in Guests : ~Pending(g)) =>
               desired = Wanted /\ ~DuplicateDomain(guests)

\* Without edits a domain has one entry at most, and the plan holds the
\* deletion of every owned rewrite that is about to leave the record.
OwnershipTracked ==
    "edit" \notin Env =>
        /\ touched = {}
        /\ \A d \in Domains : adguard[d].others = {}
        /\ pc \in {"execute", "replace"} =>
               \A d \in Mapped(records) \ Mapped(desired) :
                   Listed(adguard[d]) => d \in plan.delete

SyncInvariant ==
    /\ TypeOK
    /\ PlanSound
    /\ Confined
    /\ DeletionsOwned
    /\ ResolutionComplete
    /\ Progress
    /\ GuestsFollowed
    /\ NothingLeftOver
    /\ DesiredIsWanted
    /\ OwnershipTracked
    /\ NoOrphan

-----------------------------------------------------------------------------
InSync ==
    /\ stateFile = "ok"
    /\ records = Wanted
    /\ \A d \in Mapped(Wanted) : FrontAnswer(adguard[d]) = Wanted[d]

\* AdGuard Home and the record agree with the guests, and the synchronisation
\* under way, if any, is about to find that.  (A cancelled one gets nowhere.)
Settled ==
    /\ InSync
    /\ ~DuplicateDomain(guests)
    /\ pc = "resolve" => cancelled \/ \A g \in Guests : AsListed(g)
    /\ pc = "fetch" => cancelled \/ desired = Wanted
    /\ pc \in {"load", "execute", "replace"} => desired = Wanted
    /\ pc = "load" => \A d \in Mapped(Wanted) : current[d] = Wanted[d]
    /\ pc = "execute" => plan = NoPlan

\* A step that neither changes the guests, the list or the file from outside,
\* nor makes a synchronisation miss a guest that is there.
Undisturbed ==
    \/ StartAgain \/ Work \/ Shutdown \/ Signal \/ Crash
    \/ VerifyFails \/ LoadFails \/ CallFails \/ SaveFails
    \/ \E d \in Domains : UpdateRefused(d)
    \/ \E g \in Guests :
          /\ guests[g] = None \/ cancelled
          /\ SkipGuest(g) \/ ResolveFromFallback(g)

\* A synchronisation that gets to Save, in which every guest was followed and
\* no user interfered, leaves everything settled; and settled it stays,
\* whatever calls and saves fail, whenever the process is stopped, dies and is
\* started again, and whichever responses are lost: the next synchronisations
\* plan nothing and write the same record (plan.go:78-147, main.go:335-444).
Settles ==
    [][(Save /\ excused = {} /\ touched = {}) \/ (Settled /\ Undisturbed)
          => Settled']_vars

\* What no further synchronisation can mend.
Blocked == dryRun \/ DuplicateDomain(guests) \/ stateFile = "corrupt"

\* A step in which every call is answered, if only with a refusal.
Answered ==
    \/ Work \/ Shutdown
    \/ \E g \in Guests : guests[g] = None /\ SkipGuest(g)
    \/ \E d \in Domains : UpdateRefused(d)
    \/ stateFile = "corrupt" /\ (LoadFails \/ SaveFails)

\* Once the world is left alone and calls are answered, AdGuard Home and the
\* record agree with the guests for ever, whatever crashes, failures, lost
\* responses and edits went before.  (The premise says what steps are, not
\* what they are not: a Save that changes nothing looks like one that fails.)
Converges == <>[][Answered]_vars => <>[](pc = "down" \/ Blocked \/ InSync)

\* A signal ends the process, however many ticks and calls race with it.
ShutdownTerminates == cancelled ~> pc = "down"

-----------------------------------------------------------------------------
(* What the documentation says and the code does not do. *)

\* "Manually created or otherwise unrelated AdGuard rewrites remain
\* untouched" (README.md:69).
ManualRewritesUntouched ==
    [][Process =>
          \A d \in Domains : \A e \in EntriesOf(adguard[d]) :
              e.by = "user" => e \in EntriesOf(adguard'[d])]_vars

\* "eligible for automatic deletion only when it was previously recorded as
\* owned by this application" (README.md:67).
OnlyRecordedRewritesDeleted ==
    [][\A d \in Domains : DeleteRewrite(d) => records[d] = current[d]]_vars
=============================================================================
