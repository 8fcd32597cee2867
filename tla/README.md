# Verification of proxmox-adguard-sync

`proxmox-adguard-sync` is one process that periodically makes the DNS rewrites
of AdGuard Home follow the guests of Proxmox VE. It keeps in a local state file
which rewrites it owns, because only those may be deleted automatically. This
directory models that program in TLA+, checks the models with TLC, and proves
the main results with TLAPS for every value of the constants.

Source paths below are relative to the repository.

## 1. The system

| Part | Source | State | Operations | Talks to |
|---|---|---|---|---|
| Synchronisation loop | `cmd/proxmox-adguard-sync/main.go` | position in the loop, signal context, locals of `synchronize` | start, verify, tick, synchronise, shut down | every other part |
| Planner | `internal/reconcile/plan.go` | none | `BuildDesiredRewrites`, `BuildPlan`, normalisation of names | loop |
| Executor | `internal/reconcile/executor.go` | rest of the plan | `Execute`: additions, updates, deletions | AdGuard client |
| AdGuard client | `internal/adguard/client.go` | none (the list is in AdGuard Home) | list, add, update, delete | AdGuard Home over HTTP, 15 s timeout |
| Proxmox client | `internal/proxmox/*.go` | none | list guests, get a guest's configuration, ask its agent | Proxmox VE over HTTP |
| State store | `internal/state/store.go` | state file, backup, temporary files | `Load`, `Save` | file system |
| Selection | `internal/selection/selector.go` | none | `Evaluate`, `Filter` | loop |
| Discovery | `internal/discovery/*.go` | none | find a guest's name and address | loop |
| Configuration | `internal/config/config.go` | none after start | make a configuration of the environment | all |
| Setup wizard | `cmd/proxmox-adguard-sync/setup.go` | answers, temporary file, environment file | ask, test, write, replace | user, both services, file system |
| Commands | `cmd/proxmox-adguard-sync/{commands,validate,version}.go` | none | dispatch, test the configuration | both services |
| Logging | `internal/logging/logger.go` | none | format | - |

One synchronisation reads the guests (one call for the list, one or two per
guest), then the rewrite list, then the state file, plans, applies the plan one
call at a time, and saves the desired set as the new record. Nothing holds these
steps together: the guests, the rewrite list and the file can change between any
two of them, each call can fail or be applied without its response arriving, a
signal can cancel the context at any point, and the process can die. There is no
retry and no recovery code; the next cycle is the recovery. Nor does anything
keep a second instance from doing the same at the same time. So the hard
questions are:

* Which rewrites can an interrupted cycle leave that nobody owns?
* Can a guest that is well lose its rewrite because of another one's failure, or
  because a cancellation left the resolution incomplete?
* Is the record ever ahead of AdGuard Home?
* Does the next cycle really repair everything?
* What do two instances do to each other, and what does a request do that is
  carried out long after its caller gave up?
* What do a damaged, lost or concurrently written state file do?
* Does discovery pick the address the documentation says, and give up only when
  there is none?
* Does every part know a name by the same text?
* Does the service run with the configuration that setup tested, and does it
  leave AdGuard Home alone until a person says otherwise?

`PROJECT.json` lists these hazards one by one under "hazards", each with its
line and the properties that cover it.

What makes each part correct:

* loop and executor: nothing unowned is left behind (`NoOrphan`), deletions come
  after everything they could make unreachable (`InPlaceBeforeDelete`), the
  record is borne out by AdGuard Home (`SavedMeansInPlace`), healthy guests are
  served (`HealthyGuestServed`, `HealthyGuestNotDeleted`), cycles converge
  (`Converges`), what has converged stays so whatever fails (`Settles`), a signal
  ends the process (`ShutdownTerminates`);
* several instances: unowned rewrites and duplicates come of races only
  (`OrphansNeedARace`, `DuplicatesNeedARace`), a request names what is there
  (`AimsAtWhatIsThere`), the damage is repaired (`OverlapsHeal`), and instances do
  not undo what another has brought into agreement (`RestIsKept`);
* planner: only owned rewrites of undesired names are deleted
  (`OnlyOwnedDeleted`, `UnrelatedUntouched`, and the first two divergences of
  section 6); names have
  one normal form (`AcceptedNamesAreServed`, `DomainsHaveOneSpelling`,
  `LabelsKeepTheLetters`);
* store: the file changes as a whole (`IsAtomic`), is never torn, one that `Save`
  finds damaged is not replaced, and the backup is good and recent;
* selection and discovery: `ExclusionPrevails`, `FirstOfferWins`,
  `GivenUpOnlyWithoutOffer`, `UnusableOnlyByHand`;
* setup and configuration: what is served is what was tested
  (`ServesWhatWasTested`), dry until a person turned that off
  (`LiveOnlyByHand`), no file is replaced unseen (`ReplacesOnlyTheUnseen`), and
  secrets are left behind by a kill or a failed removal only (`LitterAccountedFor`).

## 2. The modules

| Module | Models | Used by |
|---|---|---|
| `AdGuard` | AdGuard Home's list (external): one entry per domain in front, a set of others, and what an addition, update or deletion does to it | `Reconcile` |
| `Reconcile` | `plan.go`: desired rewrites from targets, duplicate names, the plan | `Sync`, `Instances` |
| `Sync` | the loop, the executor, the clients and the world around them | `MCSync`, `SyncProofs` |
| `Instances` | several loops on one AdGuard Home and one state file; AdGuard's list entry by entry, spellings, late requests | `MCInstances`, `InstancesProofs` |
| `AtomicStore` | what the store promises of the state file | `StateStore` (`Atomic`) |
| `StateStore` | `Save` and `writeAtomicFile` one system call at a time, several processes | `MCStateStore`, `StateStoreProofs` |
| `Selection` | `Evaluate` and its checks | `Discovery` |
| `Discovery` | the loop of `resolveGuests` for one guest after another: filter, configuration call, agent call, name, sources in order | `MCDiscovery`, `DiscoveryProofs` |
| `Names` | the loops that make a label and a domain of a name and a suffix, one character at a time | `MCNames`, `NamesProofs` |
| `Config` | `Load`: every variable, default, legacy name and check | `Setup` |
| `Setup` | commands, the wizard, the shell that loads its file, the service that reads it there | `MCSetup`, `SetupProofs` |
| `Extrema` | nothing: lemmas about the least and the greatest of a set of numbers | `DiscoveryProofs`, `NamesProofs` |
| `SyncProofs`, `InstancesProofs`, `StateStoreProofs`, `DiscoveryProofs`, `NamesProofs`, `SetupProofs` | theorems | - |
| `MCSync`, `MCInstances`, `MCStateStore`, `MCDiscovery`, `MCNames`, `MCSetup` | small instances and symmetry | the configurations |

Definitions keep the names of the source where they translate a function
(`BuildPlan`, `indexRewrites`, `DiscoverCloudInitIPv4`, ...). A definition whose
comment begins with "Slip:" is a wrong variant of the one that follows it. No
specification uses it; the mutants of `PROJECT.json` put it in the place of the
right one to show that a property depends on it.

### Sync

The world is `guests` (what each guest would resolve to now), `adguard`,
`stateFile` and `records`. The process is `pc`, `dryRun`, `cancelled` and the
locals of `synchronize`. One action is one remote call or one access to the
file:

| `pc` | Code | Actions |
|---|---|---|
| `down` | before `run`, after it | `Start` |
| `verify` | `verifyConnections` | `Verify`, `VerifyFails` |
| `list` | `ListGuests`, `Filter` | `ListGuests`, `CallFails` |
| `resolve` | `resolveGuests`, `BuildDesiredRewrites` | `ResolveGuest`, `ResolveFromFallback`, `SkipGuest`, `BuildDesired`, `BuildDesiredFails` |
| `fetch` | `ListRewrites` | `ListRewrites`, `CallFails` |
| `load` | `Load`, `BuildPlan`, the test of `DRY_RUN` | `LoadAndPlan`, `LoadAndReportPlan`, `LoadFails` |
| `execute` | `Execute`, the reading of the existing file in `Save` | `AddRewrite`, `UpdateRewrite`, `DeleteRewrite`, `UpdateRefused`, `CallFails`, `ReadExisting`, `SaveFails` |
| `replace` | the rest of `Save` | `Save`, `SaveFails` |
| `idle` | the select of `runLoop` | `Tick`, `Shutdown` |

Around it: `Signal`, `Crash`, `GuestChanges`, `UserEdit`, `StateFileRemoved`,
`StateFileCorrupted`. The constant `Env` says which kinds of event a
configuration allows.

Four variables are history, read by no action: `touched` (domains users edited
since this cycle listed the rewrites), `excused` (guests this cycle skipped,
resolved from a fallback, or saw change), `unsaved` (domains the program
wrote without their record being kept) and `lost` (domains whose record was lost
while the plan at hand is applied). They say exactly which damage is not
the program's: a property that excuses a domain or guest excuses only those.

Abstractions, and why they are sound:

* A guest is the name and address discovery makes of it, or `None` when it is
  not selected or has none. How discovery gets there is `Discovery`. The name
  may come from the earlier list or from the configuration fetched later, so
  `ResolveGuest` chooses.
* `BuildDesiredRewrites` can also fail on an empty hostname or a bad address.
  `resolveGuests` lets neither through: `validateResolvedHostname` refuses what
  the planner would refuse (`AcceptedNamesAreServed` in `Names`), and
  `parseIPv4OrPrefix` accepts IPv4 only. So a duplicate name is its only failure
  here.
* Names are in their normal form; `Names` shows that there is one. AdGuard's
  spelling of an entry is in `Instances`.
* The order inside additions, updates and deletions is left open: the code sorts
  each by domain, which is one of the orders.
* AdGuard's list keeps an order per domain only as far as the program looks: the
  first entry and the others. A deletion removes every entry with that domain
  and answer and succeeds when there is none; an update of an entry that is not
  there is refused.
* A call made with a cancelled context fails, or has taken effect before the
  cancellation was noticed (`Applied`). Whether the loop then recognises
  `context.Canceled` in the error depends on the Go release (newer releases give
  the context of `signal.NotifyContext` a cause) and on what the service did at
  the same time, so `ReturnError` allows both outcomes.
* A lost response means that the request was applied before the call returned.
  An application after the caller gave up is in `Instances`.
* `Save` is two steps: it reads and decodes the existing file, which it refuses
  to go past when that is damaged, and then replaces it. A file damaged in between
  is replaced, as in the code. The replacement is one step, with its backup,
  temporary file and rename left to `StateStore`, whose refinement of `AtomicStore`
  is the reason. A loss of power that brings an older record back is in
  `StateStore` only. In `Instances` files are not damaged, and `Save` is one step.

### Instances

Here `list` gives every domain the sequence of its entries. An entry is `plain`
when AdGuard's spelling of it is the normalised domain the program would send;
`by` remembers who wrote it and is read by properties only. `indexed` is the
first entry whatever its spelling (`indexRewrites`), while a request finds plain
entries only (`Matching`): the gap between the two is what `AimsAtWhatIsThere`
and `Stuck` are about. `Effect` is empty when AdGuard Home refuses.

Each instance goes `idle`, `fetch`, `load`, `execute`, with its own `desired`,
`current` and `plan`. The steps of `Sync` that touch nothing shared are taken
together: resolving the guests is `Resolve`, which reads `wanted`. `Apply` is a
request carried out, `Refused` one that AdGuard Home rejects, and `GiveUp` moves
it to `late`, from where `Arrive` carries it out or finds it refused at any later
time, or never. `Fails` is every call that fails without an effect, and also a
process that is killed and started again.

Histories: `moved` (domains that others changed since the instance listed them,
or whose first entry was odd then), `disturbed` (domains edited, odd, changed by
a late request or while two instances were at work) and `unsaved`. Signals, dry
runs, partial resolutions and damaged state files are in `Sync` and change
nothing about overlaps.

### StateStore

`live` is what processes see under the names of the state file and its backup,
`disk` what a loss of power would leave. A rename changes `live` at once and
`disk` at some later `Flush`, in any order, because the directory is not synced.
Each process is somewhere in `Save`: reading the existing file, then creating,
writing, syncing and renaming a temporary file for the backup, then again for
the state file. A failing call ends `Save` with the deferred removal of the
temporary file; a crash ends it without, and the removal may fail. A temporary
file left behind has a name nobody uses again, so it is not kept in the state. `undisturbed` is a history
variable: no two saves have overlapped, and nothing was lost or removed. As long
as it holds, `BackupIsRecent` says that there is a backup, of the current version
or of the one before; before the second version there is none to make, and the
property says so.

### Selection and Discovery

What Proxmox VE answers is any member of the constant sets (`Descriptions`,
`Networks`, `Reports`), so nothing relates one answer to another, which is how
the code has to see it. A `Networks` element gives the `ip` fields of each
interface in the order of the interface numbers; `NotIPv4` stands for `dhcp`,
`auto`, `manual`, IPv6 and garbage, which the code treats alike. Every search
loop of the code is a map over a sequence and `FirstFound` of the results;
`tried` counts the sources of the order that had their turn. `AgentOffers`,
`NetworkOffers` and `DescriptionOffers` state the same results without order of
evaluation, from the documentation, and the properties compare the two.
Name patterns and tags are sets: a guest's name is the set of configured
patterns it contains.

`KeyAssumption` says that no key of a description is both an address key and a
name key. The configuration does not enforce that; a key that is both would need
values that are names and addresses at once, which the abstraction keeps apart.

### Names

`input` is a guest's name with a suffix, and a behaviour takes it through the
code. Each package has a copy of one loop over characters; `Call` starts it on a
value (`text`, in lower case and with hyphens for underscores), `Turn` is one
character (`position`), which is written to `builder`, or dropped, depending on
`previousHyphen`, and `Return` trims the hyphens into `label`. `stage` is the
caller:

| `stage` | Code | Actions |
|---|---|---|
| `hostname` | `normalizeHostname`, `validateResolvedHostname` (`resolver.go`) | `HostnameTurn`, `HostnameReturns`, `validateResolvedHostname` |
| `suffix` | `normalizeDNSSuffix` (`plan.go`), which calls `normalizeDNSLabel` for each part between two dots | `NextPart`, `LabelTurn`, `LabelReturns`, `PartReturned`, `RefuseSuffix` |
| `label` | the body of `BuildDesiredRewrites` for one target | `LabelHostname`, `LabelTurn`, `LabelReturns`, `FormDomain` |
| `left out`, `refused`, `served` | the guest is skipped, the synchronisation fails, the domain is asked for | - |

Characters are told apart as far as the code does: `Letters` (with the digits),
`Capitals`, which `LowerOf` maps to them, `Blanks`, which `TrimSpace` trims, the
hyphen, the underscore and the dot, and `Others`, which are dropped.
`CharacterAssumption` says that these are different and that what a capital
becomes is a letter. `strings.ToLower` maps some letters outside ASCII into
ASCII; they may be capitals here, because nothing says that there is one per
letter. Two histories, `origin` and `places`, say where each
character of `builder` and of `label` stood in `text`; no action reads them.
`domain` is what a served guest is known by, and `normalizeDomain` what the
planner does to AdGuard Home's spelling of it.

### Config and Setup

`Config` is `Load` as a function from environments to configurations. What the
Go library does to a text (`TrimSpace`, `ParseBool`, `Atoi`, ...) is a constant
operator: a table for TLC, named assumptions for the proofs. `Duration` wraps in
the width of a `time.Duration`.

`Setup` is a terminal: the shell's environment `env`, the configuration `file`,
and at most one program in it (`pc`). The wizard looks for a file at the path
(`confirmOverwrite`), asks one question after another (`collectAnswer`, with
refused lines that are asked again), tests the connections, asks whether to
write, and replaces the file in the steps of `writeSetupEnvironmentFile`
(`CreateTemp`, `FillTemp`, `Rename`, `Finish`). The file is the assignment the
shell makes of it: `writeEnvironmentValue` quotes a value so that the shell reads
the same text back, and a blank value is an assignment too, which matters
because it hides what the shell had before. After a failing call the deferred
`removeTemporaryFile` runs, whose own error the code discards (`setup.go:845`): it
may leave the file, and `unremoved` counts that, up to `MaxUnremoved`. `Source` is the documented
`set -a && source`, `run` is the service up to `runLoop`. Others may write lines
into the file or remove it, calls may fail, and any program may be killed.

Histories: `confirmed` and `arrived` (consent; a file that came into being after
the wizard looked), `tested` and `basis` (what was tested for the file, and for
the file the shell loaded last, unless changed since), `liveByHand` (a person
wrote that the service is not to be dry).

## 3. The runs

| Run | Bounds | Checks |
|---|---|---|
| `faults` | 2 names, 2 addresses, 2 guests, every event but edits | `NoOrphan`, `PartialResolutionNeverApplied`, `HealthyGuestNotDeleted`, `HealthyGuestServed`, `Settles` |
| `edits` | as above, guests change and users edit one name, one further entry per name | `InPlaceBeforeDelete`, `SavedMeansInPlace` |
| `reach` | one guest name, one that is no guest's; dry and live runs; edits and every failure but a silent agent | `TypeOK`, `UnrelatedUntouched`, `OnlyOwnedDeleted`, `DryRunReadOnly`, `CorruptStateKept` |
| `fair` | 1 guest, 2 names, fair | `Converges`, `ShutdownTerminates` |
| `instances` | 2 instances, 1 domain, 2 addresses, 3 lists users may leave, 1 late request, fair | `TypeOK`, `AimsAtWhatIsThere`, `OrphansNeedARace`, `DuplicatesNeedARace`, `RestIsKept`, `OverlapsHeal` |
| `store` | 3 versions, 2 processes, every event | `TypeOK`, `BackupDecodes`, `BackupIsRecent`, `NeverTorn`, `RefusesDamaged`, `IsAtomic` |
| `discovery` | 3 addresses (one unusable), 4 filters, 4 source orders, 8 descriptions, 5 network configurations, 5 agent answers | `TypeOK`, `FirstOfferWins`, `GivenUpOnlyWithoutOffer`, `UnusableOnlyByHand`, `ExclusionPrevails` |
| `names` | all names of up to 5 characters with a plain suffix, all such suffixes with a plain name | `TypeOK`, `AcceptedNamesAreServed`, `DomainsHaveOneSpelling`, `LabelsKeepTheLetters` |
| `setup` | 4 environments to begin with, 1 edit by hand, 1 kill, 1 failed clean-up, failing calls, removals | `TypeOK`, `ServesWhatWasTested`, `LiveOnlyByHand`, `LitterAccountedFor`, `ReplacesOnlyTheUnseen` |
| `manual`, `recorded`, `interval` | 1 name, 2 addresses, 1 guest; `setup` without failures | the divergences of section 6 |

Why the bounds are enough.

*Sync.* Every property speaks of one domain, or of one domain and the rest of the
plan, and of one guest and another that may get in its way: two of each produce a
plan with every pair of kinds of change, a duplicate name, a guest that fails
beside one that does not, and a guest that takes over another's name. Two
addresses are enough for an answer to be right or wrong; a fallback needs a
second one. `MaxOthers` bounds the entries users pile up behind the first of a
domain; the program looks at the first only, and one more is what shows when the
first goes. Edits and failures are checked apart because together they exceed
what TLC can explore at two guests; `reach` and `fair` have both for one guest,
and the proofs cover all of it. The number of cycles, crashes, edits and failures
is not bounded anywhere. `edits` allows neither failures nor cancellation, so
that the one thing it varies, what users do between the list and the last change,
is explored with two guests.

*Instances.* The properties speak of one domain each, and requests for different
domains do not touch each other. `MaxParties` bounds the instances at work and
the late requests together: two parties already give every race of two. The lists
of users have an empty one, a plain entry, and an odd entry in front of a plain
one. The proofs have no bound.

*Store.* Three versions tell the current version, the one before and an older one
apart.

*Setup.* The texts are one for each thing the code does to a text: blank, with
white space, with capitals, with slashes, a list with blanks and empty entries,
what parses as a Boolean or number and what does not. A `Duration` has 11 bits
(`Limit`) and a second 8 units, so that 130 seconds wrap as 9223372037 do in the
program. The environments to begin with are nothing, what `Load` cannot do
without, the same with a `DRY_RUN` that does not parse, and something stale in
every variable. Two programs in a row, an edit, a kill and a temporary file that
cannot be removed are what the properties relate; more of them only add to the
counts.

*Names.* Five characters hold two hyphens with something dropped between them and
a letter at each side, or two labels with an empty one between them. Name and
suffix are varied apart because the code normalises them apart; the proofs
have no bound on either.

Symmetry over guests and addresses (versions and processes for the store) is
used for safety only: these are model values no definition tells apart, except
through the `CHOOSE` of `BuildDesiredRewrites`, whose set has one member
whenever the result is used. The fair runs use none. Deadlock is checked in every
run but `names`, where a behaviour ends with the name served, left out or
refused.

### Fairness

`FairSpec` of `Sync` assumes weak fairness of `Process` and strong fairness of
`Shutdown`. The first is what the Go runtime and the timeouts give: the loop never
blocks for good, because each HTTP call ends by the 15 s timeout of its client at
the latest and the ticker ticks. Fairness is put on the whole of `Process`,
failures included, and on no single action of it: no call is assumed to succeed.
Strong fairness of `Shutdown` is the select of `runLoop`: when tick and
cancellation are both ready it picks at random, so cancellation is not passed
over for ever. Nothing in the repository starts the process again after it ends,
so `StartAgain` is not fair and `Converges` accepts a process that is down.
`FairSpec` of `Instances` is weak fairness of each instance's `Step`, for the
same reason. A late request need not ever arrive.

`Converges` is conditional: if from some time on every step is one in which the
calls are answered (`Answered`: no failures, edits, accidents, guest changes or
starts), then for ever after some time the record equals the desired set and
AdGuard Home answers it. The premise lists the steps that may happen, because a
save that fails and a save that changes nothing are the same step: a premise that
excluded failures by name would exclude the steady state with them. `Blocked` is
what no cycle can mend: a dry run, two guests with one name, and a state file
that does not decode, which needs an operator. `OverlapsHeal` has the same form;
what it excuses (`Stuck`) is an entry in an odd spelling in front of a wanted
rewrite, which every update misses.

## 4. What is proved

TLAPS checks every theorem below for any sets of domains, answers, guests,
instances, versions, processes, sources, keys, characters, texts (of any length)
and environments, under the named assumptions on the constants only. No finiteness is assumed.

`SyncProofs`. The properties do not hold inductively, so the proof strengthens
them to `SyncInvariant`:

* `PlanSound`: a plan exists only while it is applied, never in a dry run, and
  its parts fit the desired and the current rewrites;
* `Confined`: only names guests can have are desired, recorded or deleted;
* `ResolutionComplete`: an incomplete resolution implies a cancelled context,
  with which the next call fails;
* `Progress`: for domains no user touched, what is still planned is as listed,
  and what is not is in place. This carries `InPlaceBeforeDelete` and
  `SavedMeansInPlace`;
* `GuestsFollowed`: a guest that is not excused is pending under its name, or
  resolved to what it is, or desired. This carries the two guest properties;
* `OwnershipTracked`: without edits a domain has one entry, and every recorded
  rewrite about to leave the record is in the plan's deletions. This carries
  `NoOrphan`;
* `DeletionsOwned`: what is planned to be deleted is on record, or was until the
  record was lost while the plan is applied. This carries `OnlyOwnedDeleted`;
* `NothingLeftOver` and `DesiredIsWanted`: a cycle begins with nothing resolved,
  and where it has followed every guest it desires what the guests resolve to, no
  more and no less. These carry `Settles`.

`SyncInvariantHolds` is the invariance; from it follow `NoOrphanHolds`,
`PartialResolutionHolds`, `UnrelatedStaysUntouched`, `OnlyOwnedAreDeleted`,
`DeletionsComeLast`, `RecordIsBorneOut`, `HealthyGuestKeepsRewrite`,
`HealthyGuestIsServed`, `SettlesForGood` and `DryRunChangesNothing`.
`CorruptStateStays` (a damaged file stops every synchronisation that has not read
it, in `Load` or in `Save`) needs the type invariant only. The proofs group the actions
that end a cycle (`Ends`), so that each part of the invariant is one lemma with a
step per remaining action.

`SettlesForGood` is as much of convergence as is safety: a `Save` in a cycle that
followed every guest and that no user interfered with leaves the world `Settled`,
and no step that is `Undisturbed` leads out of that, failures, crashes, lost
responses and starts included. `SettledForEver` is the consequence over
behaviours. What is left to TLC in `Converges` is that such a `Save` comes. That
a settled cycle plans nothing is the lemma `ServedNeedsNoPlan` about `BuildPlan`.

`InstancesProofs`. `InstancesInvariant` says what plans hold (`PlansSound`), that
what an instance has still to change is as it listed it where nobody moved it
(`ListedAsIs`, which carries `RequestsAim`), that what it has changed, or needs
not change, is in place there (`DoneIsInPlace`, which carries
`RestIsKeptAlways`), that domains which are not disturbed have plain entries and
at most one rewrite of the program, in front (`Undisturbed`, which carries
`DuplicatesFromRaces`), and that a rewrite about to leave the record is going to
be deleted (`DroppedIsDeleted`, which carries `OrphansFromRaces`). It holds for
any number of instances and of late requests.

The properties of `Instances` excuse domains that are `disturbed`, so two
theorems say what is left of the excuse where there is no race. With one
synchronisation at a time (`MaxParties` is 1, so that no request is carried out
late either), without edits and without odd spellings to begin with, nothing is ever disturbed: `NoRaceNoOrphan` (every
rewrite of the program is on record or was written by a cycle that did not get to
`Save`, and no domain has two) and `NoRaceNoRefusal` (every update and deletion
names an entry that is there).

`StateStoreProofs`. `StoreInvariant` says what a temporary file holds at each
call (`WriteInProgress`), that every name stands for synced bytes
(`EverythingSynced`) and that a save that must refuse is still reading
(`RefusalAhead`). It gives `StateFileNeverTorn`, `BackupAlwaysDecodes`,
`DamagedFileRefused` and `StoreIsAtomic`, the refinement: each step maps to a
step of `AtomicStore` or leaves its variables alone. `BackupStaysRecent` adds
`BackupLineage`, what the backup and the file are while `undisturbed`: the backup is
the version saved last or the one before, and it is the one saved last from the
moment a save goes on from the backup to the state file. So there is a backup from the second
version on.

`DiscoveryProofs`. The lemmas say what a search returns: `FirstFoundIs` by the
least index, `DescriptionValueIs` by the greatest (both exist by `Extrema`, from
the well-foundedness of the naturals), and from them that each source gives what the declarative reference
says it offers (`DescriptionOffer`, `NetworkOffer`, `AgentOffer`, together
`DiscoverOffer`). `DiscoveryInvariant` adds to the properties that the sources
that had their turn have nothing to offer (`TriedInVain`) and that nothing is
tried before the name is known (`NotSearchedYet`). From it follow
`FirstOfferWinsAlways`, `NobodyGivenUpEarly`, `ExclusionAlwaysPrevails` and, with
`UnusableIsWritten`, `UnusableAlwaysByHand`. `AnswersDecide` adds that a source
offers at most one address (`OfferUnique`), so that the first offer determines
the address: this is what `Sync` relies on when it keeps of a guest only the
address it resolves to.

`NamesProofs`. What a loop computes of a text of any length is proved as an
invariant of its turns. `LoopInv` relates `builder` to the part of `text` already
read: what was written stands at `origin` and every letter was written
(`Written`), no two hyphens follow each other (`SingleHyphens`), a hyphen between
two letters is not lost (`HyphensKept`), and a text that is a label already is
copied (`Copied`). `ReturnInv` is what a call returns from it, with
`LabelsKeepTheLetters`. The rest is about the callers: what the hostname is
(`HostnameInv`), that the labels of the suffix are joined into a domain
(`SuffixInv`), that no letter of the suffix is lost when all parts so far came
out empty (`LettersInv`), that a suffix in its normal form comes back as it was
(`UnchangedInv`), and that a hostname, which is a label, is copied
(`LabelInv`). From it follow `NamesAreServed`, `DomainsAreNormal` and
`LabelsKeepLetters`: the two copies of the loop agree on every name, a domain is
its own normal form, and a label has every letter of its text in order, parted by
a hyphen exactly where the text has hyphens between them. (What is dropped, such as
a blank or a dot, parts nothing: "My App!" becomes "myapp".) The assumptions are `CharacterAssumption` and that inputs
are texts.

`SetupProofs`. `LoadsAsTested` is the lemma about the configuration: for all
answers the wizard can have, `Load` of the rendered file over any environment is
the configuration the wizard tested. Its assumptions on the library are
`TextAssumption` (trimming and lower-casing twice is doing it once),
`LiteralAssumption` (what the fixed values parse to) and `RoundTripAssumption`
(`Atoi` reads what `Itoa` wrote, a joined list splits into its items, and a URL
has no white space in front of the slashes at its end). TLC evaluates them on the
tables of `MCSetup`. The last is a restriction: `collectAnswers` trims white
space once, before the slashes. The invariant relates the file, the environment
and the service to `tested` and `basis`; from it follow `ServiceRunsAsTested`,
`DryUnlessTold`, `ReplacesKnownFiles` and `NoLitter` (no more temporary
files are left than setups were killed and removals failed).

Only model-checked: `Converges`, `ShutdownTerminates` and `OverlapsHeal`, because
liveness is out of the prover's reach (their safety halves are `SettlesForGood`
and `RestIsKeptAlways`), and the three violations.

## 5. What is not modelled

* The `enabled` flag of AdGuard's entries. The planner never reads it, new entries
  are sent without it, and an update or deletion only repeats it in the entry it
  names. What AdGuard Home makes of it there is not in the repository.
* Entries with a blank answer, which the client refuses to name in a request:
  whether AdGuard Home has such entries cannot be known from the repository.
* In `Sync` and `Instances`, a record that goes back to an older version after a
  loss of power (`StateStore` shows that it can).
* In `Setup`, the expansion of the path, the directories `MkdirAll` leaves, and a
  loss of power around the rename.
* HTTP, TLS, JSON, URL resolution and credentials; the parsing of addresses,
  descriptions and network configurations character by character.
* Logging, `version`, output, and the release tooling: formatting, or not part of
  the running program.

## 6. Divergences between the documentation and the code

* `manual`: README.md:69 says that manually created rewrites remain untouched.
  `BuildPlan` plans an update for every desired domain with another answer,
  whoever wrote it (`plan.go:113`). A rewrite made by hand is replaced when a
  guest takes its name. `UnrelatedUntouched` shows what does hold: names that no
  guest can have are never touched.
* `recorded`: README.md:67 says that only a rewrite recorded as owned is deleted
  automatically. Ownership is looked up by domain (`plan.go:127`), and the
  recorded answer is not compared. A user's replacement of an owned rewrite is
  deleted when the guest goes away.
* `interval`: `Load` refuses an interval that is not positive
  (`config.go:225-228`, `config_test.go:152`), but tests the number of seconds
  before it multiplies it (`config.go:231`). A number above 9223372036 that setup
  and `Load` accept can become a negative interval, at which `time.NewTicker`
  panics.

## 7. Plan

Done: the core (`AdGuard`, `Reconcile`, `Sync`), several instances with AdGuard's
list entry by entry, the store with its abstract specification, discovery with
selection, the normalisation of names, configuration and setup; a theorem for
every property of the passing runs that is not liveness.

What would be next:

1. That a step of `Discovery` stays within what `ResolveGuest`,
   `ResolveFromFallback` and `SkipGuest` allow in `Sync`, as a refinement.
   `AnswersDecide` and `NobodyGivenUpEarly` are lemmas for it; what is missing is a
   world that `Discovery` reads its answers from.
2. A record that goes back to an older version in `Instances`.
3. Two domains in `Instances`, when the state space allows; the proofs have any
   number already.

## 8. Running it

    tlc -workers 2 -config MCSync_faults.cfg MCSync
    tlapm SyncProofs.tla

Every other run is the same with its configuration and module from
`PROJECT.json`. With two workers the longest are `instances`, `reach`, `fair` and
`setup`, which take one to three minutes each. Each proof module takes minutes at
most.
