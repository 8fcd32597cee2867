------------------------------ MODULE Selection ------------------------------
(***************************************************************************)
(* Which of the listed guests are looked at: internal/selection/selector.go *)
(* under the FILTER_ variables of internal/config/config.go.               *)
(*                                                                         *)
(* A guest's name is the set of the configured patterns it contains, its   *)
(* tags are compared without regard to case: both are sets here.           *)
(***************************************************************************)
EXTENDS Sequences, FiniteSetsExt

CONSTANTS Patterns,   \* FILTER_INCLUDE_NAMES and FILTER_EXCLUDE_NAMES draw on these
          Tags

GuestTypes == {"qemu", "lxc"}

\* proxmox.Guest, as the filters see it; "identified" stands for a positive
\* VMID with a name and a node.
GuestFacts ==
    [type : GuestTypes, template : BOOLEAN, identified : BOOLEAN,
     running : BOOLEAN, matches : SUBSET Patterns, tags : SUBSET Tags]

\* config.FilterConfig
FilterConfig ==
    [includeTypes : SUBSET GuestTypes, requireRunning : BOOLEAN,
     includeNames : SUBSET Patterns, excludeNames : SUBSET Patterns,
     includeTags  : SUBSET Tags,     excludeTags  : SUBSET Tags]

\* The checks of Evaluate in their order, each with the reason it gives.
Checks(filters, guest) ==
    << [reason |-> "unsupported_type",  hit |-> guest.type \notin filters.includeTypes],
       [reason |-> "template",          hit |-> guest.template],
       [reason |-> "missing_identity",  hit |-> ~guest.identified],
       [reason |-> "not_running",       hit |-> filters.requireRunning /\ ~guest.running],
       [reason |-> "name_not_included",
        hit |-> filters.includeNames # {} /\ guest.matches \cap filters.includeNames = {}],
       [reason |-> "name_excluded",     hit |-> guest.matches \cap filters.excludeNames # {}],
       [reason |-> "tag_not_included",
        hit |-> filters.includeTags # {} /\ guest.tags \cap filters.includeTags = {}],
       [reason |-> "tag_excluded",      hit |-> guest.tags \cap filters.excludeTags # {}] >>

Hits(checks) == {k \in DOMAIN checks : checks[k].hit}

Included == [included |-> TRUE]

Excluded(check) == [included |-> FALSE, reason |-> check.reason]

\* Slip: a guest that is asked for by name or tag is taken at once.
EvaluateIncludedFirst(filters, guest) ==
    LET checks == Checks(filters, guest)
        asked  == \/ guest.matches \cap filters.includeNames # {}
                  \/ guest.tags \cap filters.includeTags # {}
    IN  IF asked \/ Hits(checks) = {} THEN Included ELSE Excluded(checks[Min(Hits(checks))])

\* selection.Result: the first check that hits excludes the guest.
Evaluate(filters, guest) ==
    LET checks == Checks(filters, guest)
    IN  IF Hits(checks) = {} THEN Included ELSE Excluded(checks[Min(Hits(checks))])
=============================================================================
