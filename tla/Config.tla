------------------------------- MODULE Config -------------------------------
(***************************************************************************)
(* internal/config/config.go: the configuration that Load makes of the     *)
(* environment.  An environment gives every variable a text; a variable    *)
(* that is not set reads as the empty text (os.Getenv).                    *)
(*                                                                         *)
(* What the Go library does to a text is left to the constant operators:   *)
(* only what the program does with the outcome is written down here.       *)
(***************************************************************************)
EXTENDS Integers, Sequences

CONSTANTS
    Text,         \* texts: what people type, and what a variable can hold
    Trim(_),      \* strings.TrimSpace
    Lower(_),     \* strings.ToLower
    Unslash(_),   \* strings.TrimRight(_, "/")
    Items(_),     \* the lower-case entries of a comma separated list that are not blank
    BoolOf(_),    \* strconv.ParseBool, or Unparsable
    IntOf(_),     \* strconv.Atoi, or Unparsable
    Unparsable,   \* neither a Boolean nor an integer
    Rejected,     \* Load returns an error
    Second,       \* time.Second, in units of time.Duration
    Limit         \* a time.Duration is an integer in -Limit .. Limit - 1

ASSUME DurationAssumption ==
    /\ Second \in Nat \ {0}
    /\ Limit \in Nat \ {0}
    /\ 60 * Second < Limit

Blank == ""

\* What the proofs need to know of the library.
ASSUME TextAssumption ==
    /\ Blank \in Text /\ Trim(Blank) = Blank /\ Items(Blank) = <<>>
    /\ \A t \in Text :
          /\ {Trim(t), Lower(t), Unslash(t)} \subseteq Text
          /\ Trim(Trim(t)) = Trim(t)
          /\ Lower(Lower(t)) = Lower(t)
          /\ Unslash(Unslash(t)) = Unslash(t)
          /\ Lower(t) = Blank => t = Blank
          /\ Trim(t) = t => Trim(Lower(t)) = Lower(t)
          /\ IntOf(t) \in Int \cup {Unparsable}
          /\ BoolOf(t) \in BOOLEAN \cup {Unparsable}

ASSUME UnparsableAssumption == Unparsable \notin Text \cup Int \cup BOOLEAN

Vars ==
    {"PROXMOX_BASE_URL", "PROXMOX_URL", "PROXMOX_TOKEN_ID", "PROXMOX_TOKEN_SECRET",
     "PROXMOX_VERIFY_TLS", "ADGUARD_BASE_URL", "ADGUARD_URL", "ADGUARD_USERNAME",
     "ADGUARD_PASSWORD", "DNS_SUFFIX", "STATE_FILE", "DRY_RUN", "LOG_LEVEL",
     "LOG_FORMAT", "LOG_JSON", "FILTER_INCLUDE_TYPES", "FILTER_REQUIRE_RUNNING",
     "FILTER_INCLUDE_TAGS", "FILTER_EXCLUDE_TAGS", "FILTER_INCLUDE_NAMES",
     "FILTER_EXCLUDE_NAMES", "DISCOVERY_VM_ORDER", "VM_DISCOVERY_ORDER",
     "DISCOVERY_LXC_ORDER", "LXC_DISCOVERY_ORDER", "DESCRIPTION_IP_KEYS",
     "DESCRIPTION_NAME_KEYS", "SYNC_INTERVAL_SECONDS"}

Unset == [v \in Vars |-> Blank]

-----------------------------------------------------------------------------
(* Reading one setting. *)

\* The name in use, or the one it had before.
FirstSet(env, name, legacy) == IF Trim(env[name]) # Blank THEN name ELSE legacy

environmentFirst(env, name, legacy) ==
    Unslash(Trim(env[FirstSet(env, name, legacy)]))

environmentStringOrDefault(env, name, default) ==
    IF Trim(env[name]) = Blank THEN default ELSE Trim(env[name])

environmentOrDefault(env, name, default) ==
    IF Trim(env[name]) = Blank THEN default ELSE Lower(Trim(env[name]))

environmentBool(env, name, default) ==
    IF Trim(env[name]) = Blank THEN default ELSE BoolOf(Trim(env[name]))

environmentCSVFirst(env, name, legacy, default) ==
    LET value == Trim(env[FirstSet(env, name, legacy)])
    IN  IF value = Blank THEN default ELSE Items(value)

environmentCSV(env, name, default) == environmentCSVFirst(env, name, name, default)

\* LOG_JSON counts only where LOG_FORMAT is not set.
loadLogFormat(env) ==
    IF Trim(env.LOG_FORMAT) # Blank
      THEN Lower(Trim(env.LOG_FORMAT))
      ELSE LET logJSON == environmentBool(env, "LOG_JSON", FALSE)
           IN  IF logJSON = Unparsable THEN Unparsable
               ELSE IF logJSON THEN "json" ELSE "text"

\* The product of two durations, in the width of one.
Wrapped(n) == ((n + Limit) % (2 * Limit)) - Limit

Duration(seconds) == Wrapped(seconds * Second)

SyncInterval(env) ==
    LET text    == Trim(env.SYNC_INTERVAL_SECONDS)
        seconds == IntOf(text)
    IN  CASE text = Blank             -> Duration(60)
          [] seconds = Unparsable  -> Unparsable
          [] OTHER -> IF seconds <= 0 THEN Unparsable ELSE Duration(seconds)

-----------------------------------------------------------------------------
(* The configuration as a whole. *)

VMOrder == <<"guest-agent", "description", "cloudinit">>
LXCOrder == <<"config", "description">>

ValuesIn(list) == {list[i] : i \in DOMAIN list}

Validate(cfg) ==
    /\ Blank \notin {cfg.proxmoxURL, cfg.tokenID, cfg.tokenSecret,
                  cfg.adGuardURL, cfg.username, cfg.password}
    /\ Trim(cfg.suffix) # Blank
    /\ Trim(cfg.stateFile) # Blank
    /\ cfg.logLevel \in {"debug", "info", "warn", "warning", "error"}
    /\ cfg.logFormat \in {"text", "json"}
    /\ ValuesIn(cfg.includeTypes) \subseteq {"qemu", "lxc"}
    /\ ValuesIn(cfg.vmOrder) \subseteq ValuesIn(VMOrder)
    /\ ValuesIn(cfg.lxcOrder) \subseteq ValuesIn(LXCOrder)

\* Slip: a service that is not told otherwise changes AdGuard Home.
liveByDefault == FALSE

defaultDryRun == TRUE

Read(env) ==
    [proxmoxURL     |-> environmentFirst(env, "PROXMOX_BASE_URL", "PROXMOX_URL"),
     tokenID        |-> Trim(env.PROXMOX_TOKEN_ID),
     tokenSecret    |-> Trim(env.PROXMOX_TOKEN_SECRET),
     verifyTLS      |-> environmentBool(env, "PROXMOX_VERIFY_TLS", TRUE),
     adGuardURL     |-> environmentFirst(env, "ADGUARD_BASE_URL", "ADGUARD_URL"),
     username       |-> Trim(env.ADGUARD_USERNAME),
     password       |-> Trim(env.ADGUARD_PASSWORD),
     suffix         |-> environmentOrDefault(env, "DNS_SUFFIX", "internal"),
     stateFile      |-> environmentStringOrDefault(env, "STATE_FILE", "./data/state.json"),
     dryRun         |-> environmentBool(env, "DRY_RUN", defaultDryRun),
     logLevel       |-> environmentOrDefault(env, "LOG_LEVEL", "info"),
     logFormat      |-> loadLogFormat(env),
     includeTypes   |-> environmentCSV(env, "FILTER_INCLUDE_TYPES", <<"qemu", "lxc">>),
     requireRunning |-> environmentBool(env, "FILTER_REQUIRE_RUNNING", FALSE),
     includeTags    |-> environmentCSV(env, "FILTER_INCLUDE_TAGS", <<>>),
     excludeTags    |-> environmentCSV(env, "FILTER_EXCLUDE_TAGS", <<>>),
     includeNames   |-> environmentCSV(env, "FILTER_INCLUDE_NAMES", <<>>),
     excludeNames   |-> environmentCSV(env, "FILTER_EXCLUDE_NAMES", <<>>),
     vmOrder        |-> environmentCSVFirst(env, "DISCOVERY_VM_ORDER", "VM_DISCOVERY_ORDER", VMOrder),
     lxcOrder       |-> environmentCSVFirst(env, "DISCOVERY_LXC_ORDER", "LXC_DISCOVERY_ORDER", LXCOrder),
     ipKeys         |-> environmentCSV(env, "DESCRIPTION_IP_KEYS", <<"dns_ip", "ip">>),
     nameKeys       |-> environmentCSV(env, "DESCRIPTION_NAME_KEYS", <<"dns_name", "name">>),
     interval       |-> SyncInterval(env)]

Load(env) ==
    LET cfg == Read(env)
    IN  IF \/ Unparsable \in {cfg.verifyTLS, cfg.dryRun, cfg.requireRunning}
           \/ cfg.logFormat = Unparsable
           \/ cfg.interval = Unparsable
           \/ ~Validate(cfg)
          THEN Rejected
          ELSE cfg
=============================================================================
