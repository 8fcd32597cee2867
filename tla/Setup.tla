-------------------------------- MODULE Setup --------------------------------
(***************************************************************************)
(* A terminal in which the program is run: the setup wizard                *)
(* (cmd/proxmox-adguard-sync/setup.go) asks its questions, tests the       *)
(* connections and puts an environment file in place; the user edits the   *)
(* file, loads it into the shell and starts the service, which reads its   *)
(* configuration (module Config) of the shell's environment.               *)
(*                                                                         *)
(* There is one configuration file.  An environment file is the assignment *)
(* the shell makes of it: writeEnvironmentValue quotes a value so that the *)
(* shell reads the same text back.                                         *)
(***************************************************************************)
EXTENDS Config

CONSTANTS
    Itoa(_),      \* strconv.Itoa
    Joined(_),    \* strings.Join(_, ",")
    Lines(_),     \* the lines a user may type at a question
    Ambients,     \* the environments a shell may have to begin with
    HandWritten,  \* the assignments a user may write into the file
    Env,          \* events: "fault", "kill", "remove"
    Absent,       \* there is no such file
    None,         \* no configuration
    NoReply,      \* the line is no answer: the question is asked again
    MaxKills, MaxEdits, MaxUnremoved

(* What the wizard asks. *)

Topics == {"overwrite", "write", "proxmoxURL", "tokenID", "tokenSecret",
           "verifyTLS", "adGuardURL", "username", "password", "suffix",
           "requireRunning", "excludeTags", "seconds", "stateFile"}

Open(topic, default, required) ==
    [topic |-> topic, kind |-> "string", default |-> default, required |-> required]

YesNo(topic, default) ==
    [topic |-> topic, kind |-> "bool", default |-> default, required |-> TRUE]

Positive(topic, default) ==
    [topic |-> topic, kind |-> "integer", default |-> default, required |-> TRUE]

\* A secret is asked for like a text that is required and has no default.
Questions ==
    << Open("proxmoxURL", Blank, TRUE),       Open("tokenID", Blank, TRUE),
       Open("tokenSecret", Blank, TRUE),      YesNo("verifyTLS", TRUE),
       Open("adGuardURL", Blank, TRUE),       Open("username", Blank, TRUE),
       Open("password", Blank, TRUE),         Open("suffix", "internal", TRUE),
       YesNo("requireRunning", FALSE),     Open("excludeTags", Blank, FALSE),
       Positive("seconds", 60),            Open("stateFile", "./data/state.json", TRUE) >>

ASSUME BoundAssumption ==
    MaxKills \in Nat /\ MaxEdits \in Nat /\ MaxUnremoved \in Nat

ASSUME SetupAssumption ==
    /\ Ambients \subseteq [Vars -> Text]
    /\ \A assigned \in HandWritten :
          DOMAIN assigned \subseteq Vars /\ \A v \in DOMAIN assigned : assigned[v] \in Text
    /\ \A topic \in Topics : Lines(topic) \subseteq Text
    /\ NoReply \notin Text \cup Int \cup BOOLEAN

\* The lists that are the same in every file setup writes.
GuestTypesLine == "qemu,lxc"
VMOrderLine == "guest-agent,description,cloudinit"
LXCOrderLine == "config,description"
IPKeysLine == "dns_ip,ip"
NameKeysLine == "dns_name,name"

\* They and the other fixed values.
Literals ==
    {GuestTypesLine, VMOrderLine, LXCOrderLine, IPKeysLine, NameKeysLine,
     "true", "false", "info", "text", "internal", "./data/state.json"}

ASSUME LiteralAssumption ==
    /\ Literals \subseteq Text \ {Blank}
    /\ \A t \in Literals : Trim(t) = t /\ Lower(t) = t
    /\ BoolOf("true") = TRUE /\ BoolOf("false") = FALSE
    /\ Items(GuestTypesLine) = <<"qemu", "lxc">>
    /\ Items(VMOrderLine) = VMOrder
    /\ Items(LXCOrderLine) = LXCOrder
    /\ Items(IPKeysLine) = <<"dns_ip", "ip">>
    /\ Items(NameKeysLine) = <<"dns_name", "name">>

\* The numbers of seconds that can be answered.
Seconds == {60} \cup {n \in {IntOf(t) : t \in Text} : n # Unparsable /\ n > 0}

\* What is written can be read back.  A URL has no white space in front of the
\* slashes at its end.
ASSUME RoundTripAssumption ==
    /\ \A n \in Seconds :
          /\ Itoa(n) \in Text \ {Blank}
          /\ Trim(Itoa(n)) = Itoa(n)
          /\ IntOf(Itoa(n)) = n
    /\ \A t \in Text :
          /\ Joined(Items(t)) \in Text
          /\ Trim(Joined(Items(t))) = Joined(Items(t))
          /\ Items(Joined(Items(t))) = Items(t)
          /\ Trim(Unslash(Trim(t))) = Unslash(Trim(t))

VARIABLES
    env,       \* the environment of the shell
    file,      \* the configuration file: what it assigns, or Absent
    pc,        \* where the program is, "shell" while it is not running
    asked,     \* the question of the wizard that is being asked
    answers,   \* the answers the wizard has so far
    temp,      \* the wizard's temporary file: "none", "empty" or "whole"
    status,    \* the exit status of the last command
    service,   \* the configuration the service runs with, or None
    confirmed, \* history: the user agreed to overwrite the file
    arrived,   \* history: the file came into being after the wizard looked
    tested,    \* history: the configuration tested for the file, or None
    basis,     \* history: what was tested for the file the shell loaded last
    liveByHand,\* history: a user wrote that the service is not to be dry
    kills, edits, \* history: how often setup was killed, the file edited
    litter,    \* history: temporary files left behind
    unremoved  \* history: removals of a temporary file that failed

vars == <<env, file, pc, asked, answers, temp, status, service,
          confirmed, arrived, tested, basis, liveByHand, kills, edits,
          litter, unremoved>>

wizard  == <<asked, answers, temp, confirmed, arrived, litter, unremoved>>
outside == <<env, basis, liveByHand, kills, edits>>

-----------------------------------------------------------------------------
(* Lines and answers. *)

promptString(question, line) ==
    LET value == IF Trim(line) = Blank THEN question.default ELSE Trim(line)
    IN  IF question.required /\ value = Blank THEN NoReply ELSE value

promptBool(question, line) ==
    LET word == Lower(Trim(line))
    IN  CASE word = Blank                           -> question.default
          [] word \in {"y", "yes", "true", "1"}  -> TRUE
          [] word \in {"n", "no", "false", "0"}  -> FALSE
          [] OTHER                               -> NoReply

\* Slip: zero is taken for a positive number.
promptNaturalNumber(question, line) ==
    LET number == IntOf(Trim(line))
    IN  CASE Trim(line) = Blank      -> question.default
          [] number = Unparsable  -> NoReply
          [] OTHER -> IF number < 0 THEN NoReply ELSE number

promptPositiveInteger(question, line) ==
    LET number == IntOf(Trim(line))
    IN  CASE Trim(line) = Blank      -> question.default
          [] number = Unparsable  -> NoReply
          [] OTHER -> IF number <= 0 THEN NoReply ELSE number

Reply(question, line) ==
    CASE question.kind = "string"  -> promptString(question, line)
      [] question.kind = "bool"    -> promptBool(question, line)
      [] question.kind = "integer" -> promptPositiveInteger(question, line)

\* What collectAnswers makes of the reply to a question.
Collected(topic, reply) ==
    CASE topic \in {"proxmoxURL", "adGuardURL"} -> Unslash(Trim(reply))
      [] topic = "suffix"                       -> Lower(Trim(reply))
      [] topic = "excludeTags"                  -> Joined(Items(reply))
      [] OTHER                                  -> reply

AnswerTopics == Topics \ {"overwrite", "write"}

NoAnswers == [topic \in AnswerTopics |-> NoReply]

setupAnswersToConfig(given) ==
    [proxmoxURL     |-> given.proxmoxURL,
     tokenID        |-> given.tokenID,
     tokenSecret    |-> given.tokenSecret,
     verifyTLS      |-> given.verifyTLS,
     adGuardURL     |-> given.adGuardURL,
     username       |-> given.username,
     password       |-> given.password,
     suffix         |-> given.suffix,
     stateFile      |-> given.stateFile,
     dryRun         |-> TRUE,
     logLevel       |-> "info",
     logFormat      |-> "text",
     includeTypes   |-> <<"qemu", "lxc">>,
     requireRunning |-> given.requireRunning,
     includeTags    |-> <<>>,
     excludeTags    |-> Items(given.excludeTags),
     includeNames   |-> <<>>,
     excludeNames   |-> <<>>,
     vmOrder        |-> VMOrder,
     lxcOrder       |-> LXCOrder,
     ipKeys         |-> <<"dns_ip", "ip">>,
     nameKeys       |-> <<"dns_name", "name">>,
     interval       |-> Duration(given.seconds)]

FormatBool(b) == IF b THEN "true" ELSE "false"

\* Slip: a value that is blank is not worth a line.
writtenUnlessBlank(values) ==
    [v \in {name \in DOMAIN values : values[name] # Blank} |-> values[v]]

writeEnvironmentValue(values) == values

renderSetupEnvironmentFile(given) == writeEnvironmentValue(
    [PROXMOX_BASE_URL       |-> given.proxmoxURL,
     PROXMOX_TOKEN_ID       |-> given.tokenID,
     PROXMOX_TOKEN_SECRET   |-> given.tokenSecret,
     PROXMOX_VERIFY_TLS     |-> FormatBool(given.verifyTLS),
     ADGUARD_BASE_URL       |-> given.adGuardURL,
     ADGUARD_USERNAME       |-> given.username,
     ADGUARD_PASSWORD       |-> given.password,
     DNS_SUFFIX             |-> given.suffix,
     STATE_FILE             |-> given.stateFile,
     DRY_RUN                |-> FormatBool(TRUE),
     FILTER_INCLUDE_TYPES   |-> GuestTypesLine,
     FILTER_REQUIRE_RUNNING |-> FormatBool(given.requireRunning),
     FILTER_INCLUDE_TAGS    |-> Blank,
     FILTER_EXCLUDE_TAGS    |-> given.excludeTags,
     FILTER_INCLUDE_NAMES   |-> Blank,
     FILTER_EXCLUDE_NAMES   |-> Blank,
     DISCOVERY_VM_ORDER     |-> VMOrderLine,
     DISCOVERY_LXC_ORDER    |-> LXCOrderLine,
     DESCRIPTION_IP_KEYS    |-> IPKeysLine,
     DESCRIPTION_NAME_KEYS  |-> NameKeysLine,
     SYNC_INTERVAL_SECONDS  |-> Itoa(given.seconds),
     LOG_LEVEL              |-> "info",
     LOG_FORMAT             |-> "text"])

\* The values, with what is assigned put in their place.
Over(assigned, values) ==
    [v \in DOMAIN assigned \cup DOMAIN values |->
        IF v \in DOMAIN assigned THEN assigned[v] ELSE values[v]]

NoAssignments == [v \in {} |-> Blank]

-----------------------------------------------------------------------------
(* Commands that come and go without changing anything. *)

Init ==
    /\ env \in Ambients
    /\ file = Absent
    /\ pc = "shell"
    /\ asked = 0
    /\ answers = NoAnswers
    /\ temp = "none"
    /\ status = 0
    /\ service = None
    /\ confirmed = FALSE
    /\ arrived = FALSE
    /\ tested = None
    /\ basis = None
    /\ liveByHand = (BoolOf(Trim(env.DRY_RUN)) = FALSE)
    /\ kills = 0
    /\ litter = 0
    /\ unremoved = 0
    /\ edits = 0

\* main.go: an error of a command, or of run, is the exit status 1.
Exit(code) == pc' = "shell" /\ status' = code

HelpOrVersion ==
    /\ pc = "shell"
    /\ Exit(0)
    /\ UNCHANGED <<file, service, tested, wizard, outside>>

WrongArguments ==
    /\ pc = "shell"
    /\ Exit(1)
    /\ UNCHANGED <<file, service, tested, wizard, outside>>

\* There is a configuration, and NewClient refuses neither of its URLs.
Connects(cfg) ==
    /\ cfg # Rejected
    /\ Unslash(Trim(cfg.proxmoxURL)) # Blank
    /\ Unslash(Trim(cfg.adGuardURL)) # Blank

runValidation ==
    /\ pc = "shell"
    /\ \/ Connects(Load(env)) /\ Exit(0)
       \/ (~Connects(Load(env)) \/ "fault" \in Env) /\ Exit(1)
    /\ UNCHANGED <<file, service, tested, wizard, outside>>

-----------------------------------------------------------------------------
(* The wizard. *)

litterLeft ==
    /\ temp' = "none"
    /\ litter' = litter + (IF temp = "none" THEN 0 ELSE 1)
    /\ UNCHANGED unremoved

\* The deferred function of writeSetupEnvironmentFile removes the temporary
\* file if it is still there, and does not look whether that failed.
removeTemporaryFile ==
    /\ temp' = "none"
    /\ \/ UNCHANGED <<litter, unremoved>>
       \/ /\ temp # "none"
          /\ "fault" \in Env
          /\ unremoved < MaxUnremoved
          /\ litter' = litter + 1
          /\ unremoved' = unremoved + 1

\* runSetup returns: what it knew is gone.
Leave(code) ==
    /\ Exit(code)
    /\ asked' = 0
    /\ answers' = NoAnswers
    /\ confirmed' = FALSE
    /\ arrived' = FALSE
    /\ removeTemporaryFile

runSetup ==
    /\ pc = "shell"
    /\ pc' = "path"
    /\ UNCHANGED <<file, status, service, tested, wizard, outside>>

\* Slip: whatever is at the path is none of the wizard's business.
confirmNothing ==
    /\ pc = "path"
    /\ pc' = "ask"
    /\ asked' = 1
    /\ UNCHANGED <<file, status, service, tested, answers, temp, confirmed, arrived,
                   litter, unremoved, outside>>

\* The path is given, and the wizard looks for a file there.
confirmOverwrite ==
    /\ pc = "path"
    /\ IF file = Absent
         THEN pc' = "ask" /\ asked' = 1
         ELSE pc' = "overwrite" /\ UNCHANGED asked
    /\ UNCHANGED <<file, status, service, tested, answers, temp, confirmed, arrived,
                   litter, unremoved, outside>>

Overwrite(line) ==
    /\ pc = "overwrite"
    /\ promptBool(YesNo("overwrite", FALSE), line) = TRUE
    /\ pc' = "ask"
    /\ asked' = 1
    /\ confirmed' = TRUE
    /\ UNCHANGED <<file, status, service, tested, answers, temp, arrived, litter,
                   unremoved, outside>>

collectAnswer(line) ==
    LET question == Questions[asked]
        reply    == Reply(question, line)
    IN  /\ pc = "ask"
        /\ reply # NoReply
        /\ answers' = [answers EXCEPT ![question.topic] = Collected(question.topic, reply)]
        /\ IF asked < Len(Questions)
             THEN asked' = asked + 1 /\ UNCHANGED pc
             ELSE asked' = 0 /\ pc' = "test"
        /\ UNCHANGED <<file, status, service, tested, temp, confirmed, arrived, litter,
                       unremoved, outside>>

testConnections ==
    /\ pc = "test"
    /\ Connects(setupAnswersToConfig(answers))
    /\ pc' = "write"
    /\ UNCHANGED <<file, status, service, tested, wizard, outside>>

Write(line) ==
    /\ pc = "write"
    /\ promptBool(YesNo("write", TRUE), line) = TRUE
    /\ pc' = "create"
    /\ UNCHANGED <<file, status, service, tested, wizard, outside>>

CreateTemp ==
    /\ pc = "create"
    /\ pc' = "fill"
    /\ temp' = "empty"
    /\ UNCHANGED <<file, status, service, tested, asked, answers, confirmed, arrived,
                   litter, unremoved, outside>>

FillTemp ==
    /\ pc = "fill"
    /\ pc' = "rename"
    /\ temp' = "whole"
    /\ UNCHANGED <<file, status, service, tested, asked, answers, confirmed, arrived,
                   litter, unremoved, outside>>

Rename ==
    /\ pc = "rename"
    /\ pc' = "chmod"
    /\ file' = renderSetupEnvironmentFile(answers)
    /\ tested' = setupAnswersToConfig(answers)
    /\ temp' = "none"
    /\ UNCHANGED <<status, service, asked, answers, confirmed, arrived, litter,
                   unremoved, outside>>

Finish ==
    /\ pc = "chmod"
    /\ Leave(0)
    /\ UNCHANGED <<file, service, tested, outside>>

\* The input ends, the user declines, a connection is refused, or a call of
\* the file system fails; at "chmod" the new file is in place already.
Fail ==
    /\ \/ pc \in {"path", "overwrite", "ask", "write"}
       \/ pc = "test" /\ ~Connects(setupAnswersToConfig(answers))
       \/ pc \in {"path", "test", "create", "fill", "rename", "chmod"} /\ "fault" \in Env
    /\ Leave(1)
    /\ UNCHANGED <<file, service, tested, outside>>

-----------------------------------------------------------------------------
(* The shell, the service, and what else happens to the file. *)

\* set -a && source file && set +a
Source ==
    /\ pc = "shell"
    /\ file # Absent
    /\ env' = Over(file, env)
    /\ basis' = tested
    /\ UNCHANGED <<file, pc, status, service, tested, liveByHand, kills, edits, wizard>>

\* run, up to runLoop
run ==
    /\ pc = "shell"
    /\ \/ /\ Connects(Load(env))
          /\ pc' = "serve"
          /\ service' = Load(env)
          /\ UNCHANGED status
       \/ /\ ~Connects(Load(env)) \/ "fault" \in Env
          /\ Exit(1)
          /\ UNCHANGED service
    /\ UNCHANGED <<file, tested, wizard, outside>>

\* The service is told to end, or has no ticker: NewTicker panics when the
\* interval is not positive.
ServiceEnds ==
    /\ pc = "serve"
    /\ Exit(IF service.interval > 0 THEN 0 ELSE 2)
    /\ service' = None
    /\ UNCHANGED <<file, tested, wizard, outside>>

\* Others write lines into the file, or make it.
HandEdit(assigned) ==
    /\ edits < MaxEdits
    /\ edits' = edits + 1
    /\ file' = Over(assigned, IF file = Absent THEN NoAssignments ELSE file)
    /\ tested' = None
    /\ arrived' = (arrived \/ (file = Absent /\ pc \notin {"shell", "path", "serve"}))
    /\ liveByHand' = (liveByHand \/ ( /\ "DRY_RUN" \in DOMAIN assigned
                                      /\ BoolOf(Trim(assigned.DRY_RUN)) = FALSE ))
    /\ UNCHANGED <<env, pc, asked, answers, temp, status, service, confirmed, basis,
                   kills,
                   litter, unremoved>>

Remove ==
    /\ "remove" \in Env
    /\ file # Absent
    /\ file' = Absent
    /\ tested' = None
    /\ UNCHANGED <<pc, status, service, wizard, outside>>

Kill ==
    /\ pc # "shell"
    /\ kills < MaxKills
    /\ kills' = kills + 1
    /\ pc' = "shell"
    /\ status' = 137
    /\ asked' = 0
    /\ answers' = NoAnswers
    /\ confirmed' = FALSE
    /\ arrived' = FALSE
    /\ litterLeft
    /\ service' = None
    /\ UNCHANGED <<env, file, tested, basis, liveByHand, edits>>

Next ==
    \/ HelpOrVersion \/ WrongArguments \/ runValidation
    \/ runSetup \/ confirmOverwrite
    \/ \E line \in Lines("overwrite") : Overwrite(line)
    \/ \E line \in (IF pc = "ask" THEN Lines(Questions[asked].topic) ELSE {}) :
          collectAnswer(line)
    \/ testConnections
    \/ \E line \in Lines("write") : Write(line)
    \/ CreateTemp \/ FillTemp \/ Rename \/ Finish \/ Fail
    \/ Source \/ run \/ ServiceEnds
    \/ \E assigned \in HandWritten : HandEdit(assigned)
    \/ Remove \/ Kill

Spec == Init /\ [][Next]_vars

-----------------------------------------------------------------------------
(* Properties. *)

\* The answers that collectAnswers can have for a question.
Trimmed == {t \in Text : Trim(t) = t}

Kept(topic) ==
    CASE topic \in {"verifyTLS", "requireRunning"} -> BOOLEAN
      [] topic = "seconds"                         -> Seconds
      [] topic \in {"proxmoxURL", "adGuardURL"}    -> {t \in Trimmed : Unslash(t) = t}
      [] topic = "suffix"                          -> {t \in Trimmed \ {Blank} : Lower(t) = t}
      [] topic = "excludeTags"                     -> {Joined(Items(t)) : t \in Text}
      [] OTHER                                     -> Trimmed \ {Blank}

AnswersOK ==
    /\ DOMAIN answers = AnswerTopics
    /\ \A topic \in AnswerTopics :
          answers[topic] = NoReply \/ answers[topic] \in Kept(topic)

\* Every variable keeps its type, and the wizard is at a question exactly
\* while it asks.
TypeOK ==
    /\ DOMAIN env = Vars /\ \A v \in Vars : env[v] \in Text
    /\ file # Absent =>
          DOMAIN file \subseteq Vars /\ \A v \in DOMAIN file : file[v] \in Text
    /\ pc \in {"shell", "path", "overwrite", "ask", "test", "write", "create",
               "fill", "rename", "chmod", "serve"}
    /\ asked \in 0 .. Len(Questions)
    /\ pc = "ask" <=> asked > 0
    /\ AnswersOK
    /\ temp \in {"none", "empty", "whole"}
    /\ status \in {0, 1, 2, 137}
    /\ pc # "serve" => service = None
    /\ confirmed \in BOOLEAN /\ arrived \in BOOLEAN /\ liveByHand \in BOOLEAN
    /\ kills \in 0 .. MaxKills
    /\ litter \in Nat
    /\ unremoved \in 0 .. MaxUnremoved
    /\ edits \in 0 .. MaxEdits

\* A shell that has loaded a file as setup left it configures the service with
\* exactly what setup tested, dry run included, whatever stale or broken
\* variables the shell had before (setup.go:396 and :902, config.go:79).
ServesWhatWasTested ==
    basis # None =>
        /\ Load(env) = basis
        /\ pc = "serve" => service = basis

\* A service that changes AdGuard Home was told to by a person: the program
\* never turns the dry run off by itself (config.go:88, setup.go:324).
LiveOnlyByHand ==
    pc = "serve" /\ ~service.dryRun => liveByHand

\* setup replaces a file it was not allowed to overwrite only when the file
\* came into being after it had looked (setup.go:489, :877).
ReplacesOnlyTheUnseen ==
    [][pc = "rename" /\ pc' = "chmod" /\ file # Absent => confirmed \/ arrived]_vars

\* A temporary file, which may hold the secrets, is left behind only by a setup
\* that was killed or whose removal of it failed: every other way out, by a
\* failing call at any point or by success, leaves none (setup.go:839-847).
LitterAccountedFor ==
    litter <= kills + unremoved

\* A service that runs has an interval it can run at (config.go:225).
IntervalPositive ==
    pc = "serve" => service.interval > 0
=============================================================================
