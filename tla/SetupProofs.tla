----------------------------- MODULE SetupProofs -----------------------------
(***************************************************************************)
(* What holds of Setup whatever the library makes of the texts, as long as *)
(* its assumptions are met: for every line that can be typed, every file   *)
(* and every shell.                                                        *)
(***************************************************************************)
EXTENDS Setup, TLAPS

\* Answers the wizard can write into a file.
Usable(given) ==
    /\ DOMAIN given = AnswerTopics
    /\ \A topic \in AnswerTopics : given[topic] \in Kept(topic)
    /\ given.proxmoxURL # Blank
    /\ given.adGuardURL # Blank

\* What the answers are, one by one.
LEMMA UsableAnswers ==
    ASSUME NEW given, Usable(given)
    PROVE  /\ given.proxmoxURL \in Text \ {Blank}
           /\ Trim(given.proxmoxURL) = given.proxmoxURL
           /\ Unslash(given.proxmoxURL) = given.proxmoxURL
           /\ given.adGuardURL \in Text \ {Blank}
           /\ Trim(given.adGuardURL) = given.adGuardURL
           /\ Unslash(given.adGuardURL) = given.adGuardURL
           /\ given.tokenID \in Trimmed \ {Blank}
           /\ given.tokenSecret \in Trimmed \ {Blank}
           /\ given.username \in Trimmed \ {Blank}
           /\ given.password \in Trimmed \ {Blank}
           /\ given.stateFile \in Trimmed \ {Blank}
           /\ given.suffix \in Trimmed \ {Blank}
           /\ Lower(given.suffix) = given.suffix
           /\ given.verifyTLS \in BOOLEAN
           /\ given.requireRunning \in BOOLEAN
           /\ given.seconds \in Seconds
           /\ given.excludeTags \in {Joined(Items(t)) : t \in Text}
<1> DEFINE Is(topic) == given[topic] \in Kept(topic)
<1>1. \A topic \in AnswerTopics : Is(topic)
  BY DEF Usable
<1>2. /\ Is("proxmoxURL") /\ Is("adGuardURL") /\ Is("tokenID") /\ Is("tokenSecret")
      /\ Is("username") /\ Is("password") /\ Is("stateFile") /\ Is("suffix")
      /\ Is("verifyTLS") /\ Is("requireRunning") /\ Is("seconds") /\ Is("excludeTags")
  BY <1>1 DEF AnswerTopics, Topics
<1> QED
  BY <1>2 DEF Kept, Trimmed, Usable

\* A service that reads what setup wrote is configured as setup tested it,
\* whatever else is in the environment.
LEMMA LoadsAsTested ==
    ASSUME NEW given, Usable(given), NEW e, DOMAIN e = Vars
    PROVE  Load(Over(renderSetupEnvironmentFile(given), e)) = setupAnswersToConfig(given)
<1> USE TextAssumption, UnparsableAssumption, LiteralAssumption, RoundTripAssumption
<1> DEFINE E == Over(renderSetupEnvironmentFile(given), e)
           T == setupAnswersToConfig(given)
<1>1. /\ E.PROXMOX_BASE_URL = given.proxmoxURL
      /\ E.PROXMOX_TOKEN_ID = given.tokenID
      /\ E.PROXMOX_TOKEN_SECRET = given.tokenSecret
      /\ E.PROXMOX_VERIFY_TLS = FormatBool(given.verifyTLS)
      /\ E.ADGUARD_BASE_URL = given.adGuardURL
      /\ E.ADGUARD_USERNAME = given.username
      /\ E.ADGUARD_PASSWORD = given.password
      /\ E.DNS_SUFFIX = given.suffix
      /\ E.STATE_FILE = given.stateFile
      /\ E.DRY_RUN = "true"
      /\ E.FILTER_INCLUDE_TYPES = GuestTypesLine
      /\ E.FILTER_REQUIRE_RUNNING = FormatBool(given.requireRunning)
      /\ E.FILTER_INCLUDE_TAGS = Blank
      /\ E.FILTER_EXCLUDE_TAGS = given.excludeTags
      /\ E.FILTER_INCLUDE_NAMES = Blank
      /\ E.FILTER_EXCLUDE_NAMES = Blank
      /\ E.DISCOVERY_VM_ORDER = VMOrderLine
      /\ E.DISCOVERY_LXC_ORDER = LXCOrderLine
      /\ E.DESCRIPTION_IP_KEYS = IPKeysLine
      /\ E.DESCRIPTION_NAME_KEYS = NameKeysLine
      /\ E.SYNC_INTERVAL_SECONDS = Itoa(given.seconds)
      /\ E.LOG_LEVEL = "info"
      /\ E.LOG_FORMAT = "text"
  BY DEF Over, renderSetupEnvironmentFile, writeEnvironmentValue, FormatBool
<1> HIDE DEF E
<1>2. /\ environmentFirst(E, "PROXMOX_BASE_URL", "PROXMOX_URL") = given.proxmoxURL
      /\ environmentFirst(E, "ADGUARD_BASE_URL", "ADGUARD_URL") = given.adGuardURL
  BY <1>1, UsableAnswers DEF environmentFirst, FirstSet
<1>3. /\ Trim(E.PROXMOX_TOKEN_ID) = given.tokenID
      /\ Trim(E.PROXMOX_TOKEN_SECRET) = given.tokenSecret
      /\ Trim(E.ADGUARD_USERNAME) = given.username
      /\ Trim(E.ADGUARD_PASSWORD) = given.password
  BY <1>1, UsableAnswers DEF Trimmed
<1>4. /\ environmentOrDefault(E, "DNS_SUFFIX", "internal") = given.suffix
      /\ environmentStringOrDefault(E, "STATE_FILE", "./data/state.json") = given.stateFile
  BY <1>1, UsableAnswers DEF environmentOrDefault, environmentStringOrDefault, Trimmed
<1>5. /\ environmentOrDefault(E, "LOG_LEVEL", "info") = "info"
      /\ loadLogFormat(E) = "text"
  <2>1. /\ Trim(E.LOG_LEVEL) = "info" /\ Lower("info") = "info" /\ "info" # Blank
        /\ Trim(E.LOG_FORMAT) = "text" /\ Lower("text") = "text" /\ "text" # Blank
    BY <1>1 DEF Literals
  <2>2. environmentOrDefault(E, "LOG_LEVEL", "info") = "info"
    BY <2>1 DEF environmentOrDefault
  <2>3. loadLogFormat(E) = "text"
    BY <2>1, Zenon DEF loadLogFormat
  <2> QED
    BY <2>2, <2>3
<1>6. /\ environmentBool(E, "PROXMOX_VERIFY_TLS", TRUE) = given.verifyTLS
      /\ environmentBool(E, "FILTER_REQUIRE_RUNNING", FALSE) = given.requireRunning
      /\ environmentBool(E, "DRY_RUN", defaultDryRun) = TRUE
  <2>1. /\ Trim("true") = "true" /\ "true" # Blank /\ BoolOf("true") = TRUE
        /\ Trim("false") = "false" /\ "false" # Blank /\ BoolOf("false") = FALSE
    BY DEF Literals
  <2>2. ASSUME NEW b \in BOOLEAN
        PROVE  /\ Trim(FormatBool(b)) = FormatBool(b)
               /\ FormatBool(b) # Blank
               /\ BoolOf(FormatBool(b)) = b
    <3>1. CASE b = TRUE
      BY <2>1, <3>1, Zenon DEF FormatBool
    <3>2. CASE b = FALSE
      BY <2>1, <3>2, Zenon DEF FormatBool
    <3> QED
      BY <3>1, <3>2
  <2>3. given.verifyTLS \in BOOLEAN /\ given.requireRunning \in BOOLEAN
    BY UsableAnswers
  <2>4. /\ E.PROXMOX_VERIFY_TLS = FormatBool(given.verifyTLS)
        /\ E.FILTER_REQUIRE_RUNNING = FormatBool(given.requireRunning)
        /\ E.DRY_RUN = FormatBool(TRUE)
    BY <1>1 DEF FormatBool
  <2> QED
    BY <2>2, <2>3, <2>4, Zenon DEF environmentBool
<1>7. environmentCSV(E, "FILTER_EXCLUDE_TAGS", <<>>) = Items(given.excludeTags)
  <2>1. PICK t \in Text : given.excludeTags = Joined(Items(t))
    BY UsableAnswers
  <2>2. Trim(E.FILTER_EXCLUDE_TAGS) = given.excludeTags
    BY <1>1, <2>1
  <2>3. given.excludeTags = Blank => Items(given.excludeTags) = <<>>
    OBVIOUS
  <2> QED
    BY <2>2, <2>3 DEF environmentCSV, environmentCSVFirst, FirstSet
<1>8. /\ environmentCSV(E, "FILTER_INCLUDE_TYPES", <<"qemu", "lxc">>) = <<"qemu", "lxc">>
      /\ environmentCSV(E, "FILTER_INCLUDE_TAGS", <<>>) = <<>>
      /\ environmentCSV(E, "FILTER_INCLUDE_NAMES", <<>>) = <<>>
      /\ environmentCSV(E, "FILTER_EXCLUDE_NAMES", <<>>) = <<>>
      /\ environmentCSVFirst(E, "DISCOVERY_VM_ORDER", "VM_DISCOVERY_ORDER", VMOrder) = VMOrder
      /\ environmentCSVFirst(E, "DISCOVERY_LXC_ORDER", "LXC_DISCOVERY_ORDER", LXCOrder) = LXCOrder
      /\ environmentCSV(E, "DESCRIPTION_IP_KEYS", <<"dns_ip", "ip">>) = <<"dns_ip", "ip">>
      /\ environmentCSV(E, "DESCRIPTION_NAME_KEYS", <<"dns_name", "name">>) = <<"dns_name", "name">>
  BY <1>1 DEF environmentCSV, environmentCSVFirst, FirstSet, Literals
<1>a. SyncInterval(E) = Duration(given.seconds) /\ Duration(given.seconds) \in Int
  <2>1. given.seconds \in Seconds
    BY UsableAnswers
  <2>2. given.seconds \in Int /\ given.seconds > 0
    BY <2>1 DEF Seconds
  <2>3. \A n \in Int : Duration(n) \in Int
    BY DurationAssumption DEF Duration, Wrapped
  <2>4. /\ Trim(E.SYNC_INTERVAL_SECONDS) # Blank
        /\ IntOf(Trim(E.SYNC_INTERVAL_SECONDS)) = given.seconds
    BY <1>1, <2>1
  <2>5. given.seconds # Unparsable /\ ~(given.seconds <= 0)
    BY <2>2
  <2> QED
    BY <2>2, <2>3, <2>4, <2>5 DEF SyncInterval
<1>b. Read(E) = T
  BY <1>1, <1>2, <1>3, <1>4, <1>5, <1>6, <1>7, <1>8, <1>a
     DEF Read, setupAnswersToConfig
<1>9. Validate(T)
  <2>1. /\ T.proxmoxURL # Blank /\ T.adGuardURL # Blank /\ T.tokenID # Blank /\ T.tokenSecret # Blank
        /\ T.username # Blank /\ T.password # Blank
        /\ Trim(T.suffix) # Blank /\ Trim(T.stateFile) # Blank
    BY UsableAnswers DEF setupAnswersToConfig, Trimmed
  <2>2. /\ T.logLevel = "info" /\ T.logFormat = "text"
        /\ T.includeTypes = <<"qemu", "lxc">>
        /\ T.vmOrder = VMOrder /\ T.lxcOrder = LXCOrder
    BY DEF setupAnswersToConfig
  <2>3. ValuesIn(<<"qemu", "lxc">>) \subseteq {"qemu", "lxc"}
    BY DEF ValuesIn
  <2> QED
    BY <2>1, <2>2, <2>3 DEF Validate
<1>10. /\ Unparsable \notin {T.verifyTLS, T.dryRun, T.requireRunning}
       /\ T.logFormat # Unparsable
       /\ T.interval # Unparsable
  <2>1. /\ T.verifyTLS \in BOOLEAN /\ T.dryRun \in BOOLEAN /\ T.requireRunning \in BOOLEAN
        /\ T.logFormat \in Text
        /\ T.interval \in Int
    BY <1>a, UsableAnswers DEF setupAnswersToConfig, Literals
  <2> QED
    BY <2>1
<1> QED
  BY <1>b, <1>9, <1>10 DEF Load, E

-----------------------------------------------------------------------------
(* The answers. *)

LEMMA StringReply ==
    ASSUME NEW topic, NEW default \in Trimmed, NEW required \in BOOLEAN, NEW line \in Text,
           Reply(Open(topic, default, required), line) # NoReply
    PROVE  /\ Reply(Open(topic, default, required), line) \in Trimmed
           /\ required => Reply(Open(topic, default, required), line) # Blank
<1> DEFINE q == Open(topic, default, required)
<1>1. q.kind = "string" /\ q.default = default /\ q.required = required
  BY DEF Open
<1>2. Reply(q, line) = promptString(q, line)
  BY <1>1, Zenon DEF Reply
<1>3. Trim(line) \in Trimmed
  BY TextAssumption DEF Trimmed
<1> HIDE DEF q
<1> QED
  BY <1>1, <1>2, <1>3 DEF promptString, q

LEMMA BoolReply ==
    ASSUME NEW topic, NEW default \in BOOLEAN, NEW line,
           Reply(YesNo(topic, default), line) # NoReply
    PROVE  Reply(YesNo(topic, default), line) \in BOOLEAN
<1> DEFINE q == YesNo(topic, default)
<1>1. q.kind = "bool" /\ q.default = default
  BY DEF YesNo
<1>2. Reply(q, line) = promptBool(q, line)
  BY <1>1, Zenon DEF Reply
<1> HIDE DEF q
<1>3. promptBool(q, line) \in BOOLEAN \cup {NoReply}
  BY <1>1, Zenon DEF promptBool
<1> QED
  BY <1>2, <1>3 DEF q

LEMMA SecondsReply ==
    ASSUME NEW line \in Text, Reply(Positive("seconds", 60), line) # NoReply
    PROVE  Reply(Positive("seconds", 60), line) \in Seconds
<1> DEFINE q == Positive("seconds", 60)
           number == IntOf(Trim(line))
<1>1. q.kind = "integer" /\ q.default = 60
  BY DEF Positive
<1>2. Reply(q, line) = promptPositiveInteger(q, line)
  BY <1>1, Zenon DEF Reply
<1> HIDE DEF q
<1>3. CASE Trim(line) = Blank
  BY <1>1, <1>2, <1>3, Zenon DEF promptPositiveInteger, Seconds, q
<1>4. CASE Trim(line) # Blank
  <2>1. number # Unparsable /\ ~(number <= 0) /\ Reply(q, line) = number
    BY <1>2, <1>4, Zenon DEF promptPositiveInteger, q
  <2>2. number \in {IntOf(t) : t \in Text} /\ number \in Int
    BY <2>1, TextAssumption
  <2> QED
    BY <2>1, <2>2 DEF Seconds, q
<1> QED
  BY <1>3, <1>4

LEMMA QuestionList ==
    /\ Len(Questions) = 12 /\ DOMAIN Questions = 1 .. 12
    /\ Questions[1] = Open("proxmoxURL", Blank, TRUE)
    /\ Questions[2] = Open("tokenID", Blank, TRUE)
    /\ Questions[3] = Open("tokenSecret", Blank, TRUE)
    /\ Questions[4] = YesNo("verifyTLS", TRUE)
    /\ Questions[5] = Open("adGuardURL", Blank, TRUE)
    /\ Questions[6] = Open("username", Blank, TRUE)
    /\ Questions[7] = Open("password", Blank, TRUE)
    /\ Questions[8] = Open("suffix", "internal", TRUE)
    /\ Questions[9] = YesNo("requireRunning", FALSE)
    /\ Questions[10] = Open("excludeTags", Blank, FALSE)
    /\ Questions[11] = Positive("seconds", 60)
    /\ Questions[12] = Open("stateFile", "./data/state.json", TRUE)
BY DEF Questions

LEMMA QuestionCount ==
    Len(Questions) = 12 /\ DOMAIN Questions = 1 .. 12
BY QuestionList

\* Every answer is asked for.
LEMMA QuestionTopics ==
    /\ \A n \in 1 .. 12 : Questions[n].topic \in AnswerTopics
    /\ \A topic \in AnswerTopics : \E n \in 1 .. 12 : Questions[n].topic = topic
<1>1. /\ Questions[1].topic = "proxmoxURL" /\ Questions[2].topic = "tokenID"
      /\ Questions[3].topic = "tokenSecret" /\ Questions[4].topic = "verifyTLS"
      /\ Questions[5].topic = "adGuardURL" /\ Questions[6].topic = "username"
      /\ Questions[7].topic = "password" /\ Questions[8].topic = "suffix"
      /\ Questions[9].topic = "requireRunning" /\ Questions[10].topic = "excludeTags"
      /\ Questions[11].topic = "seconds" /\ Questions[12].topic = "stateFile"
  BY QuestionList DEF Open, YesNo, Positive
<1>2. \A n \in 1 .. 12 : n \in {1, 2, 3, 4, 5, 6, 7, 8, 9, 10, 11, 12}
  OBVIOUS
<1>3. \A n \in {1, 2, 3, 4, 5, 6, 7, 8, 9, 10, 11, 12} : n \in 1 .. 12
  OBVIOUS
<1>4. \A n \in 1 .. 12 : Questions[n].topic \in AnswerTopics
  BY <1>1, <1>2 DEF AnswerTopics, Topics
<1>5. ASSUME NEW topic \in AnswerTopics
      PROVE  \E n \in 1 .. 12 : Questions[n].topic = topic
  BY <1>1, <1>3, Zenon DEF AnswerTopics, Topics
<1> QED
  BY <1>4, <1>5

\* What is kept of a line is an answer to its question.
LEMMA CollectedKept ==
    ASSUME NEW n \in 1 .. 12, NEW line \in Text, Reply(Questions[n], line) # NoReply
    PROVE  Collected(Questions[n].topic, Reply(Questions[n], line)) \in Kept(Questions[n].topic)
<1> DEFINE q == Questions[n]
           r == Reply(q, line)
<1>0. Blank \in Trimmed /\ "internal" \in Trimmed /\ "./data/state.json" \in Trimmed
  BY TextAssumption, LiteralAssumption DEF Trimmed, Literals
<1>a. ASSUME NEW topic, NEW default \in Trimmed, NEW required \in BOOLEAN,
             q = Open(topic, default, required)
      PROVE  q.topic = topic /\ r \in Trimmed /\ (required => r # Blank)
  <2>1. q.topic = topic
    BY <1>a DEF Open
  <2> QED
    BY <1>a, <2>1, StringReply
<1>b. ASSUME NEW topic, NEW default \in BOOLEAN, q = YesNo(topic, default)
      PROVE  q.topic = topic /\ r \in BOOLEAN
  <2>1. q.topic = topic
    BY <1>b DEF YesNo
  <2> QED
    BY <1>b, <2>1, BoolReply
<1>c. ASSUME q = Positive("seconds", 60)
      PROVE  q.topic = "seconds" /\ r \in Seconds
  <2>1. q.topic = "seconds"
    BY <1>c DEF Positive
  <2> QED
    BY <1>c, <2>1, SecondsReply
<1> SUFFICES Collected(q.topic, r) \in Kept(q.topic)
  OBVIOUS
<1> HIDE DEF q, r
<1>1. CASE n \in {1, 5}
  <2>1. q.topic \in {"proxmoxURL", "adGuardURL"} /\ r \in Trimmed
    BY <1>0, <1>1, <1>a, QuestionList DEF q
  <2>2. Collected(q.topic, r) = Unslash(Trim(r))
    BY <2>1, Zenon DEF Collected
  <2>3. Kept(q.topic) = {t \in Trimmed : Unslash(t) = t}
    BY <2>1, Zenon DEF Kept
  <2> QED
    BY <2>1, <2>2, <2>3, TextAssumption, RoundTripAssumption DEF Trimmed
<1>2. CASE n \in {2, 3, 6, 7, 12}
  <2>1. /\ q.topic \in {"tokenID", "tokenSecret", "username", "password", "stateFile"}
        /\ r \in Trimmed \ {Blank}
    <3>1. PICK topic \in {"tokenID", "tokenSecret", "username", "password", "stateFile"},
               default \in Trimmed : q = Open(topic, default, TRUE)
      BY <1>0, <1>2, QuestionList DEF q
    <3> QED
      BY <3>1, <1>a
  <2>2. Collected(q.topic, r) = r
    BY <2>1, Zenon DEF Collected
  <2>3. Kept(q.topic) = Trimmed \ {Blank}
    BY <2>1, Zenon DEF Kept
  <2> QED
    BY <2>1, <2>2, <2>3
<1>3. CASE n \in {4, 9}
  <2>1. q.topic \in {"verifyTLS", "requireRunning"} /\ r \in BOOLEAN
    BY <1>3, <1>b, QuestionList DEF q
  <2> QED
    BY <2>1, Zenon DEF Collected, Kept
<1>4. CASE n = 8
  <2>1. q.topic = "suffix" /\ r \in Trimmed \ {Blank}
    BY <1>0, <1>4, <1>a, QuestionList DEF q
  <2>2. Collected(q.topic, r) = Lower(Trim(r))
    BY <2>1, Zenon DEF Collected
  <2>3. Kept(q.topic) = {t \in Trimmed \ {Blank} : Lower(t) = t}
    BY <2>1, Zenon DEF Kept
  <2> QED
    BY <2>1, <2>2, <2>3, TextAssumption, RoundTripAssumption DEF Trimmed
<1>5. CASE n = 10
  <2>1. q.topic = "excludeTags" /\ r \in Trimmed
    BY <1>0, <1>5, <1>a, QuestionList DEF q
  <2>2. Collected(q.topic, r) = Joined(Items(r)) /\ r \in Text
    BY <2>1, Zenon DEF Collected, Trimmed
  <2>3. Kept(q.topic) = {Joined(Items(t)) : t \in Text}
    BY <2>1, Zenon DEF Kept
  <2> QED
    BY <2>2, <2>3
<1>6. CASE n = 11
  <2>1. q.topic = "seconds" /\ r \in Seconds
    BY <1>6, <1>c, QuestionList DEF q
  <2> QED
    BY <2>1, Zenon DEF Collected, Kept
<1> QED
  BY <1>1, <1>2, <1>3, <1>4, <1>5, <1>6

-----------------------------------------------------------------------------
(* The invariant: what the wizard knows, where the file and the shell's    *)
(* variables come from, and what keeps the wizard from replacing a file.   *)

Asking ==
    /\ pc = "ask" =>
          \A n \in 1 .. asked - 1 : answers[Questions[n].topic] \in Kept(Questions[n].topic)
    /\ pc \in {"test", "write", "create", "fill", "rename", "chmod"} =>
          \A topic \in AnswerTopics : answers[topic] \in Kept(topic)
    /\ pc \in {"write", "create", "fill", "rename", "chmod"} => Usable(answers)

FromSetup ==
    tested # None =>
        \E given : /\ Usable(given)
                   /\ file = renderSetupEnvironmentFile(given)
                   /\ tested = setupAnswersToConfig(given)

Based ==
    basis # None =>
        \E given, before : /\ Usable(given)
                           /\ DOMAIN before = Vars
                           /\ env = Over(renderSetupEnvironmentFile(given), before)
                           /\ basis = setupAnswersToConfig(given)

Served == pc = "serve" => service = Load(env) /\ service # Rejected

Live(values) == "DRY_RUN" \in DOMAIN values /\ BoolOf(Trim(values.DRY_RUN)) = FALSE

LiveKnown ==
    /\ Live(env) => liveByHand
    /\ file # Absent /\ Live(file) => liveByHand

Looked ==
    pc \in {"ask", "test", "write", "create", "fill", "rename"} /\ file # Absent =>
        confirmed \/ arrived

\* Agreeing to write needs connections, and they need URLs.
LEMMA ConnectedUsable ==
    ASSUME NEW given, DOMAIN given = AnswerTopics,
           \A topic \in AnswerTopics : given[topic] \in Kept(topic),
           Connects(setupAnswersToConfig(given))
    PROVE  Usable(given)
<1>1. given.proxmoxURL \in Kept("proxmoxURL") /\ given.adGuardURL \in Kept("adGuardURL")
  BY DEF AnswerTopics, Topics
<1>2. /\ Kept("proxmoxURL") = {t \in Trimmed : Unslash(t) = t}
      /\ Kept("adGuardURL") = {t \in Trimmed : Unslash(t) = t}
  BY Zenon DEF Kept
<1>3. /\ Unslash(Trim(given.proxmoxURL)) = given.proxmoxURL
      /\ Unslash(Trim(given.adGuardURL)) = given.adGuardURL
  BY <1>1, <1>2 DEF Trimmed
<1>4. /\ Unslash(Trim(given.proxmoxURL)) # Blank
      /\ Unslash(Trim(given.adGuardURL)) # Blank
  BY DEF Connects, setupAnswersToConfig
<1> QED
  BY <1>3, <1>4 DEF Usable

\* What setup writes assigns texts to variables.
LEMMA RenderedFile ==
    ASSUME NEW given, Usable(given)
    PROVE  LET values == renderSetupEnvironmentFile(given)
           IN  DOMAIN values \subseteq Vars /\ \A v \in DOMAIN values : values[v] \in Text
<1>1. /\ given.proxmoxURL \in Text /\ given.adGuardURL \in Text /\ given.tokenID \in Text
      /\ given.tokenSecret \in Text /\ given.username \in Text /\ given.password \in Text
      /\ given.stateFile \in Text /\ given.suffix \in Text
      /\ FormatBool(given.verifyTLS) \in Text /\ FormatBool(given.requireRunning) \in Text
      /\ Itoa(given.seconds) \in Text /\ given.excludeTags \in Text
      /\ FormatBool(TRUE) \in Text /\ Blank \in Text
      /\ GuestTypesLine \in Text /\ VMOrderLine \in Text /\ LXCOrderLine \in Text
      /\ IPKeysLine \in Text /\ NameKeysLine \in Text /\ "info" \in Text /\ "text" \in Text
  <2>1. /\ given.proxmoxURL \in Text /\ given.adGuardURL \in Text /\ given.tokenID \in Text
        /\ given.tokenSecret \in Text /\ given.username \in Text /\ given.password \in Text
        /\ given.stateFile \in Text /\ given.suffix \in Text
    BY UsableAnswers DEF Trimmed
  <2>2. given.seconds \in Seconds /\ given.excludeTags \in {Joined(Items(t)) : t \in Text}
    BY UsableAnswers
  <2>3. Itoa(given.seconds) \in Text /\ given.excludeTags \in Text
    BY <2>2, RoundTripAssumption
  <2>4. /\ "true" \in Text /\ "false" \in Text /\ "info" \in Text /\ "text" \in Text
        /\ GuestTypesLine \in Text /\ VMOrderLine \in Text /\ LXCOrderLine \in Text
        /\ IPKeysLine \in Text /\ NameKeysLine \in Text
    BY LiteralAssumption DEF Literals
  <2>5. \A b : FormatBool(b) \in Text
    BY <2>4 DEF FormatBool
  <2>6. Blank \in Text
    BY TextAssumption
  <2> QED
    BY <2>1, <2>3, <2>4, <2>5, <2>6
<1> DEFINE values == renderSetupEnvironmentFile(given)
<1>2. DOMAIN values \subseteq Vars
  BY DEF renderSetupEnvironmentFile, writeEnvironmentValue, Vars
<1>3. ASSUME NEW v \in DOMAIN values
      PROVE  values[v] \in Text
  <2>1. v \in {"PROXMOX_BASE_URL", "PROXMOX_TOKEN_ID", "PROXMOX_TOKEN_SECRET",
               "PROXMOX_VERIFY_TLS", "ADGUARD_BASE_URL", "ADGUARD_USERNAME",
               "ADGUARD_PASSWORD", "DNS_SUFFIX", "STATE_FILE", "DRY_RUN",
               "FILTER_INCLUDE_TYPES", "FILTER_REQUIRE_RUNNING"}
        \/ v \in {"FILTER_INCLUDE_TAGS", "FILTER_EXCLUDE_TAGS", "FILTER_INCLUDE_NAMES",
               "FILTER_EXCLUDE_NAMES", "DISCOVERY_VM_ORDER", "DISCOVERY_LXC_ORDER",
               "DESCRIPTION_IP_KEYS", "DESCRIPTION_NAME_KEYS", "SYNC_INTERVAL_SECONDS",
               "LOG_LEVEL", "LOG_FORMAT"}
    BY DEF renderSetupEnvironmentFile, writeEnvironmentValue
  <2>2. /\ values.PROXMOX_BASE_URL \in Text /\ values.PROXMOX_TOKEN_ID \in Text
        /\ values.PROXMOX_TOKEN_SECRET \in Text /\ values.PROXMOX_VERIFY_TLS \in Text
        /\ values.ADGUARD_BASE_URL \in Text /\ values.ADGUARD_USERNAME \in Text
        /\ values.ADGUARD_PASSWORD \in Text /\ values.DNS_SUFFIX \in Text
        /\ values.STATE_FILE \in Text /\ values.DRY_RUN \in Text
        /\ values.FILTER_INCLUDE_TYPES \in Text /\ values.FILTER_REQUIRE_RUNNING \in Text
        /\ values.FILTER_INCLUDE_TAGS \in Text /\ values.FILTER_EXCLUDE_TAGS \in Text
        /\ values.FILTER_INCLUDE_NAMES \in Text /\ values.FILTER_EXCLUDE_NAMES \in Text
        /\ values.DISCOVERY_VM_ORDER \in Text /\ values.DISCOVERY_LXC_ORDER \in Text
        /\ values.DESCRIPTION_IP_KEYS \in Text /\ values.DESCRIPTION_NAME_KEYS \in Text
        /\ values.SYNC_INTERVAL_SECONDS \in Text
        /\ values.LOG_LEVEL \in Text /\ values.LOG_FORMAT \in Text
    BY <1>1 DEF renderSetupEnvironmentFile, writeEnvironmentValue
  <2> HIDE DEF values
  <2> QED
    BY <2>1, <2>2
<1> QED
  BY <1>2, <1>3

LEMMA NothingAnswered ==
    DOMAIN NoAnswers = AnswerTopics /\ \A topic \in AnswerTopics : NoAnswers[topic] = NoReply
BY DEF NoAnswers

LEMMA InitInvariant ==
    Init => TypeOK /\ Asking /\ FromSetup /\ Based /\ Served /\ LiveKnown /\ Looked
            /\ LitterAccountedFor
<1> SUFFICES ASSUME Init
             PROVE  TypeOK /\ Asking /\ FromSetup /\ Based /\ Served /\ LiveKnown /\ Looked
                    /\ LitterAccountedFor
  OBVIOUS
<1>1. DOMAIN env = Vars /\ \A v \in Vars : env[v] \in Text
  BY SetupAssumption DEF Init
<1>2. TypeOK
  <2>1. AnswersOK
    BY NothingAnswered DEF Init, AnswersOK
  <2>2. asked \in 0 .. Len(Questions) /\ (pc = "ask" <=> asked > 0)
    BY QuestionCount DEF Init
  <2>3. confirmed \in BOOLEAN /\ arrived \in BOOLEAN /\ liveByHand \in BOOLEAN
    BY Zenon DEF Init
  <2>4. /\ kills \in 0 .. MaxKills /\ edits \in 0 .. MaxEdits
        /\ litter \in Nat /\ unremoved \in 0 .. MaxUnremoved
    BY BoundAssumption DEF Init
  <2> QED
    BY <1>1, <2>1, <2>2, <2>3, <2>4 DEF Init, TypeOK
<1>3. LiveKnown
  BY <1>1 DEF Init, LiveKnown, Live, Vars
<1> QED
  BY <1>2, <1>3 DEF Init, Asking, FromSetup, Based, Served, Looked, LitterAccountedFor

-----------------------------------------------------------------------------
(* Its preservation, one part at a time. *)

\* The actions that neither ask, nor change a file or a variable.
Idle ==
    \/ HelpOrVersion \/ WrongArguments \/ runValidation
    \/ runSetup \/ confirmOverwrite
    \/ \E line \in Lines("overwrite") : Overwrite(line)
    \/ testConnections
    \/ \E line \in Lines("write") : Write(line)
    \/ CreateTemp \/ FillTemp \/ Finish \/ Fail
    \/ run \/ ServiceEnds \/ Kill

LEMMA NextSplit ==
    ASSUME Next
    PROVE  \/ Idle
           \/ pc = "ask" /\ \E line \in Lines(Questions[asked].topic) : collectAnswer(line)
           \/ Rename \/ Source \/ Remove
           \/ \E assigned \in HandWritten : HandEdit(assigned)
BY DEF Next, Idle

\* The wizard has forgotten what it was told and what it wrote.
LEMMA ReturnTypeOK ==
    ASSUME TypeOK,
           pc' = "shell", status' \in {0, 1, 137}, asked' = 0, answers' = NoAnswers,
           confirmed' = FALSE, arrived' = FALSE, temp' = "none", service' = None,
           kills' \in 0 .. MaxKills, litter' \in Nat, unremoved' \in 0 .. MaxUnremoved,
           UNCHANGED <<file, env, liveByHand, edits>>
    PROVE  TypeOK'
<1>1. AnswersOK'
  BY NothingAnswered DEF AnswersOK
<1>2. (DOMAIN env = Vars /\ \A v \in Vars : env[v] \in Text)'
  BY DEF TypeOK
<1>3. (file # Absent => DOMAIN file \subseteq Vars /\ \A v \in DOMAIN file : file[v] \in Text)'
  BY DEF TypeOK
<1>4. (asked \in 0 .. Len(Questions) /\ (pc = "ask" <=> asked > 0))'
  BY QuestionCount
<1>5. (confirmed \in BOOLEAN /\ arrived \in BOOLEAN /\ liveByHand \in BOOLEAN)'
  BY DEF TypeOK
<1>6. (/\ kills \in 0 .. MaxKills /\ edits \in 0 .. MaxEdits
       /\ litter \in Nat /\ unremoved \in 0 .. MaxUnremoved)'
  BY DEF TypeOK
<1> QED
  BY <1>1, <1>2, <1>3, <1>4, <1>5, <1>6 DEF TypeOK

LEMMA IdleTypeOK ==
    ASSUME TypeOK, Idle
    PROVE  TypeOK'
<1> USE BoundAssumption, QuestionCount DEF TypeOK, wizard, outside, Exit
<1>1. CASE HelpOrVersion \/ WrongArguments \/ runValidation
  BY <1>1 DEF AnswersOK, HelpOrVersion, WrongArguments, runValidation
<1>2. CASE runSetup \/ confirmOverwrite
  BY <1>2 DEF AnswersOK, runSetup, confirmOverwrite
<1>3. CASE \E line \in Lines("overwrite") : Overwrite(line)
  BY <1>3 DEF AnswersOK, Overwrite
<1>4. CASE testConnections
  BY <1>4 DEF AnswersOK, testConnections
<1>5. CASE \E line \in Lines("write") : Write(line)
  BY <1>5 DEF AnswersOK, Write
<1>6. CASE CreateTemp \/ FillTemp
  BY <1>6 DEF AnswersOK, CreateTemp, FillTemp
<1>7. CASE Finish \/ Fail
  <2>1. pc # "serve"
    BY <1>7 DEF Finish, Fail
  <2>2. Leave(0) \/ Leave(1)
    BY <1>7 DEF Finish, Fail
  <2>3. litter' \in Nat /\ unremoved' \in 0 .. MaxUnremoved
    BY <2>2 DEF Leave, removeTemporaryFile
  <2> QED
    BY <1>7, <2>1, <2>2, <2>3, ReturnTypeOK DEF Finish, Fail, Leave, removeTemporaryFile
<1>8. CASE run \/ ServiceEnds
  BY <1>8 DEF AnswersOK, run, ServiceEnds
<1>9. CASE Kill
  <2>1. kills' \in 0 .. MaxKills /\ litter' \in Nat /\ unremoved' \in 0 .. MaxUnremoved
    BY <1>9 DEF Kill, litterLeft
  <2> QED
    BY <1>9, <2>1, ReturnTypeOK DEF Kill, litterLeft
<1> QED
  BY <1>1, <1>2, <1>3, <1>4, <1>5, <1>6, <1>7, <1>8, <1>9 DEF Idle

LEMMA NextTypeOK ==
    ASSUME TypeOK, Asking, [Next]_vars
    PROVE  TypeOK'
<1>1. CASE Idle
  BY <1>1, IdleTypeOK
<1>2. ASSUME pc = "ask", NEW line \in Lines(Questions[asked].topic), collectAnswer(line)
      PROVE  TypeOK'
  <2> DEFINE topic == Questions[asked].topic
             kept  == Collected(topic, Reply(Questions[asked], line))
  <2>1. asked \in 1 .. 12
    BY <1>2, QuestionCount DEF TypeOK
  <2>2. topic \in AnswerTopics /\ line \in Text
    BY <1>2, <2>1, QuestionTopics, SetupAssumption DEF AnswerTopics
  <2>3. kept \in Kept(topic) /\ answers' = [answers EXCEPT ![topic] = kept]
    BY <1>2, <2>1, <2>2, CollectedKept DEF collectAnswer
  <2>4. AnswersOK'
    <3> HIDE DEF topic, kept
    <3> QED
      BY <2>2, <2>3 DEF TypeOK, AnswersOK
  <2>5. (asked \in 0 .. Len(Questions) /\ (pc = "ask" <=> asked > 0))' /\ pc' \in {"ask", "test"}
    BY <1>2, <2>1, QuestionCount DEF collectAnswer
  <2> QED
    BY <1>2, <2>4, <2>5 DEF TypeOK, collectAnswer, outside
<1>3. CASE Rename
  <2>1. Usable(answers)
    BY <1>3 DEF Rename, Asking
  <2>2. DOMAIN file' \subseteq Vars /\ \A v \in DOMAIN file' : file'[v] \in Text
    BY <1>3, <2>1, RenderedFile DEF Rename
  <2> QED
    BY <1>3, <2>2 DEF TypeOK, AnswersOK, Rename, outside
<1>4. CASE Source
  <2>1. DOMAIN env' = Vars /\ \A v \in Vars : env'[v] \in Text
    BY <1>4 DEF Source, Over, TypeOK
  <2> QED
    BY <1>4, <2>1 DEF TypeOK, AnswersOK, Source, wizard
<1>5. CASE Remove
  BY <1>5 DEF TypeOK, AnswersOK, Remove, wizard, outside
<1>6. ASSUME NEW assigned \in HandWritten, HandEdit(assigned)
      PROVE  TypeOK'
  <2> DEFINE before == IF file = Absent THEN NoAssignments ELSE file
  <2>1. /\ DOMAIN before \subseteq Vars /\ \A v \in DOMAIN before : before[v] \in Text
        /\ DOMAIN assigned \subseteq Vars /\ \A v \in DOMAIN assigned : assigned[v] \in Text
    BY SetupAssumption DEF TypeOK, NoAssignments
  <2>2. file' = Over(assigned, before)
    BY <1>6 DEF HandEdit
  <2> HIDE DEF before
  <2>3. DOMAIN file' \subseteq Vars /\ \A v \in DOMAIN file' : file'[v] \in Text
    BY <2>1, <2>2 DEF Over
  <2>4. arrived' \in BOOLEAN /\ liveByHand' \in BOOLEAN
    BY <1>6, Zenon DEF HandEdit
  <2>5. edits' \in 0 .. MaxEdits
    BY <1>6, BoundAssumption DEF HandEdit, TypeOK
  <2> QED
    BY <1>6, <2>3, <2>4, <2>5 DEF TypeOK, AnswersOK, HandEdit
<1>7. CASE UNCHANGED vars
  BY <1>7 DEF TypeOK, AnswersOK, vars
<1> QED
  BY <1>1, <1>2, <1>3, <1>4, <1>5, <1>6, <1>7, NextSplit

LEMMA NextAsking ==
    ASSUME TypeOK, Asking, [Next]_vars
    PROVE  Asking'
<1>1. CASE HelpOrVersion \/ WrongArguments \/ runValidation \/ runSetup \/ run \/ ServiceEnds
  BY <1>1 DEF Asking, HelpOrVersion, WrongArguments, runValidation, runSetup, run, ServiceEnds, Exit
<1>2. CASE confirmOverwrite
  BY <1>2 DEF Asking, confirmOverwrite
<1>3. CASE \E line \in Lines("overwrite") : Overwrite(line)
  BY <1>3 DEF Asking, Overwrite
<1>4. ASSUME pc = "ask", NEW line \in Lines(Questions[asked].topic), collectAnswer(line)
      PROVE  Asking'
  <2> DEFINE topic == Questions[asked].topic
             kept  == Collected(topic, Reply(Questions[asked], line))
  <2>1. asked \in 1 .. 12
    BY <1>4, QuestionCount DEF TypeOK
  <2>2. topic \in AnswerTopics /\ line \in Text
    BY <1>4, <2>1, QuestionTopics, SetupAssumption DEF AnswerTopics
  <2>3. kept \in Kept(topic) /\ answers' = [answers EXCEPT ![topic] = kept]
    BY <1>4, <2>1, <2>2, CollectedKept DEF collectAnswer
  <2>4. \A n \in 1 .. asked : answers'[Questions[n].topic] \in Kept(Questions[n].topic)
    <3>1. \A n \in 1 .. asked - 1 : /\ Questions[n].topic \in AnswerTopics
                                    /\ answers[Questions[n].topic] \in Kept(Questions[n].topic)
      BY <1>4, <2>1, QuestionTopics DEF Asking
    <3>2. DOMAIN answers = AnswerTopics
      BY DEF TypeOK, AnswersOK
    <3>3. \A n \in 1 .. asked : n \in 1 .. asked - 1 \/ n = asked
      BY <2>1
    <3> HIDE DEF kept
    <3> QED
      BY <2>2, <2>3, <3>1, <3>2, <3>3
  <2>5. CASE asked < 12
    BY <1>4, <2>1, <2>4, <2>5, QuestionCount DEF Asking, collectAnswer
  <2>6. CASE asked = 12
    <3>1. pc' = "test"
      BY <1>4, <2>6, QuestionCount DEF collectAnswer
    <3>2. \A t \in AnswerTopics : answers'[t] \in Kept(t)
      BY <2>4, <2>6, QuestionTopics
    <3> QED
      BY <3>1, <3>2 DEF Asking
  <2> QED
    BY <2>1, <2>5, <2>6
<1>5. CASE testConnections
  <2>1. Usable(answers)
    BY <1>5, ConnectedUsable DEF testConnections, Asking, TypeOK, AnswersOK
  <2> QED
    BY <1>5, <2>1 DEF Asking, testConnections, wizard, Usable
<1>6. CASE \E line \in Lines("write") : Write(line)
  BY <1>6 DEF Asking, Write, wizard, Usable
<1>7. CASE CreateTemp \/ FillTemp \/ Rename
  BY <1>7 DEF Asking, CreateTemp, FillTemp, Rename, Usable
<1>8. CASE Finish \/ Fail \/ Kill
  BY <1>8 DEF Asking, Finish, Fail, Kill, Leave, Exit
<1>9. CASE Source \/ Remove \/ (\E assigned \in HandWritten : HandEdit(assigned)) \/ UNCHANGED vars
  BY <1>9 DEF Asking, Source, Remove, HandEdit, wizard, vars, Usable
<1> QED
  BY <1>1, <1>2, <1>3, <1>4, <1>5, <1>6, <1>7, <1>8, <1>9, NextSplit DEF Idle

LEMMA NextFromSetup ==
    ASSUME Asking, FromSetup, [Next]_vars
    PROVE  FromSetup'
<1>1. CASE Idle
  <2>1. UNCHANGED <<file, tested>>
    BY <1>1 DEF Idle, HelpOrVersion, WrongArguments, runValidation, runSetup, confirmOverwrite,
       Overwrite, testConnections, Write, CreateTemp, FillTemp, Finish, Fail, run, ServiceEnds, Kill
  <2> QED
    BY <2>1 DEF FromSetup
<1>2. CASE Rename
  <2>1. Usable(answers) /\ file' = renderSetupEnvironmentFile(answers)
        /\ tested' = setupAnswersToConfig(answers)
    BY <1>2 DEF Rename, Asking
  <2> QED
    BY <2>1 DEF FromSetup
<1>3. CASE Remove \/ \E assigned \in HandWritten : HandEdit(assigned)
  BY <1>3 DEF FromSetup, Remove, HandEdit
<1>4. CASE Source \/ (\E line \in Lines(Questions[asked].topic) : collectAnswer(line)) \/ UNCHANGED vars
  <2>1. UNCHANGED <<file, tested>>
    BY <1>4 DEF Source, collectAnswer, vars
  <2> QED
    BY <2>1 DEF FromSetup
<1> QED
  BY <1>1, <1>2, <1>3, <1>4, NextSplit

LEMMA NextBased ==
    ASSUME TypeOK, FromSetup, Based, [Next]_vars
    PROVE  Based'
<1>1. CASE Source
  <2>1. CASE tested = None
    BY <1>1, <2>1 DEF Source, Based
  <2>2. CASE tested # None
    <3>1. PICK given : /\ Usable(given)
                       /\ file = renderSetupEnvironmentFile(given)
                       /\ tested = setupAnswersToConfig(given)
      BY <2>2 DEF FromSetup
    <3>2. DOMAIN env = Vars
      BY DEF TypeOK
    <3>3. /\ env' = Over(renderSetupEnvironmentFile(given), env)
          /\ basis' = setupAnswersToConfig(given)
      BY <1>1, <3>1 DEF Source
    <3> QED
      BY <3>1, <3>2, <3>3 DEF Based
  <2> QED
    BY <2>1, <2>2
<1>2. CASE UNCHANGED <<env, basis>>
  BY <1>2 DEF Based
<1>3. Source \/ UNCHANGED <<env, basis>>
  BY NextSplit
     DEF Idle, HelpOrVersion, WrongArguments, runValidation, runSetup, confirmOverwrite, Overwrite,
         testConnections, Write, CreateTemp, FillTemp, Finish, Fail, run, ServiceEnds, Kill,
         collectAnswer, Rename, Remove, HandEdit, outside, vars
<1> QED
  BY <1>1, <1>2, <1>3

LEMMA NextServed ==
    ASSUME Served, [Next]_vars
    PROVE  Served'
<1>1. CASE run
  BY <1>1 DEF run, Connects, Exit, outside, Served
<1>2. CASE pc' # "serve"
  BY <1>2 DEF Served
<1>3. CASE pc = "serve" /\ UNCHANGED <<env, service>>
  BY <1>3 DEF Served
<1>4. run \/ pc' # "serve" \/ (pc = "serve" /\ UNCHANGED <<env, service>>)
  <2>1. CASE UNCHANGED <<pc, env, service>>
    BY <2>1
  <2>2. CASE ~(UNCHANGED <<pc, env, service>>)
    BY <2>2, NextSplit
       DEF Idle, HelpOrVersion, WrongArguments, runValidation, runSetup, confirmOverwrite, Overwrite,
           testConnections, Write, CreateTemp, FillTemp, Finish, Fail, Leave, Exit, ServiceEnds, Kill,
           collectAnswer, Rename, Source, Remove, HandEdit, outside, vars
  <2> QED
    BY <2>1, <2>2
<1> QED
  BY <1>1, <1>2, <1>3, <1>4

LEMMA NextLiveKnown ==
    ASSUME TypeOK, Asking, LiveKnown, [Next]_vars
    PROVE  LiveKnown'
<1>1. CASE Source
  BY <1>1 DEF Source, LiveKnown, Live, Over, TypeOK
<1>2. CASE Rename
  <2>1. file' = renderSetupEnvironmentFile(answers) /\ UNCHANGED <<env, liveByHand>>
    BY <1>2 DEF Rename, outside
  <2>2. file'["DRY_RUN"] = "true"
    BY <2>1 DEF renderSetupEnvironmentFile, writeEnvironmentValue, FormatBool
  <2>3. BoolOf(Trim("true")) = TRUE
    BY LiteralAssumption DEF Literals
  <2> QED
    BY <2>1, <2>2, <2>3 DEF LiveKnown, Live
<1>3. ASSUME NEW assigned \in HandWritten, HandEdit(assigned)
      PROVE  LiveKnown'
  <2> DEFINE before == IF file = Absent THEN NoAssignments ELSE file
  <2>1. /\ file' = Over(assigned, before) /\ env' = env
        /\ liveByHand' = (liveByHand \/ Live(assigned))
    BY <1>3 DEF HandEdit, Live
  <2>2. Live(before) => liveByHand
    BY DEF LiveKnown, Live, NoAssignments
  <2> HIDE DEF before
  <2>3. Live(Over(assigned, before)) => Live(assigned) \/ Live(before)
    BY DEF Live, Over
  <2> QED
    BY <2>1, <2>2, <2>3 DEF LiveKnown, Live
<1>4. CASE Remove
  BY <1>4 DEF Remove, LiveKnown, Live, outside
<1>5. CASE UNCHANGED <<env, file, liveByHand>>
  BY <1>5 DEF LiveKnown, Live
<1>6. \/ Source \/ Rename \/ Remove \/ UNCHANGED <<env, file, liveByHand>>
      \/ \E assigned \in HandWritten : HandEdit(assigned)
  BY NextSplit
     DEF Idle, HelpOrVersion, WrongArguments, runValidation, runSetup, confirmOverwrite, Overwrite,
         testConnections, Write, CreateTemp, FillTemp, Finish, Fail, run, ServiceEnds, Kill,
         collectAnswer, outside, vars
<1> QED
  BY <1>1, <1>2, <1>3, <1>4, <1>5, <1>6

LEMMA NextLooked ==
    ASSUME Looked, [Next]_vars
    PROVE  Looked'
<1>1. CASE confirmOverwrite
  BY <1>1 DEF Looked, confirmOverwrite
<1>2. CASE \E line \in Lines("overwrite") : Overwrite(line)
  BY <1>2 DEF Looked, Overwrite
<1>3. CASE Rename
  BY <1>3 DEF Looked, Rename
<1>4. CASE Remove
  BY <1>4 DEF Looked, Remove
<1>5. ASSUME NEW assigned \in HandWritten, HandEdit(assigned)
      PROVE  Looked'
  <2>1. /\ pc' = pc /\ confirmed' = confirmed /\ (arrived => arrived')
        /\ (file = Absent /\ pc \notin {"shell", "path", "serve"} => arrived')
    BY <1>5, Zenon DEF HandEdit
  <2>2. pc \in {"ask", "test", "write", "create", "fill", "rename"} =>
            pc \notin {"shell", "path", "serve"}
    OBVIOUS
  <2> QED
    BY <2>1, <2>2 DEF Looked
<1>6. CASE pc' \in {"shell", "path", "serve"}
  BY <1>6 DEF Looked
<1>7. CASE UNCHANGED <<file, confirmed, arrived>>
           /\ (pc' = pc \/ pc \in {"ask", "test", "write", "create", "fill"} \/ pc' = "chmod")
  BY <1>7 DEF Looked
<1>8. CASE HelpOrVersion \/ WrongArguments \/ runValidation \/ runSetup \/ Finish \/ Fail
           \/ run \/ ServiceEnds \/ Kill
  <2>1. pc' \in {"shell", "path", "serve"}
    BY <1>8 DEF HelpOrVersion, WrongArguments, runValidation, runSetup, Finish, Fail, Leave, Exit,
                run, ServiceEnds, Kill
  <2> QED
    BY <2>1, <1>6
<1>9. CASE Source \/ (\E line \in Lines(Questions[asked].topic) : collectAnswer(line))
           \/ testConnections \/ (\E line \in Lines("write") : Write(line))
           \/ CreateTemp \/ FillTemp \/ UNCHANGED vars
  <2>1. UNCHANGED <<file, confirmed, arrived>>
        /\ (pc' = pc \/ pc \in {"ask", "test", "write", "create", "fill"} \/ pc' = "chmod")
    BY <1>9 DEF Source, collectAnswer, testConnections, Write, CreateTemp, FillTemp, wizard, vars
  <2> QED
    BY <2>1, <1>7
<1> QED
  BY <1>1, <1>2, <1>3, <1>4, <1>5, <1>8, <1>9, NextSplit DEF Idle

LEMMA NextLitter ==
    ASSUME TypeOK, LitterAccountedFor, [Next]_vars
    PROVE  LitterAccountedFor'
<1>1. CASE Kill
  BY <1>1 DEF Kill, litterLeft, LitterAccountedFor, TypeOK
<1>2. CASE Finish \/ Fail
  <2>1. removeTemporaryFile /\ UNCHANGED kills
    BY <1>2 DEF Finish, Fail, Leave, outside
  <2> QED
    BY <2>1 DEF removeTemporaryFile, LitterAccountedFor, TypeOK
<1>3. CASE UNCHANGED <<litter, kills, unremoved>>
  BY <1>3 DEF LitterAccountedFor
<1>4. Kill \/ Finish \/ Fail \/ UNCHANGED <<litter, kills, unremoved>>
  BY NextSplit
     DEF Idle, HelpOrVersion, WrongArguments, runValidation, runSetup, confirmOverwrite, Overwrite,
         testConnections, Write, CreateTemp, FillTemp, run, ServiceEnds, collectAnswer, Rename,
         Source, Remove, HandEdit, wizard, outside, vars
<1> QED
  BY <1>1, <1>2, <1>3, <1>4

-----------------------------------------------------------------------------
(* The theorems. *)

Invariant == /\ TypeOK /\ Asking /\ FromSetup /\ Based /\ Served /\ LiveKnown /\ Looked
             /\ LitterAccountedFor

LEMMA InvariantHolds == Spec => []Invariant
<1>1. Init => Invariant
  BY InitInvariant DEF Invariant
<1>2. Invariant /\ [Next]_vars => Invariant'
  BY NextTypeOK, NextAsking, NextFromSetup, NextBased, NextServed, NextLiveKnown, NextLooked,
     NextLitter DEF Invariant
<1> QED
  BY <1>1, <1>2, PTL DEF Spec

\* Every variable keeps its type, whatever is typed into the wizard and
\* written into the file.
THEOREM SetupTypes == Spec => []TypeOK
<1>1. Invariant => TypeOK
  BY DEF Invariant
<1> QED
  BY <1>1, InvariantHolds, PTL

\* What setup tested is what a service runs with that reads setup's file, for
\* all answers and all environments (setup.go:396 and :902, config.go:79).
THEOREM ServiceRunsAsTested == Spec => []ServesWhatWasTested
<1>1. Invariant => ServesWhatWasTested
  <2> SUFFICES ASSUME Invariant, basis # None
               PROVE  Load(env) = basis /\ (pc = "serve" => service = basis)
    BY DEF ServesWhatWasTested
  <2>1. Load(env) = basis
    BY LoadsAsTested DEF Invariant, Based
  <2> QED
    BY <2>1 DEF Invariant, Served
<1> QED
  BY <1>1, InvariantHolds, PTL

\* A service changes AdGuard Home only where a person wrote that the dry run
\* is off (config.go:88, setup.go:324).
THEOREM DryUnlessTold == Spec => []LiveOnlyByHand
<1>1. Invariant => LiveOnlyByHand
  <2> SUFFICES ASSUME Invariant, pc = "serve", ~service.dryRun
               PROVE  liveByHand
    BY DEF LiveOnlyByHand
  <2>1. service = Load(env) /\ Load(env) # Rejected
    BY DEF Invariant, Served
  <2>2. service = Read(env) /\ Unparsable \notin {service.verifyTLS, service.dryRun, service.requireRunning}
    BY <2>1, Zenon DEF Load
  <2>3. service.dryRun = environmentBool(env, "DRY_RUN", TRUE)
    BY <2>2 DEF Read, defaultDryRun
  <2>4. DOMAIN env = Vars /\ "DRY_RUN" \in Vars /\ Trim(env["DRY_RUN"]) \in Text
    BY TextAssumption DEF Invariant, TypeOK, Vars
  <2>5. BoolOf(Trim(env["DRY_RUN"])) = FALSE
    <3>1. BoolOf(Trim(env["DRY_RUN"])) \in {TRUE, FALSE, Unparsable}
      BY <2>4, TextAssumption
    <3>2. service.dryRun = TRUE \/ service.dryRun = BoolOf(Trim(env["DRY_RUN"]))
      BY <2>3, Zenon DEF environmentBool
    <3> QED
      BY <2>2, <3>1, <3>2, Zenon
  <2> QED
    BY <2>4, <2>5 DEF Invariant, LiveKnown, Live
<1> QED
  BY <1>1, InvariantHolds, PTL

\* Whenever setup replaces a file it was not allowed to, the file was not
\* there when it looked (setup.go:489, :877).
THEOREM ReplacesKnownFiles == Spec => ReplacesOnlyTheUnseen
<1>1. Invariant /\ [Next]_vars =>
        [pc = "rename" /\ pc' = "chmod" /\ file # Absent => confirmed \/ arrived]_vars
  BY DEF Invariant, Looked
<1> QED
  BY <1>1, InvariantHolds, PTL DEF Spec, ReplacesOnlyTheUnseen

\* The wizard leaves a temporary file only where it was killed, or where a call
\* failed and the removal of the file after it failed too (setup.go:839-847).
THEOREM NoLitter == Spec => []LitterAccountedFor
<1>1. Invariant => LitterAccountedFor
  BY DEF Invariant
<1> QED
  BY <1>1, InvariantHolds, PTL
=============================================================================
