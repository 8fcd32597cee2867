------------------------------ MODULE Discovery ------------------------------
(***************************************************************************)
(* From a listed guest to a name and an address: the loop of resolveGuests *)
(* (cmd/proxmox-adguard-sync/main.go) with the selector before it, the two *)
(* calls to Proxmox VE in it, and the sources of internal/discovery.       *)
(*                                                                         *)
(* One guest after another goes through the loop.  What Proxmox answers is *)
(* any member of the constant sets; module Sync has the same loop with     *)
(* changing guests, and keeps of a guest only what it resolves to.         *)
(***************************************************************************)
EXTENDS Selection, SequencesExt

CONSTANTS Addresses,      \* IPv4 addresses
          Usable,         \* those that are not loopback, unspecified, multicast, link-local
          NotIPv4,        \* any other value: dhcp, auto, manual, IPv6, garbage
          RawNames,       \* names as they are written
          Hostnames,      \* DNS labels
          HostnameOf,     \* normalizeHostname, by raw name
          IPKeys,         \* DESCRIPTION_IP_KEYS
          NameKeys,       \* DESCRIPTION_NAME_KEYS
          Nothing,        \* no value, no name, no address
          \* What the configuration and Proxmox VE may hold
          FilterConfigs, Orders, ListedGuests, Descriptions, Networks, Reports

Values == Addresses \cup {NotIPv4}

\* A line key=value of a description; a blank value is Nothing.
Line == [key : ToSet(IPKeys), value : Values] \cup
        [key : ToSet(NameKeys), value : RawNames \cup {Nothing}]

\* One interface of the answer of the guest agent.
Interface == [loopback : BOOLEAN, addresses : Seq(Values)]

ASSUME AddressAssumption == Usable \subseteq Addresses /\ NotIPv4 \notin Addresses
ASSUME NothingAssumption == Nothing \notin Values \cup RawNames \cup Hostnames
ASSUME NameAssumption == HostnameOf \in [RawNames -> Hostnames \cup {Nothing}]
ASSUME KeyAssumption ==
    /\ \A keys \in {IPKeys, NameKeys} : Len(keys) \in Nat /\ DOMAIN keys = 1 .. Len(keys)
    /\ ToSet(IPKeys) \cap ToSet(NameKeys) = {}
ASSUME InputAssumption ==
    /\ FilterConfigs \subseteq FilterConfig
    /\ \A listed \in ListedGuests :
          listed.name \in RawNames /\ listed.facts \in GuestFacts
    /\ Descriptions \subseteq Seq(Line)
    /\ Networks \subseteq Seq(Seq(Values))
    /\ Reports \subseteq Seq(Interface)
    /\ \A order \in Orders :
          /\ order.qemu \in Seq({"guest-agent", "description", "cloudinit"})
          /\ order.lxc \in Seq({"config", "description"})

-----------------------------------------------------------------------------
(* The sources. *)

\* The first of a sequence, or Nothing.
First(seq) == IF seq = <<>> THEN Nothing ELSE seq[1]

\* The loops of all searches: the first of the results that is one.
FirstFound(results) ==
    LET found == {i \in DOMAIN results : results[i] # Nothing}
    IN  IF found = {} THEN Nothing ELSE results[Min(found)]

OneOf(value, good) == IF value \in good THEN value ELSE Nothing

LinesOf(lines, key) == {i \in DOMAIN lines : lines[i].key = key}

\* Slip: the first line of a key counts.
DescriptionFirstValue(lines, key) ==
    IF LinesOf(lines, key) = {} THEN Nothing ELSE lines[Min(LinesOf(lines, key))].value

\* description.go: the last line of a key counts.
DescriptionValue(lines, key) ==
    IF LinesOf(lines, key) = {} THEN Nothing ELSE lines[Max(LinesOf(lines, key))].value

\* The first configured key that is there, and is an address, gives it.
DescriptionAddress(lines) ==
    FirstFound([n \in DOMAIN IPKeys |-> OneOf(DescriptionValue(lines, IPKeys[n]), Addresses)])

DescriptionName(lines) ==
    FirstFound([n \in DOMAIN NameKeys |-> DescriptionValue(lines, NameKeys[n])])

\* lxc.go: of the ip fields of an entry the first decides, and the first
\* entry that has an address in it gives it.
ParseNetworkConfigIPv4(fields) == OneOf(First(fields), Addresses)

DiscoverLXCConfigIPv4(network) ==
    FirstFound([i \in DOMAIN network |-> ParseNetworkConfigIPv4(network[i])])

\* cloudinit.go: the same, for addresses that are usable.
ParseCloudInitIPv4(fields) == OneOf(First(fields), Usable)

DiscoverCloudInitIPv4(network) ==
    FirstFound([i \in DOMAIN network |-> ParseCloudInitIPv4(network[i])])

FirstAddress(addresses, good) ==
    FirstFound([j \in DOMAIN addresses |-> OneOf(addresses[j], good)])

\* Slip: any IPv4 address of the agent will do.
AgentAnyAddress(report) ==
    FirstFound([i \in DOMAIN report |-> FirstAddress(report[i].addresses, Addresses)])

\* qemu.go: interface after interface, address after address.
DiscoverQEMUAgentIPv4(report) ==
    FirstFound([i \in DOMAIN report |->
                   IF report[i].loopback THEN Nothing
                   ELSE FirstAddress(report[i].addresses, Usable)])

Discover(source, config, report) ==
    CASE source = "guest-agent" -> DiscoverQEMUAgentIPv4(report)
      [] source = "description" -> DescriptionAddress(config.description)
      [] source = "cloudinit"   -> DiscoverCloudInitIPv4(config.network)
      [] source = "config"      -> DiscoverLXCConfigIPv4(config.network)

\* Slip: the name is taken as it is written.
resolveRawName(name, config) ==
    LET override == DescriptionName(config.description)
    IN  IF override = Nothing THEN name ELSE override

\* A name in the description counts, even one that leaves no hostname.
resolveHostname(name, config) ==
    LET override == DescriptionName(config.description)
    IN  IF override = Nothing THEN HostnameOf[name] ELSE HostnameOf[override]

-----------------------------------------------------------------------------
VARIABLES
    filters,      \* config.FilterConfig
    order,        \* config.DiscoveryConfig: the sources of each guest type
    guest,        \* the guest at hand: its raw name and what the filters see
    pc,           \* where the guest is
    config,       \* guestConfig: the description and the ip fields by interface
    interfaces,   \* agentInterfaces
    tried,        \* how many of the sources have had their turn
    hostname,
    address

vars == <<filters, order, guest, pc, config, interfaces, tried, hostname, address>>

NoConfig == [description |-> <<>>, network |-> <<>>]

Underway == {"listed", "config", "agent", "name", "source"}
Settled  == {"excluded", "unresolved", "resolved"}

OrderOf(type) == IF type = "qemu" THEN order.qemu ELSE order.lxc

SourcesOfGuest == OrderOf(guest.facts.type)

\* The source whose turn it is.
Source == SourcesOfGuest[tried + 1]

discoverySourceEnabled(source) == source \in ToSet(order.qemu)

TypeOK ==
    /\ filters \in FilterConfigs
    /\ order \in Orders
    /\ guest \in ListedGuests
    /\ pc \in Underway \cup Settled
    /\ config \in [description : Descriptions \cup {<<>>}, network : Networks \cup {<<>>}]
    /\ interfaces \in Reports \cup {<<>>}
    /\ tried \in 0 .. Len(SourcesOfGuest)
    /\ hostname \in Hostnames \cup {Nothing}
    /\ address \in Addresses \cup {Nothing}

Init ==
    /\ filters \in FilterConfigs
    /\ order \in Orders
    /\ guest \in ListedGuests
    /\ pc = "listed"
    /\ config = NoConfig
    /\ interfaces = <<>>
    /\ tried = 0
    /\ hostname = Nothing
    /\ address = Nothing

Exclude ==
    /\ pc = "listed"
    /\ ~Evaluate(filters, guest.facts).included
    /\ pc' = "excluded"
    /\ UNCHANGED <<filters, order, guest, config, interfaces, tried, hostname, address>>

Include ==
    /\ pc = "listed"
    /\ Evaluate(filters, guest.facts).included
    /\ pc' = "config"
    /\ UNCHANGED <<filters, order, guest, config, interfaces, tried, hostname, address>>

\* The agent is asked for a QEMU guest when it is one of its sources.
retrieveGuestConfig ==
    /\ pc = "config"
    /\ \E description \in Descriptions, network \in Networks :
          config' = [description |-> description, network |-> network]
    /\ pc' = IF guest.facts.type = "qemu" /\ discoverySourceEnabled("guest-agent")
               THEN "agent" ELSE "name"
    /\ UNCHANGED <<filters, order, guest, interfaces, tried, hostname, address>>

\* The call fails, or the context is cancelled and the loop left.
GuestLeftOut ==
    /\ pc \in {"config", "agent"}
    /\ pc' = "unresolved"
    /\ UNCHANGED <<filters, order, guest, config, interfaces, tried, hostname, address>>

GetQEMUAgentInterfaces ==
    /\ pc = "agent"
    /\ interfaces' \in Reports
    /\ pc' = "name"
    /\ UNCHANGED <<filters, order, guest, config, tried, hostname, address>>

AgentUnavailable ==
    /\ pc = "agent"
    /\ interfaces' = <<>>
    /\ pc' = "name"
    /\ UNCHANGED <<filters, order, guest, config, tried, hostname, address>>

ResolveName ==
    /\ pc = "name"
    /\ hostname' = resolveHostname(guest.name, config)
    /\ IF hostname' = Nothing
         THEN pc' = "unresolved"
         ELSE pc' = "source"
    /\ UNCHANGED <<filters, order, guest, config, interfaces, tried, address>>

\* Slip: a source without an address ends the search.
NextSourceGivingUp ==
    /\ pc = "source"
    /\ tried < Len(SourcesOfGuest)
    /\ Discover(Source, config, interfaces) = Nothing
    /\ pc' = "unresolved"
    /\ UNCHANGED <<filters, order, guest, config, interfaces, tried, hostname, address>>

NextSource ==
    /\ pc = "source"
    /\ tried < Len(SourcesOfGuest)
    /\ Discover(Source, config, interfaces) = Nothing
    /\ tried' = tried + 1
    /\ UNCHANGED <<filters, order, guest, pc, config, interfaces, hostname, address>>

Resolve ==
    /\ pc = "source"
    /\ tried < Len(SourcesOfGuest)
    /\ Discover(Source, config, interfaces) # Nothing
    /\ address' = Discover(Source, config, interfaces)
    /\ pc' = "resolved"
    /\ UNCHANGED <<filters, order, guest, config, interfaces, tried, hostname>>

NothingDiscovered ==
    /\ pc = "source"
    /\ tried = Len(SourcesOfGuest)
    /\ pc' = "unresolved"
    /\ UNCHANGED <<filters, order, guest, config, interfaces, tried, hostname, address>>

\* The loop goes on with another guest, and fresh locals.
NextGuest ==
    /\ pc \in Settled
    /\ guest' \in ListedGuests
    /\ pc' = "listed"
    /\ config' = NoConfig
    /\ interfaces' = <<>>
    /\ tried' = 0
    /\ hostname' = Nothing
    /\ address' = Nothing
    /\ UNCHANGED <<filters, order>>

Next ==
    \/ Exclude \/ Include \/ retrieveGuestConfig \/ GuestLeftOut
    \/ GetQEMUAgentInterfaces \/ AgentUnavailable \/ ResolveName
    \/ NextSource \/ Resolve \/ NothingDiscovered \/ NextGuest

Spec == Init /\ [][Next]_vars
-----------------------------------------------------------------------------
(***************************************************************************)
(* What the documentation says each source offers (README.md:330-380), as  *)
(* a reference for the searches above.                                     *)
(***************************************************************************)
AgentOffers(a) ==
    LET Good(i) == {j \in DOMAIN interfaces[i].addresses :
                       ~interfaces[i].loopback /\ interfaces[i].addresses[j] \in Usable}
    IN  \E i \in DOMAIN interfaces : \E j \in Good(i) :
            /\ interfaces[i].addresses[j] = a
            /\ \A k \in 1 .. (j - 1) : k \notin Good(i)
            /\ \A h \in 1 .. (i - 1) : Good(h) = {}

NetworkOffers(a, good) ==
    LET Fixed(i) == {v \in good : config.network[i] # <<>> /\ config.network[i][1] = v}
    IN  \E i \in DOMAIN config.network :
            /\ a \in Fixed(i)
            /\ \A k \in 1 .. (i - 1) : Fixed(k) = {}

DescriptionOffers(a) ==
    LET lines == config.description
        Says(n, v) ==
            \E i \in DOMAIN lines :
                /\ lines[i] = [key |-> IPKeys[n], value |-> v]
                /\ \A j \in (i + 1) .. Len(lines) : lines[j].key # IPKeys[n]
    IN  \E n \in DOMAIN IPKeys :
            /\ Says(n, a)
            /\ \A m \in 1 .. (n - 1) : \A v \in Addresses : ~Says(m, v)

Offers(source, a) ==
    \/ source = "guest-agent" /\ AgentOffers(a)
    \/ source = "description" /\ DescriptionOffers(a)
    \/ source = "cloudinit"   /\ NetworkOffers(a, Usable)
    \/ source = "config"      /\ NetworkOffers(a, Addresses)

OffersNothing(source) == \A a \in Addresses : ~Offers(source, a)

\* A guest resolves to what the first source of its configured order has to
\* offer; a later source is used only when every earlier one has nothing, the
\* silent agent included (resolver.go:108-137, 169-215).
FirstOfferWins ==
    pc = "resolved" =>
        \E n \in DOMAIN SourcesOfGuest :
            /\ Offers(SourcesOfGuest[n], address)
            /\ \A m \in 1 .. (n - 1) : OffersNothing(SourcesOfGuest[m])

\* No guest is given up while a source of its order still has an address: "the
\* resolver will continue to description and cloud-init fallbacks"
\* (README.md:587).  What is given up loses its rewrite.
GivenUpOnlyWithoutOffer ==
    pc = "unresolved" /\ hostname # Nothing =>
        \A n \in DOMAIN SourcesOfGuest : OffersNothing(SourcesOfGuest[n])

\* A loopback, link-local, multicast or unspecified address is published only
\* when somebody wrote it down: in the description, or as the static address of
\* a container (qemu.go:61-74, cloudinit.go:75-77).
UnusableOnlyByHand ==
    pc = "resolved" /\ address \notin Usable =>
        \/ \E i \in DOMAIN config.description : config.description[i].value = address
        \/ /\ guest.facts.type = "lxc"
           /\ \E i \in DOMAIN config.network : First(config.network[i]) = address

\* Proxmox VE is asked about no guest that a filter excludes, even if another
\* filter asks for it by name or tag, and about every other (selector.go:40-102).
ExclusionPrevails ==
    LET facts == guest.facts
        Wanted ==
            /\ facts.type \in filters.includeTypes
            /\ facts.identified /\ ~facts.template
            /\ facts.running \/ ~filters.requireRunning
            /\ filters.includeNames = {} \/ facts.matches \cap filters.includeNames # {}
            /\ filters.includeTags = {}  \/ facts.tags \cap filters.includeTags # {}
            /\ facts.matches \cap filters.excludeNames = {}
            /\ facts.tags \cap filters.excludeTags = {}
    IN  pc # "listed" => (pc = "excluded" <=> ~Wanted)

-----------------------------------------------------------------------------
(* The inductive invariant behind these, in named parts. *)

\* Until the name is resolved nothing is known of the guest.
NotSearchedYet ==
    pc \in {"listed", "config", "agent", "name", "excluded"} =>
        hostname = Nothing /\ tried = 0

\* The sources that had their turn have nothing to offer.
TriedInVain ==
    pc = "source" => \A m \in 1 .. tried : OffersNothing(SourcesOfGuest[m])

DiscoveryInvariant ==
    /\ TypeOK
    /\ NotSearchedYet
    /\ TriedInVain
    /\ FirstOfferWins
    /\ GivenUpOnlyWithoutOffer
    /\ ExclusionPrevails
=============================================================================
