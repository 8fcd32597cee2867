--------------------------- MODULE DiscoveryProofs ---------------------------
(***************************************************************************)
(* Proofs about Discovery, for any guests, filters, source orders, keys    *)
(* and answers of Proxmox VE.                                              *)
(***************************************************************************)
EXTENDS Discovery, Extrema, SequenceTheorems

(* The searches. *)

\* What FirstFound returns is a result, and none before it is one.
LEMMA FirstFoundIs ==
  ASSUME NEW results, NEW n \in Nat, DOMAIN results = 1 .. n
  PROVE  \/ /\ FirstFound(results) = Nothing
            /\ \A i \in 1 .. n : results[i] = Nothing
         \/ /\ FirstFound(results) # Nothing
            /\ \E i \in 1 .. n :
                  /\ FirstFound(results) = results[i]
                  /\ \A j \in 1 .. (i - 1) : results[j] = Nothing
<1> DEFINE found == {i \in DOMAIN results : results[i] # Nothing}
<1>1. CASE found = {}
  BY <1>1 DEF FirstFound
<1>2. CASE found # {}
  <2>1. found \in SUBSET Nat
    OBVIOUS
  <2>2. Min(found) \in found /\ \A y \in found : Min(found) <= y
    BY <1>2, <2>1, MinOfNaturals
  <2>3. FirstFound(results) = results[Min(found)]
    BY <1>2 DEF FirstFound
  <2>4. PICK i \in 1 .. n : i = Min(found)
    BY <2>2
  <2>5. ASSUME NEW j \in 1 .. (i - 1) PROVE results[j] = Nothing
    <3>1. j \in 1 .. n /\ ~(i <= j)
      OBVIOUS
    <3> QED
      BY <2>2, <2>4, <3>1
  <2>6. results[i] # Nothing
    BY <2>2, <2>4
  <2> QED
    BY <2>3, <2>4, <2>5, <2>6
<1> QED
  BY <1>1, <1>2

LEMMA FirstAddressIs ==
  ASSUME NEW addresses \in Seq(Values), NEW good \in SUBSET Addresses
  PROVE  \/ /\ FirstAddress(addresses, good) = Nothing
            /\ \A j \in DOMAIN addresses : addresses[j] \notin good
         \/ \E j \in DOMAIN addresses :
               /\ addresses[j] \in good
               /\ FirstAddress(addresses, good) = addresses[j]
               /\ \A k \in 1 .. (j - 1) : addresses[k] \notin good
<1> DEFINE results == [j \in DOMAIN addresses |-> OneOf(addresses[j], good)]
<1>1. DOMAIN addresses = 1 .. Len(addresses) /\ Len(addresses) \in Nat
  BY LenProperties
<1>2. \A j \in DOMAIN addresses :
         (results[j] = Nothing) <=> (addresses[j] \notin good)
  BY NothingAssumption DEF OneOf, Values
<1>3. \A j \in DOMAIN addresses : addresses[j] \in good => results[j] = addresses[j]
  BY DEF OneOf
<1>4. FirstAddress(addresses, good) = FirstFound(results)
  BY DEF FirstAddress
<1> HIDE DEF results
<1>5. DOMAIN results = 1 .. Len(addresses)
  BY <1>1 DEF results
<1> QED
  BY <1>1, <1>2, <1>3, <1>4, <1>5, FirstFoundIs

\* A description's value is that of the last line of the key.
LEMMA DescriptionValueIs ==
  ASSUME NEW lines \in Seq(Line), NEW key
  PROVE  \/ /\ DescriptionValue(lines, key) = Nothing
            /\ \A i \in DOMAIN lines : lines[i].key # key
         \/ \E i \in DOMAIN lines :
               /\ lines[i].key = key
               /\ DescriptionValue(lines, key) = lines[i].value
               /\ \A j \in (i + 1) .. Len(lines) : lines[j].key # key
<1>1. DOMAIN lines = 1 .. Len(lines) /\ Len(lines) \in Nat
  BY LenProperties
<1> DEFINE ofKey == LinesOf(lines, key)
<1>2. ofKey \in SUBSET (1 .. Len(lines))
  BY <1>1 DEF LinesOf
<1>3. CASE ofKey = {}
  BY <1>3 DEF DescriptionValue, LinesOf
<1>4. CASE ofKey # {}
  <2>1. Max(ofKey) \in ofKey /\ \A y \in ofKey : y <= Max(ofKey)
    BY <1>1, <1>2, <1>4, MaxOfInterval
  <2>2. PICK i \in 1 .. Len(lines) : i = Max(ofKey)
    BY <1>2, <2>1
  <2>3. ASSUME NEW j \in (i + 1) .. Len(lines) PROVE lines[j].key # key
    <3>1. j \in DOMAIN lines /\ ~(j <= i)
      BY <1>1
    <3> QED
      BY <2>1, <2>2, <3>1 DEF LinesOf
  <2>4. lines[i].key = key /\ DescriptionValue(lines, key) = lines[i].value
    BY <1>4, <2>1, <2>2 DEF DescriptionValue, LinesOf
  <2> QED
    BY <1>1, <2>3, <2>4
<1> QED
  BY <1>3, <1>4

LEMMA DescriptionOffer ==
  ASSUME config.description \in Seq(Line)
  PROVE  LET found == DescriptionAddress(config.description)
         IN  \/ found = Nothing /\ \A a \in Addresses : ~DescriptionOffers(a)
             \/ found \in Addresses /\ DescriptionOffers(found)
<1> DEFINE lines == config.description
           Value(n) == DescriptionValue(lines, IPKeys[n])
           results == [n \in DOMAIN IPKeys |-> OneOf(Value(n), Addresses)]
           Says(n, v) ==
               \E i \in DOMAIN lines :
                   /\ lines[i] = [key |-> IPKeys[n], value |-> v]
                   /\ \A j \in (i + 1) .. Len(lines) : lines[j].key # IPKeys[n]
<1>1. DOMAIN IPKeys = 1 .. Len(IPKeys) /\ Len(IPKeys) \in Nat
  BY KeyAssumption
<1>2. DOMAIN lines = 1 .. Len(lines) /\ Len(lines) \in Nat
  BY LenProperties
<1>3. ASSUME NEW n \in DOMAIN IPKeys, NEW v \in Addresses
      PROVE  Says(n, v) <=> Value(n) = v
  <2>1. ASSUME Says(n, v) PROVE Value(n) = v
    <3>1. PICK i \in DOMAIN lines :
             /\ lines[i] = [key |-> IPKeys[n], value |-> v]
             /\ \A j \in (i + 1) .. Len(lines) : lines[j].key # IPKeys[n]
      BY <2>1
    <3>2. lines[i].key = IPKeys[n] /\ lines[i].value = v
      BY <3>1
    <3>3. PICK h \in DOMAIN lines :
             /\ lines[h].key = IPKeys[n]
             /\ Value(n) = lines[h].value
             /\ \A j \in (h + 1) .. Len(lines) : lines[j].key # IPKeys[n]
      BY <3>2, DescriptionValueIs
    <3>4. h = i
      BY <1>2, <3>1, <3>2, <3>3
    <3> QED
      BY <3>2, <3>3, <3>4
  <2>2. ASSUME Value(n) = v PROVE Says(n, v)
    <3>1. Value(n) # Nothing
      BY <2>2, NothingAssumption DEF Values
    <3>2. PICK i \in DOMAIN lines :
             /\ lines[i].key = IPKeys[n]
             /\ Value(n) = lines[i].value
             /\ \A j \in (i + 1) .. Len(lines) : lines[j].key # IPKeys[n]
      BY <3>1, DescriptionValueIs
    <3>3. lines[i] \in Line
      BY <1>2, ElementOfSeq
    <3>4. lines[i] = [key |-> IPKeys[n], value |-> v]
      BY <2>2, <3>2, <3>3 DEF Line
    <3> QED
      BY <3>2, <3>4
  <2> QED
    BY <2>1, <2>2
<1> HIDE DEF Says, Value
<1>4. \A n \in DOMAIN IPKeys : results[n] = IF Value(n) \in Addresses THEN Value(n) ELSE Nothing
  BY DEF OneOf
<1>5. DescriptionAddress(lines) = FirstFound(results) /\ DOMAIN results = 1 .. Len(IPKeys)
  BY <1>1 DEF DescriptionAddress, Value
<1>6. \A a : DescriptionOffers(a) <=>
         \E n \in DOMAIN IPKeys :
            Says(n, a) /\ \A m \in 1 .. (n - 1) : \A v \in Addresses : ~Says(m, v)
  BY DEF DescriptionOffers, Says
<1> HIDE DEF results, lines
<1>7. CASE FirstFound(results) = Nothing /\ \A n \in DOMAIN IPKeys : results[n] = Nothing
  <2>1. \A n \in DOMAIN IPKeys : Value(n) \notin Addresses
    BY <1>4, <1>7, NothingAssumption DEF Values
  <2>2. \A a \in Addresses : ~DescriptionOffers(a)
    BY <1>3, <1>6, <2>1
  <2> QED
    BY <1>5, <1>7, <2>2 DEF lines
<1>8. ASSUME NEW n \in DOMAIN IPKeys, FirstFound(results) = results[n], results[n] # Nothing,
             \A m \in 1 .. (n - 1) : results[m] = Nothing
      PROVE  FirstFound(results) \in Addresses /\ DescriptionOffers(FirstFound(results))
  <2>1. Value(n) \in Addresses /\ FirstFound(results) = Value(n)
    BY <1>4, <1>8
  <2>2. \A m \in 1 .. (n - 1) : m \in DOMAIN IPKeys
    BY <1>1
  <2>3. \A m \in 1 .. (n - 1) : Value(m) \notin Addresses
    BY <1>4, <1>8, <2>2, NothingAssumption DEF Values
  <2>4. \A m \in 1 .. (n - 1) : \A v \in Addresses : ~Says(m, v)
    BY <1>3, <2>2, <2>3
  <2> QED
    BY <1>3, <1>6, <2>1, <2>4
<1> QED
  BY <1>1, <1>5, <1>7, <1>8, FirstFoundIs DEF lines

LEMMA NetworkOffer ==
  ASSUME config.network \in Seq(Seq(Values)), NEW good \in SUBSET Addresses,
         NEW results, DOMAIN results = DOMAIN config.network,
         \A i \in DOMAIN results : results[i] = OneOf(First(config.network[i]), good)
  PROVE  \/ FirstFound(results) = Nothing /\ \A a : ~NetworkOffers(a, good)
         \/ FirstFound(results) \in good /\ NetworkOffers(FirstFound(results), good)
<1> DEFINE net == config.network
           Fixed(i) == {v \in good : net[i] # <<>> /\ net[i][1] = v}
<1>1. DOMAIN net = 1 .. Len(net) /\ Len(net) \in Nat
  BY LenProperties
<1>2. \A i \in DOMAIN net :
         \/ results[i] = Nothing /\ Fixed(i) = {}
         \/ results[i] \in good /\ results[i] # Nothing /\ results[i] \in Fixed(i)
  BY NothingAssumption DEF OneOf, First, Values
<1>3. \A a : NetworkOffers(a, good) <=>
         \E i \in DOMAIN net : a \in Fixed(i) /\ \A k \in 1 .. (i - 1) : Fixed(k) = {}
  BY DEF NetworkOffers
<1>4. DOMAIN results = 1 .. Len(net)
  BY <1>1
<1> HIDE DEF Fixed, net
<1>5. \A i \in DOMAIN net : \A k \in 1 .. (i - 1) : k \in DOMAIN net
  BY <1>1
<1>6. CASE FirstFound(results) = Nothing /\ \A i \in DOMAIN net : results[i] = Nothing
  <2>1. \A i \in DOMAIN net : Fixed(i) = {}
    BY <1>2, <1>6
  <2> QED
    BY <1>3, <1>6, <2>1
<1>7. ASSUME NEW i \in DOMAIN net, FirstFound(results) = results[i], results[i] # Nothing,
             \A k \in 1 .. (i - 1) : results[k] = Nothing
      PROVE  FirstFound(results) \in good /\ NetworkOffers(FirstFound(results), good)
  <2>1. results[i] \in good /\ results[i] \in Fixed(i)
    BY <1>2, <1>7
  <2>2. \A k \in 1 .. (i - 1) : Fixed(k) = {}
    BY <1>2, <1>5, <1>7, NothingAssumption, AddressAssumption DEF Values
  <2> QED
    BY <1>3, <1>7, <2>1, <2>2
<1>8. \/ FirstFound(results) = Nothing /\ \A i \in DOMAIN net : results[i] = Nothing
      \/ \E i \in DOMAIN net :
            /\ FirstFound(results) = results[i] /\ results[i] # Nothing
            /\ \A k \in 1 .. (i - 1) : results[k] = Nothing
  BY <1>1, <1>4, FirstFoundIs
<1> QED
  BY <1>6, <1>7, <1>8

LEMMA AgentOffer ==
  ASSUME interfaces \in Seq(Interface)
  PROVE  LET found == DiscoverQEMUAgentIPv4(interfaces)
         IN  \/ found = Nothing /\ \A a : ~AgentOffers(a)
             \/ found \in Usable /\ AgentOffers(found)
<1> DEFINE results == [i \in DOMAIN interfaces |->
                          IF interfaces[i].loopback THEN Nothing
                          ELSE FirstAddress(interfaces[i].addresses, Usable)]
           Good(i) == {j \in DOMAIN interfaces[i].addresses :
                          ~interfaces[i].loopback /\ interfaces[i].addresses[j] \in Usable}
           Offer(i, a) == \E j \in Good(i) :
                             /\ interfaces[i].addresses[j] = a
                             /\ \A k \in 1 .. (j - 1) : k \notin Good(i)
<1>1. DOMAIN interfaces = 1 .. Len(interfaces) /\ Len(interfaces) \in Nat
  BY LenProperties
<1>2. ASSUME NEW i \in DOMAIN interfaces
      PROVE  \/ results[i] = Nothing /\ Good(i) = {}
             \/ results[i] \in Usable /\ results[i] # Nothing /\ Offer(i, results[i])
  <2>1. interfaces[i].addresses \in Seq(Values)
    <3>1. interfaces[i] \in Interface
      BY <1>1, ElementOfSeq
    <3> QED
      BY <3>1 DEF Interface
  <2>2. CASE interfaces[i].loopback
    BY <2>2
  <2>3. CASE ~interfaces[i].loopback
    <3> DEFINE addresses == interfaces[i].addresses
    <3>1. results[i] = FirstAddress(addresses, Usable)
      BY <2>3
    <3>2. CASE FirstAddress(addresses, Usable) = Nothing
               /\ \A j \in DOMAIN addresses : addresses[j] \notin Usable
      BY <3>1, <3>2
    <3>3. ASSUME NEW j \in DOMAIN addresses, addresses[j] \in Usable,
                 FirstAddress(addresses, Usable) = addresses[j],
                 \A k \in 1 .. (j - 1) : addresses[k] \notin Usable
          PROVE  results[i] \in Usable /\ results[i] # Nothing /\ Offer(i, results[i])
      <4>1. j \in Good(i) /\ \A k \in 1 .. (j - 1) : k \notin Good(i)
        BY <2>3, <3>3
      <4>2. results[i] = addresses[j]
        BY <3>1, <3>3
      <4> HIDE DEF results, Good
      <4> QED
        BY <3>3, <4>1, <4>2, AddressAssumption, NothingAssumption DEF Values
    <3> HIDE DEF addresses, results, Good
    <3> QED
      BY <2>1, <3>2, <3>3, FirstAddressIs, AddressAssumption DEF addresses, Good
  <2> QED
    BY <2>2, <2>3
<1>3. \A a : AgentOffers(a) <=>
         \E i \in DOMAIN interfaces :
            Offer(i, a) /\ \A h \in 1 .. (i - 1) : Good(h) = {}
  BY DEF AgentOffers
<1>4. \A i, a : Offer(i, a) => Good(i) # {}
  OBVIOUS
<1>5. DOMAIN results = 1 .. Len(interfaces) /\ DiscoverQEMUAgentIPv4(interfaces) = FirstFound(results)
  BY <1>1 DEF DiscoverQEMUAgentIPv4
<1> HIDE DEF Good, Offer, results
<1>6. \A i \in DOMAIN interfaces : \A h \in 1 .. (i - 1) : h \in DOMAIN interfaces
  BY <1>1
<1> QED
  BY <1>1, <1>2, <1>3, <1>4, <1>5, <1>6, FirstFoundIs

-----------------------------------------------------------------------------
(* The sources of a guest. *)

AllSources == {"guest-agent", "description", "cloudinit", "config"}

LEMMA AnswersType ==
  TypeOK => /\ config.description \in Seq(Line)
            /\ config.network \in Seq(Seq(Values))
            /\ interfaces \in Seq(Interface)
  BY InputAssumption, EmptySeq DEF TypeOK

\* What a source gives is what the reference says it offers.
LEMMA DiscoverOffer ==
  ASSUME TypeOK, NEW s \in AllSources
  PROVE  LET found == Discover(s, config, interfaces)
         IN  \/ found = Nothing /\ OffersNothing(s)
             \/ found # Nothing /\ found \in Addresses /\ Offers(s, found)
<1> DEFINE found == Discover(s, config, interfaces)
<1>1. Nothing \notin Addresses /\ Usable \subseteq Addresses
  BY NothingAssumption, AddressAssumption DEF Values
<1>2. CASE s = "guest-agent"
  <2>1. found = DiscoverQEMUAgentIPv4(interfaces)
    BY <1>2 DEF Discover
  <2>2. \A a : Offers(s, a) <=> AgentOffers(a)
    BY <1>2 DEF Offers
  <2> QED
    BY <1>1, <2>1, <2>2, AgentOffer, AnswersType DEF OffersNothing
<1>3. CASE s = "description"
  <2>1. found = DescriptionAddress(config.description)
    BY <1>3 DEF Discover
  <2>2. \A a : Offers(s, a) <=> DescriptionOffers(a)
    BY <1>3 DEF Offers
  <2> QED
    BY <1>1, <2>1, <2>2, DescriptionOffer, AnswersType DEF OffersNothing
<1>4. CASE s = "cloudinit"
  <2> DEFINE results == [i \in DOMAIN config.network |-> ParseCloudInitIPv4(config.network[i])]
  <2>1. found = FirstFound(results)
    BY <1>4 DEF Discover, DiscoverCloudInitIPv4
  <2>2. \A a : Offers(s, a) <=> NetworkOffers(a, Usable)
    BY <1>4 DEF Offers
  <2>3. /\ DOMAIN results = DOMAIN config.network
        /\ \A i \in DOMAIN results : results[i] = OneOf(First(config.network[i]), Usable)
    BY DEF ParseCloudInitIPv4
  <2> HIDE DEF results
  <2> QED
    BY <1>1, <2>1, <2>2, <2>3, NetworkOffer, AnswersType DEF OffersNothing
<1>5. CASE s = "config"
  <2> DEFINE results == [i \in DOMAIN config.network |-> ParseNetworkConfigIPv4(config.network[i])]
  <2>1. found = FirstFound(results)
    BY <1>5 DEF Discover, DiscoverLXCConfigIPv4
  <2>2. \A a : Offers(s, a) <=> NetworkOffers(a, Addresses)
    BY <1>5 DEF Offers
  <2>3. /\ DOMAIN results = DOMAIN config.network
        /\ \A i \in DOMAIN results : results[i] = OneOf(First(config.network[i]), Addresses)
    BY DEF ParseNetworkConfigIPv4
  <2> HIDE DEF results
  <2> QED
    BY <1>1, <2>1, <2>2, <2>3, NetworkOffer, AnswersType DEF OffersNothing
<1> QED
  BY <1>2, <1>3, <1>4, <1>5 DEF AllSources

LEMMA SourcesType ==
  ASSUME TypeOK
  PROVE  /\ Len(SourcesOfGuest) \in Nat /\ DOMAIN SourcesOfGuest = 1 .. Len(SourcesOfGuest)
         /\ \A n \in DOMAIN SourcesOfGuest :
               /\ SourcesOfGuest[n] \in AllSources
               /\ SourcesOfGuest[n] = "config" => guest.facts.type = "lxc"
<1>1. guest.facts.type \in {"qemu", "lxc"}
  BY InputAssumption DEF TypeOK, GuestFacts, GuestTypes
<1>2. /\ order.qemu \in Seq({"guest-agent", "description", "cloudinit"})
      /\ order.lxc \in Seq({"config", "description"})
  BY InputAssumption DEF TypeOK
<1>3. CASE guest.facts.type = "qemu"
  <2>1. SourcesOfGuest = order.qemu
    BY <1>3 DEF SourcesOfGuest, OrderOf
  <2>2. Len(order.qemu) \in Nat /\ DOMAIN order.qemu = 1 .. Len(order.qemu)
    BY <1>2, LenProperties
  <2>3. \A n \in 1 .. Len(order.qemu) : order.qemu[n] \in {"guest-agent", "description", "cloudinit"}
    BY <1>2, ElementOfSeq
  <2> QED
    BY <2>1, <2>2, <2>3 DEF AllSources
<1>4. CASE guest.facts.type = "lxc"
  <2>1. SourcesOfGuest = order.lxc
    BY <1>4 DEF SourcesOfGuest, OrderOf
  <2>2. Len(order.lxc) \in Nat /\ DOMAIN order.lxc = 1 .. Len(order.lxc)
    BY <1>2, LenProperties
  <2>3. \A n \in 1 .. Len(order.lxc) : order.lxc[n] \in {"config", "description"}
    BY <1>2, ElementOfSeq
  <2> QED
    BY <1>4, <2>1, <2>2, <2>3 DEF AllSources
<1> QED
  BY <1>1, <1>3, <1>4

\* The source whose turn it is, and what it gives.
LEMMA SourceGives ==
  ASSUME TypeOK, tried < Len(SourcesOfGuest)
  PROVE  /\ tried + 1 \in DOMAIN SourcesOfGuest
         /\ LET found == Discover(Source, config, interfaces)
            IN  \/ found = Nothing /\ OffersNothing(SourcesOfGuest[tried + 1])
                \/ /\ found # Nothing /\ found \in Addresses
                   /\ Offers(SourcesOfGuest[tried + 1], found)
<1>1. tried \in Nat
  BY SourcesType DEF TypeOK
<1>2. tried + 1 \in DOMAIN SourcesOfGuest
  BY <1>1, SourcesType
<1>3. SourcesOfGuest[tried + 1] \in AllSources
  BY <1>2, SourcesType
<1> QED
  BY <1>2, <1>3, DiscoverOffer DEF Source

LEMMA HostnameType ==
  ASSUME TypeOK
  PROVE  resolveHostname(guest.name, config) \in Hostnames \cup {Nothing}
<1> DEFINE lines == config.description
           results == [n \in DOMAIN NameKeys |-> DescriptionValue(lines, NameKeys[n])]
<1>1. guest.name \in RawNames
  BY InputAssumption DEF TypeOK
<1>2. ASSUME NEW n \in DOMAIN NameKeys
      PROVE  DescriptionValue(lines, NameKeys[n]) \in RawNames \cup {Nothing}
  <2>1. CASE DescriptionValue(lines, NameKeys[n]) = Nothing
    BY <2>1
  <2>2. ASSUME NEW i \in DOMAIN lines, lines[i].key = NameKeys[n],
               DescriptionValue(lines, NameKeys[n]) = lines[i].value
        PROVE  DescriptionValue(lines, NameKeys[n]) \in RawNames \cup {Nothing}
    <3>1. lines[i] \in Line
      BY AnswersType, LenProperties, ElementOfSeq
    <3>2. NameKeys[n] \in ToSet(NameKeys) /\ NameKeys[n] \notin ToSet(IPKeys)
      BY KeyAssumption DEF ToSet
    <3> QED
      BY <2>2, <3>1, <3>2 DEF Line
  <2> QED
    BY <2>1, <2>2, DescriptionValueIs, AnswersType
<1>3. DescriptionName(lines) = FirstFound(results)
  BY DEF DescriptionName
<1>4. DOMAIN results = 1 .. Len(NameKeys) /\ Len(NameKeys) \in Nat
  BY KeyAssumption
<1>5. \A n \in DOMAIN results : results[n] \in RawNames \cup {Nothing}
  BY <1>2
<1> HIDE DEF results
<1>6. DescriptionName(lines) \in RawNames \cup {Nothing}
  BY <1>3, <1>4, <1>5, FirstFoundIs
<1> QED
  BY <1>1, <1>6, NameAssumption DEF resolveHostname

-----------------------------------------------------------------------------
(* The invariant. *)

\* What the filters, taken together, ask for.
Wanted ==
    LET facts == guest.facts
    IN  /\ facts.type \in filters.includeTypes
        /\ facts.identified /\ ~facts.template
        /\ facts.running \/ ~filters.requireRunning
        /\ filters.includeNames = {} \/ facts.matches \cap filters.includeNames # {}
        /\ filters.includeTags = {}  \/ facts.tags \cap filters.includeTags # {}
        /\ facts.matches \cap filters.excludeNames = {}
        /\ facts.tags \cap filters.excludeTags = {}

LEMMA EvaluateIs == Evaluate(filters, guest.facts).included <=> Wanted
<1> DEFINE checks == Checks(filters, guest.facts)
<1>1. DOMAIN checks = 1 .. 8
  BY DEF Checks
<1>2. /\ checks[1].hit = (guest.facts.type \notin filters.includeTypes)
      /\ checks[2].hit = guest.facts.template
      /\ checks[3].hit = ~guest.facts.identified
      /\ checks[4].hit = (filters.requireRunning /\ ~guest.facts.running)
      /\ checks[5].hit = (filters.includeNames # {} /\ guest.facts.matches \cap filters.includeNames = {})
      /\ checks[6].hit = (guest.facts.matches \cap filters.excludeNames # {})
      /\ checks[7].hit = (filters.includeTags # {} /\ guest.facts.tags \cap filters.includeTags = {})
      /\ checks[8].hit = (guest.facts.tags \cap filters.excludeTags # {})
  BY DEF Checks
<1>3. Evaluate(filters, guest.facts).included <=> Hits(checks) = {}
  BY DEF Evaluate, Included, Excluded
<1> HIDE DEF checks
<1>4. Hits(checks) = {} <=> \A k \in 1 .. 8 : ~checks[k].hit
  BY <1>1 DEF Hits
<1>5. (\A k \in 1 .. 8 : ~checks[k].hit) <=>
         /\ ~checks[1].hit /\ ~checks[2].hit /\ ~checks[3].hit /\ ~checks[4].hit
         /\ ~checks[5].hit /\ ~checks[6].hit /\ ~checks[7].hit /\ ~checks[8].hit
  OBVIOUS
<1> QED
  BY <1>2, <1>3, <1>4, <1>5 DEF Wanted

LEMMA InitInvariant == Init => DiscoveryInvariant
<1> SUFFICES ASSUME Init PROVE DiscoveryInvariant
  OBVIOUS
<1>1. pc = "listed" /\ hostname = Nothing /\ tried = 0
  BY DEF Init
<1>2. TypeOK
  <2>1. SourcesOfGuest = OrderOf(guest.facts.type)
    BY DEF SourcesOfGuest
  <2>2. Len(SourcesOfGuest) \in Nat
    <3>1. /\ guest.facts.type \in {"qemu", "lxc"}
          /\ order.qemu \in Seq({"guest-agent", "description", "cloudinit"})
          /\ order.lxc \in Seq({"config", "description"})
      BY InputAssumption DEF Init, GuestFacts, GuestTypes
    <3> QED
      BY <2>1, <3>1, LenProperties DEF OrderOf
  <2> QED
    BY <2>2 DEF Init, TypeOK, NoConfig, Underway
<1> QED
  BY <1>1, <1>2
     DEF DiscoveryInvariant, NotSearchedYet, TriedInVain, FirstOfferWins,
         GivenUpOnlyWithoutOffer, ExclusionPrevails

LEMMA TypesKept == TypeOK /\ [Next]_vars => TypeOK'
<1> SUFFICES ASSUME TypeOK, [Next]_vars PROVE TypeOK'
  OBVIOUS
<1> USE DEF Underway, Settled
<1>1. CASE Exclude
  BY <1>1 DEF TypeOK, Exclude, SourcesOfGuest, OrderOf
<1>2. CASE Include
  BY <1>2 DEF TypeOK, Include, SourcesOfGuest, OrderOf
<1>3. CASE retrieveGuestConfig
  BY <1>3 DEF TypeOK, retrieveGuestConfig, SourcesOfGuest, OrderOf
<1>4. CASE GuestLeftOut
  BY <1>4 DEF TypeOK, GuestLeftOut, SourcesOfGuest, OrderOf
<1>5. CASE GetQEMUAgentInterfaces
  BY <1>5 DEF TypeOK, GetQEMUAgentInterfaces, SourcesOfGuest, OrderOf
<1>6. CASE AgentUnavailable
  BY <1>6 DEF TypeOK, AgentUnavailable, SourcesOfGuest, OrderOf
<1>7. CASE ResolveName
  BY <1>7, HostnameType DEF TypeOK, ResolveName, SourcesOfGuest, OrderOf
<1>8. CASE NextSource
  <2>1. tried' \in 0 .. Len(SourcesOfGuest)
    BY <1>8, SourcesType DEF NextSource, TypeOK
  <2> QED
    BY <1>8, <2>1 DEF TypeOK, NextSource, SourcesOfGuest, OrderOf
<1>9. CASE Resolve
  <2>1. address' \in Addresses
    BY <1>9, SourceGives DEF Resolve
  <2> QED
    BY <1>9, <2>1 DEF TypeOK, Resolve, SourcesOfGuest, OrderOf
<1>10. CASE NothingDiscovered
  BY <1>10 DEF TypeOK, NothingDiscovered, SourcesOfGuest, OrderOf
<1>11. CASE NextGuest
  <2>1. /\ guest'.facts.type \in {"qemu", "lxc"}
        /\ order.qemu \in Seq({"guest-agent", "description", "cloudinit"})
        /\ order.lxc \in Seq({"config", "description"})
    BY <1>11, InputAssumption DEF NextGuest, TypeOK, GuestFacts, GuestTypes
  <2>2. SourcesOfGuest' \in {order.qemu, order.lxc}
    BY <1>11, <2>1 DEF NextGuest, SourcesOfGuest, OrderOf
  <2>3. Len(SourcesOfGuest)' \in Nat
    BY <2>1, <2>2, LenProperties
  <2> QED
    BY <1>11, <2>3 DEF TypeOK, NextGuest, NoConfig
<1>12. CASE UNCHANGED vars
  BY <1>12 DEF TypeOK, vars, SourcesOfGuest, OrderOf
<1> QED
  BY <1>1, <1>2, <1>3, <1>4, <1>5, <1>6, <1>7, <1>8, <1>9, <1>10, <1>11, <1>12 DEF Next

\* What a source offers depends on the answers of Proxmox VE only.
LEMMA OffersUnchanged ==
  ASSUME UNCHANGED <<config, interfaces, order, guest>>
  PROVE  /\ SourcesOfGuest' = SourcesOfGuest
         /\ \A s : OffersNothing(s)' <=> OffersNothing(s)
         /\ \A s, a : Offers(s, a)' <=> Offers(s, a)
<1>1. SourcesOfGuest' = SourcesOfGuest
  BY DEF SourcesOfGuest, OrderOf
<1>2. \A a : /\ AgentOffers(a)' <=> AgentOffers(a)
             /\ DescriptionOffers(a)' <=> DescriptionOffers(a)
             /\ \A good : NetworkOffers(a, good)' <=> NetworkOffers(a, good)
  BY DEF AgentOffers, DescriptionOffers, NetworkOffers
<1>3. \A s, a : Offers(s, a)' <=> Offers(s, a)
  BY <1>2 DEF Offers
<1> QED
  BY <1>1, <1>3 DEF OffersNothing

LEMMA NotSearchedKept ==
  ASSUME TypeOK, NotSearchedYet, [Next]_vars
  PROVE  NotSearchedYet'
<1> USE DEF NotSearchedYet
<1>1. CASE Exclude \/ Include \/ NextGuest
  BY <1>1 DEF Exclude, Include, NextGuest
<1>2. CASE retrieveGuestConfig \/ GuestLeftOut
  BY <1>2 DEF retrieveGuestConfig, GuestLeftOut
<1>3. CASE GetQEMUAgentInterfaces \/ AgentUnavailable
  BY <1>3 DEF GetQEMUAgentInterfaces, AgentUnavailable
<1>4. CASE ResolveName
  BY <1>4 DEF ResolveName
<1>5. CASE NextSource \/ Resolve \/ NothingDiscovered
  BY <1>5 DEF NextSource, Resolve, NothingDiscovered
<1>6. CASE UNCHANGED vars
  BY <1>6 DEF vars
<1> QED
  BY <1>1, <1>2, <1>3, <1>4, <1>5, <1>6 DEF Next

LEMMA TriedInVainKept ==
  ASSUME TypeOK, NotSearchedYet, TriedInVain, [Next]_vars
  PROVE  TriedInVain'
<1>1. CASE ResolveName
  <2>1. tried' = 0
    BY <1>1 DEF ResolveName, NotSearchedYet
  <2> QED
    BY <2>1 DEF TriedInVain
<1>2. CASE NextSource
  <2>1. UNCHANGED <<config, interfaces, order, guest>> /\ tried' = tried + 1 /\ pc = "source"
    BY <1>2 DEF NextSource
  <2>2. OffersNothing(SourcesOfGuest[tried + 1])
    BY <1>2, SourceGives DEF NextSource
  <2>3. tried \in Nat
    BY SourcesType DEF TypeOK
  <2>4. \A m \in 1 .. tried' : OffersNothing(SourcesOfGuest[m])
    <3> TAKE m \in 1 .. tried'
    <3>1. m \in 1 .. tried \/ m = tried + 1
      BY <2>1, <2>3
    <3> QED
      BY <2>1, <2>2, <3>1 DEF TriedInVain
  <2>5. \A m : OffersNothing(SourcesOfGuest[m])' <=> OffersNothing(SourcesOfGuest[m])
    BY <2>1, OffersUnchanged
  <2>6. \A m \in 1 .. tried' : OffersNothing(SourcesOfGuest[m])'
    BY <2>4, <2>5
  <2> QED
    BY <2>6 DEF TriedInVain
<1>3. CASE UNCHANGED vars
  <2>1. UNCHANGED <<config, interfaces, order, guest>> /\ tried' = tried /\ pc' = pc
    BY <1>3 DEF vars
  <2>2. \A m : OffersNothing(SourcesOfGuest[m])' <=> OffersNothing(SourcesOfGuest[m])
    BY <2>1, OffersUnchanged
  <2> QED
    BY <2>1, <2>2 DEF TriedInVain
<1>4. CASE Exclude \/ Include \/ retrieveGuestConfig \/ GuestLeftOut \/ GetQEMUAgentInterfaces
           \/ AgentUnavailable \/ Resolve \/ NothingDiscovered \/ NextGuest
  <2>1. pc' # "source"
    BY <1>4 DEF Exclude, Include, retrieveGuestConfig, GuestLeftOut, GetQEMUAgentInterfaces,
                AgentUnavailable, Resolve, NothingDiscovered, NextGuest
  <2> QED
    BY <2>1 DEF TriedInVain
<1> QED
  BY <1>1, <1>2, <1>3, <1>4 DEF Next

LEMMA FirstOfferKept ==
  ASSUME TypeOK, TriedInVain, FirstOfferWins, [Next]_vars
  PROVE  FirstOfferWins'
<1>1. CASE Resolve
  <2>1. UNCHANGED <<config, interfaces, order, guest>> /\ pc = "source"
    BY <1>1 DEF Resolve
  <2>2. PICK n \in DOMAIN SourcesOfGuest : n = tried + 1
    BY <1>1, SourceGives DEF Resolve
  <2>3. PICK a \in Addresses : a = address' /\ Offers(SourcesOfGuest[n], a)
    BY <1>1, <2>2, SourceGives DEF Resolve
  <2>4. \A m \in 1 .. (n - 1) : OffersNothing(SourcesOfGuest[m])
    BY <2>1, <2>2, SourcesType DEF TriedInVain, TypeOK
  <2>5. /\ SourcesOfGuest' = SourcesOfGuest
        /\ \A m : OffersNothing(SourcesOfGuest[m])' <=> OffersNothing(SourcesOfGuest[m])
        /\ Offers(SourcesOfGuest[n], a)' <=> Offers(SourcesOfGuest[n], a)
    BY <2>1, OffersUnchanged
  <2>6. Offers(SourcesOfGuest[n], address)' <=> Offers(SourcesOfGuest[n], a)'
    BY <2>3 DEF Offers
  <2>7. n \in (DOMAIN SourcesOfGuest)' /\ Offers(SourcesOfGuest[n], address)'
    BY <2>3, <2>5, <2>6
  <2>8. \A m \in 1 .. (n - 1) : OffersNothing(SourcesOfGuest[m])'
    BY <2>4, <2>5
  <2> QED
    BY <2>7, <2>8 DEF FirstOfferWins
<1>2. CASE UNCHANGED vars
  <2>1. UNCHANGED <<config, interfaces, order, guest>> /\ pc' = pc /\ address' = address
    BY <1>2 DEF vars
  <2>2. /\ SourcesOfGuest' = SourcesOfGuest
        /\ \A m : OffersNothing(SourcesOfGuest[m])' <=> OffersNothing(SourcesOfGuest[m])
        /\ \A m : Offers(SourcesOfGuest[m], address)' <=> Offers(SourcesOfGuest[m], address)
    BY <2>1, OffersUnchanged
  <2> QED
    BY <2>1, <2>2 DEF FirstOfferWins
<1>3. CASE Exclude \/ Include \/ retrieveGuestConfig \/ GuestLeftOut \/ GetQEMUAgentInterfaces
           \/ AgentUnavailable \/ ResolveName \/ NextSource \/ NothingDiscovered \/ NextGuest
  <2>1. pc' # "resolved"
    BY <1>3 DEF Exclude, Include, retrieveGuestConfig, GuestLeftOut, GetQEMUAgentInterfaces,
                AgentUnavailable, ResolveName, NextSource, NothingDiscovered, NextGuest
  <2> QED
    BY <2>1 DEF FirstOfferWins
<1> QED
  BY <1>1, <1>2, <1>3 DEF Next

\* A guest is given up with a hostname only at the end of its sources.
LEMMA GivenUpKept ==
  ASSUME TypeOK, NotSearchedYet, TriedInVain, GivenUpOnlyWithoutOffer, [Next]_vars
  PROVE  GivenUpOnlyWithoutOffer'
<1>1. CASE NothingDiscovered
  <2>1. /\ UNCHANGED <<config, interfaces, order, guest>>
        /\ pc = "source" /\ tried = Len(SourcesOfGuest)
    BY <1>1 DEF NothingDiscovered
  <2>2. \A n \in DOMAIN SourcesOfGuest : OffersNothing(SourcesOfGuest[n])
    BY <2>1, SourcesType DEF TriedInVain
  <2>3. /\ SourcesOfGuest' = SourcesOfGuest
        /\ \A m : OffersNothing(SourcesOfGuest[m])' <=> OffersNothing(SourcesOfGuest[m])
    BY <2>1, OffersUnchanged
  <2> QED
    BY <2>2, <2>3 DEF GivenUpOnlyWithoutOffer
<1>2. CASE GuestLeftOut
  <2>1. hostname' = Nothing
    BY <1>2 DEF GuestLeftOut, NotSearchedYet
  <2> QED
    BY <2>1 DEF GivenUpOnlyWithoutOffer
<1>3. CASE ResolveName
  <2>1. pc' = "unresolved" => hostname' = Nothing
    BY <1>3 DEF ResolveName
  <2> QED
    BY <2>1 DEF GivenUpOnlyWithoutOffer
<1>4. CASE UNCHANGED vars
  <2>1. UNCHANGED <<config, interfaces, order, guest>> /\ pc' = pc /\ hostname' = hostname
    BY <1>4 DEF vars
  <2>2. /\ SourcesOfGuest' = SourcesOfGuest
        /\ \A m : OffersNothing(SourcesOfGuest[m])' <=> OffersNothing(SourcesOfGuest[m])
    BY <2>1, OffersUnchanged
  <2> QED
    BY <2>1, <2>2 DEF GivenUpOnlyWithoutOffer
<1>5. CASE Exclude \/ Include \/ retrieveGuestConfig \/ GetQEMUAgentInterfaces
           \/ AgentUnavailable \/ NextSource \/ Resolve \/ NextGuest
  <2>1. pc' # "unresolved"
    BY <1>5 DEF Exclude, Include, retrieveGuestConfig, GetQEMUAgentInterfaces,
                AgentUnavailable, NextSource, Resolve, NextGuest
  <2> QED
    BY <2>1 DEF GivenUpOnlyWithoutOffer
<1> QED
  BY <1>1, <1>2, <1>3, <1>4, <1>5 DEF Next

LEMMA ExclusionIs == ExclusionPrevails <=> (pc # "listed" => (pc = "excluded" <=> ~Wanted))
  BY DEF ExclusionPrevails, Wanted

LEMMA ExclusionKept ==
  ASSUME TypeOK, ExclusionPrevails, [Next]_vars
  PROVE  ExclusionPrevails'
<1>1. ExclusionPrevails' <=> (pc' # "listed" => (pc' = "excluded" <=> ~Wanted'))
  BY DEF ExclusionPrevails, Wanted
<1>2. ASSUME guest' = guest, filters' = filters PROVE Wanted' <=> Wanted
  BY <1>2 DEF Wanted
<1>3. CASE Exclude \/ Include
  <2>1. guest' = guest /\ filters' = filters
    BY <1>3 DEF Exclude, Include
  <2>2. pc' # "listed" /\ (pc' = "excluded" <=> ~Evaluate(filters, guest.facts).included)
    BY <1>3 DEF Exclude, Include
  <2> QED
    BY <1>1, <1>2, <2>1, <2>2, EvaluateIs
<1>4. CASE retrieveGuestConfig \/ GuestLeftOut \/ GetQEMUAgentInterfaces \/ AgentUnavailable
           \/ ResolveName \/ NextSource \/ Resolve \/ NothingDiscovered
  <2>1. /\ guest' = guest /\ filters' = filters
        /\ pc \notin {"listed", "excluded"} /\ pc' \notin {"listed", "excluded"}
    BY <1>4 DEF retrieveGuestConfig, GuestLeftOut, GetQEMUAgentInterfaces, AgentUnavailable,
                ResolveName, NextSource, Resolve, NothingDiscovered
  <2> QED
    BY <1>1, <1>2, <2>1, ExclusionIs
<1>5. CASE NextGuest
  BY <1>1, <1>5 DEF NextGuest
<1>6. CASE UNCHANGED vars
  <2>1. guest' = guest /\ filters' = filters /\ pc' = pc
    BY <1>6 DEF vars
  <2> QED
    BY <1>1, <1>2, <2>1, ExclusionIs
<1> QED
  BY <1>3, <1>4, <1>5, <1>6 DEF Next

-----------------------------------------------------------------------------
(* The results. *)

\* The invariant that carries the others holds: whatever was tried had nothing
\* to offer, and what became of a guest follows (main.go:373-454,
\* resolver.go:57-223, selector.go:40-102).
THEOREM DiscoveryInvariantHolds == Spec => []DiscoveryInvariant
<1>1. DiscoveryInvariant /\ [Next]_vars => DiscoveryInvariant'
  BY TypesKept, NotSearchedKept, TriedInVainKept, FirstOfferKept, GivenUpKept, ExclusionKept
     DEF DiscoveryInvariant
<1> QED
  BY InitInvariant, <1>1, PTL DEF Spec

\* Every variable keeps to its type: an address is an IPv4 address, whatever
\* Proxmox VE answers, and no source is tried beyond the last.
THEOREM TypesHold == Spec => []TypeOK
<1>1. DiscoveryInvariant => TypeOK
  BY DEF DiscoveryInvariant
<1> QED
  BY <1>1, DiscoveryInvariantHolds, PTL

\* The first source of the configured order that has an address decides, however
\* many sources, keys, interfaces and addresses there are.
THEOREM FirstOfferWinsAlways == Spec => []FirstOfferWins
<1>1. DiscoveryInvariant => FirstOfferWins
  BY DEF DiscoveryInvariant
<1> QED
  BY <1>1, DiscoveryInvariantHolds, PTL

\* A guest with a name is given up only when none of its sources has an address.
THEOREM NobodyGivenUpEarly == Spec => []GivenUpOnlyWithoutOffer
<1>1. DiscoveryInvariant => GivenUpOnlyWithoutOffer
  BY DEF DiscoveryInvariant
<1> QED
  BY <1>1, DiscoveryInvariantHolds, PTL

\* The guests that are looked at are those that every filter lets through.
THEOREM ExclusionAlwaysPrevails == Spec => []ExclusionPrevails
<1>1. DiscoveryInvariant => ExclusionPrevails
  BY DEF DiscoveryInvariant
<1> QED
  BY <1>1, DiscoveryInvariantHolds, PTL

\* Who wrote an address down that is not usable.
LEMMA UnusableIsWritten ==
  ASSUME DiscoveryInvariant
  PROVE  UnusableOnlyByHand
<1> SUFFICES ASSUME pc = "resolved", address \notin Usable
             PROVE  \/ \E i \in DOMAIN config.description : config.description[i].value = address
                    \/ /\ guest.facts.type = "lxc"
                       /\ \E i \in DOMAIN config.network : First(config.network[i]) = address
  BY DEF UnusableOnlyByHand
<1>1. PICK n \in DOMAIN SourcesOfGuest : Offers(SourcesOfGuest[n], address)
  BY DEF DiscoveryInvariant, FirstOfferWins
<1>2. SourcesOfGuest[n] \in AllSources /\ (SourcesOfGuest[n] = "config" => guest.facts.type = "lxc")
  BY <1>1, SourcesType DEF DiscoveryInvariant
<1>3. CASE SourcesOfGuest[n] = "guest-agent"
  BY <1>1, <1>3 DEF Offers, AgentOffers
<1>4. CASE SourcesOfGuest[n] = "description"
  <2>1. DescriptionOffers(address)
    BY <1>1, <1>4 DEF Offers
  <2>2. PICK m \in DOMAIN IPKeys, i \in DOMAIN config.description :
           config.description[i] = [key |-> IPKeys[m], value |-> address]
    BY <2>1 DEF DescriptionOffers
  <2> QED
    BY <2>2
<1>5. CASE SourcesOfGuest[n] = "cloudinit"
  BY <1>1, <1>5 DEF Offers, NetworkOffers
<1>6. CASE SourcesOfGuest[n] = "config"
  BY <1>1, <1>2, <1>6 DEF Offers, NetworkOffers, First
<1> QED
  BY <1>2, <1>3, <1>4, <1>5, <1>6 DEF AllSources

\* No loopback, link-local, multicast or unspecified address is published that
\* nobody wrote down.
THEOREM UnusableAlwaysByHand == Spec => []UnusableOnlyByHand
<1>1. DiscoveryInvariant => UnusableOnlyByHand
  BY UnusableIsWritten
<1> QED
  BY <1>1, DiscoveryInvariantHolds, PTL

\* Of an agent's answer, of a network configuration and of a description there is
\* one first address.
LEMMA AgentOfferUnique ==
  ASSUME interfaces \in Seq(Interface), NEW a, NEW b, AgentOffers(a), AgentOffers(b)
  PROVE  a = b
<1> DEFINE addresses(i) == interfaces[i].addresses
           Good(i) == {j \in DOMAIN addresses(i) :
                          ~interfaces[i].loopback /\ addresses(i)[j] \in Usable}
           At(v, i, j) == /\ i \in DOMAIN interfaces /\ j \in Good(i)
                          /\ addresses(i)[j] = v
                          /\ \A k \in 1 .. (j - 1) : k \notin Good(i)
                          /\ \A h \in 1 .. (i - 1) : Good(h) = {}
<1>1. DOMAIN interfaces = 1 .. Len(interfaces) /\ Len(interfaces) \in Nat
  BY LenProperties
<1>2. \A i \in DOMAIN interfaces : Good(i) \subseteq Nat \ {0}
  <2> TAKE i \in DOMAIN interfaces
  <2>1. interfaces[i] \in Interface
    BY ElementOfSeq, <1>1
  <2> HIDE DEF Good
  <2>3. addresses(i) \in Seq(Values)
    BY <2>1 DEF Interface
  <2>2. DOMAIN addresses(i) = 1 .. Len(addresses(i)) /\ Len(addresses(i)) \in Nat
    BY <2>3, LenProperties
  <2> QED
    BY <2>2 DEF Good
<1>3. \A v : AgentOffers(v) => \E i, j : At(v, i, j)
  BY DEF AgentOffers
<1>4. PICK i, j : At(a, i, j)
  BY <1>3
<1>5. PICK g, k : At(b, g, k)
  BY <1>3
<1> HIDE DEF Good, addresses
<1>6. i \in Nat \ {0} /\ g \in Nat \ {0}
  BY <1>1, <1>4, <1>5
<1>7. i = g
  <2>1. ~(i < g)
    BY <1>4, <1>5, <1>6
  <2>2. ~(g < i)
    BY <1>4, <1>5, <1>6
  <2> QED
    BY <1>6, <2>1, <2>2
<1>8. j \in Nat \ {0} /\ k \in Nat \ {0}
  BY <1>2, <1>4, <1>5
<1>9. j = k
  <2>1. ~(j < k)
    BY <1>4, <1>5, <1>7, <1>8
  <2>2. ~(k < j)
    BY <1>4, <1>5, <1>7, <1>8
  <2> QED
    BY <1>8, <2>1, <2>2
<1> QED
  BY <1>4, <1>5, <1>7, <1>9

LEMMA NetworkOfferUnique ==
  ASSUME config.network \in Seq(Seq(Values)), NEW good, NEW a, NEW b,
         NetworkOffers(a, good), NetworkOffers(b, good)
  PROVE  a = b
<1> DEFINE Fixed(i) == {v \in good : config.network[i] # <<>> /\ config.network[i][1] = v}
           At(v, i) == /\ i \in DOMAIN config.network /\ v \in Fixed(i)
                       /\ \A k \in 1 .. (i - 1) : Fixed(k) = {}
<1>1. DOMAIN config.network = 1 .. Len(config.network) /\ Len(config.network) \in Nat
  BY LenProperties
<1>2. PICK i : At(a, i)
  BY DEF NetworkOffers
<1>3. PICK k : At(b, k)
  BY DEF NetworkOffers
<1>4. ASSUME NEW n, NEW v \in Fixed(n), NEW w \in Fixed(n)
      PROVE  v = w
  OBVIOUS
<1> HIDE DEF Fixed
<1>5. i \in Nat \ {0} /\ k \in Nat \ {0}
  BY <1>1, <1>2, <1>3
<1>6. ~(i < k)
  <2> SUFFICES ASSUME i < k
               PROVE  FALSE
    OBVIOUS
  <2>1. i \in 1 .. (k - 1)
    BY <1>5
  <2> QED
    BY <1>2, <1>3, <2>1
<1>7. ~(k < i)
  <2> SUFFICES ASSUME k < i
               PROVE  FALSE
    OBVIOUS
  <2>1. k \in 1 .. (i - 1)
    BY <1>5
  <2> QED
    BY <1>2, <1>3, <2>1
<1>8. i = k
  BY <1>5, <1>6, <1>7
<1> QED
  BY <1>2, <1>3, <1>4, <1>8

LEMMA DescriptionOfferUnique ==
  ASSUME config.description \in Seq(Line), NEW a \in Addresses, NEW b \in Addresses,
         DescriptionOffers(a), DescriptionOffers(b)
  PROVE  a = b
<1> DEFINE lines == config.description
           Says(n, v) ==
               \E i \in DOMAIN lines :
                   /\ lines[i] = [key |-> IPKeys[n], value |-> v]
                   /\ \A j \in (i + 1) .. Len(lines) : lines[j].key # IPKeys[n]
           At(v, n) == /\ n \in DOMAIN IPKeys /\ Says(n, v)
                       /\ \A m \in 1 .. (n - 1) : \A w \in Addresses : ~Says(m, w)
<1>1. DOMAIN IPKeys = 1 .. Len(IPKeys) /\ Len(IPKeys) \in Nat
  BY KeyAssumption
<1>2. DOMAIN lines = 1 .. Len(lines) /\ Len(lines) \in Nat
  BY LenProperties
<1>3. \A n, v, w : Says(n, v) /\ Says(n, w) => v = w
  <2> SUFFICES ASSUME NEW n, NEW v, NEW w, Says(n, v), Says(n, w)
               PROVE  v = w
    OBVIOUS
  <2>1. PICK i \in DOMAIN lines :
               /\ lines[i] = [key |-> IPKeys[n], value |-> v]
               /\ \A j \in (i + 1) .. Len(lines) : lines[j].key # IPKeys[n]
    OBVIOUS
  <2>2. PICK k \in DOMAIN lines :
               /\ lines[k] = [key |-> IPKeys[n], value |-> w]
               /\ \A j \in (k + 1) .. Len(lines) : lines[j].key # IPKeys[n]
    OBVIOUS
  <2>3. lines[i].key = IPKeys[n] /\ lines[k].key = IPKeys[n]
    BY <2>1, <2>2
  <2>4. ~(i < k) /\ ~(k < i)
    BY <1>2, <2>1, <2>2, <2>3
  <2>5. i = k
    BY <1>2, <2>4
  <2> QED
    BY <2>1, <2>2, <2>5
<1>4. PICK n : At(a, n)
  BY DEF DescriptionOffers
<1>5. PICK m : At(b, m)
  BY DEF DescriptionOffers
<1> HIDE DEF Says
<1>6. n \in Nat \ {0} /\ m \in Nat \ {0}
  BY <1>1, <1>4, <1>5
<1>7. ~(n < m)
  BY <1>4, <1>5, <1>6
<1>8. ~(m < n)
  BY <1>4, <1>5, <1>6
<1>9. n = m
  BY <1>6, <1>7, <1>8
<1> QED
  BY <1>3, <1>4, <1>5, <1>9

LEMMA OffersAddresses ==
  ASSUME TypeOK, NEW s, NEW a, Offers(s, a)
  PROVE  a # Nothing
<1>1. Nothing \notin Values /\ Usable \subseteq Values /\ Addresses \subseteq Values
  BY NothingAssumption, AddressAssumption DEF Values
<1>2. CASE AgentOffers(a)
  BY <1>1, <1>2 DEF AgentOffers
<1>3. CASE \E good \in {Usable, Addresses} : NetworkOffers(a, good)
  BY <1>1, <1>3 DEF NetworkOffers
<1>4. CASE DescriptionOffers(a)
  <2>1. PICK n \in DOMAIN IPKeys, i \in DOMAIN config.description :
               config.description[i] = [key |-> IPKeys[n], value |-> a]
    BY <1>4 DEF DescriptionOffers
  <2>2. config.description[i] \in Line
    BY <2>1, AnswersType, ElementOfSeq, LenProperties
  <2>3. IPKeys[n] \notin ToSet(NameKeys)
    BY <2>1, KeyAssumption DEF ToSet
  <2> QED
    BY <1>1, <2>1, <2>2, <2>3 DEF Line
<1> QED
  BY <1>2, <1>3, <1>4 DEF Offers

LEMMA OfferUnique ==
  ASSUME TypeOK, NEW s, NEW a \in Addresses, NEW b \in Addresses,
         Offers(s, a), Offers(s, b)
  PROVE  a = b
<1>1. CASE s = "guest-agent"
  BY <1>1, AnswersType, AgentOfferUnique DEF Offers
<1>2. CASE s = "description"
  BY <1>2, AnswersType, DescriptionOfferUnique DEF Offers
<1>3. CASE s = "cloudinit"
  BY <1>3, AnswersType, NetworkOfferUnique DEF Offers
<1>4. CASE s = "config"
  BY <1>4, AnswersType, NetworkOfferUnique DEF Offers
<1> QED
  BY <1>1, <1>2, <1>3, <1>4 DEF Offers

\* What Proxmox VE answers decides the address: what the first source with an
\* offer offers is one address, and the guest has that.  Two synchronisations
\* that are told the same find the same address, and the rewrite of a guest that
\* did not change does not go back and forth (resolver.go:108-215).
THEOREM AnswersDecide ==
  Spec => []( pc = "resolved" =>
                 \A n \in DOMAIN SourcesOfGuest : \A a \in Addresses :
                    /\ Offers(SourcesOfGuest[n], a)
                    /\ \A m \in 1 .. (n - 1) : OffersNothing(SourcesOfGuest[m])
                    => address = a )
<1>1. ASSUME DiscoveryInvariant, pc = "resolved",
             NEW n \in DOMAIN SourcesOfGuest, NEW a \in Addresses,
             Offers(SourcesOfGuest[n], a),
             \A m \in 1 .. (n - 1) : OffersNothing(SourcesOfGuest[m])
      PROVE  address = a
  <2>1. TypeOK /\ FirstOfferWins
    BY <1>1 DEF DiscoveryInvariant
  <2>2. PICK k \in DOMAIN SourcesOfGuest :
               /\ Offers(SourcesOfGuest[k], address)
               /\ \A m \in 1 .. (k - 1) : OffersNothing(SourcesOfGuest[m])
    BY <1>1, <2>1 DEF FirstOfferWins
  <2>3. DOMAIN SourcesOfGuest \subseteq Nat \ {0}
    BY <2>1, SourcesType
  <2>4. address \in Addresses
    BY <2>1, <2>2, OffersAddresses DEF TypeOK
  <2>5. ~(k < n)
    BY <1>1, <2>2, <2>3, <2>4 DEF OffersNothing
  <2>6. ~(n < k)
    BY <1>1, <2>2, <2>3 DEF OffersNothing
  <2>7. k = n
    BY <2>3, <2>5, <2>6
  <2> QED
    BY <1>1, <2>1, <2>2, <2>4, <2>7, OfferUnique
<1>2. DiscoveryInvariant =>
         ( pc = "resolved" =>
              \A n \in DOMAIN SourcesOfGuest : \A a \in Addresses :
                 /\ Offers(SourcesOfGuest[n], a)
                 /\ \A m \in 1 .. (n - 1) : OffersNothing(SourcesOfGuest[m])
                 => address = a )
  BY <1>1
<1> QED
  BY <1>2, DiscoveryInvariantHolds, PTL
=============================================================================
