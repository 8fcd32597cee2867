\* Every order and filter, one guest after another, any answer to each call.
CONSTANTS
  a1 = a1  a2 = a2  loop = loop
  k1 = k1  k2 = k2  n1 = n1  n2 = n2
  h1 = h1  h2 = h2  raw1 = raw1  raw2 = raw2  blank = blank
  p1 = p1  p2 = p2  t1 = t1  t2 = t2
  NotIPv4 = NotIPv4
  Nothing = Nothing
  Addresses = {a1, a2, loop}
  Usable = {a1, a2}
  Patterns = {p1, p2}
  Tags = {t1, t2}
  RawNames = {raw1, raw2, blank}
  Hostnames = {h1, h2}
  HostnameOf <- MCHostnameOf
  IPKeys <- MCIPKeys
  NameKeys <- MCNameKeys
  FilterConfigs <- MCFilterConfigs
  Orders <- MCOrders
  ListedGuests <- MCListedGuests
  Descriptions <- MCDescriptions
  Networks <- MCNetworks
  Reports <- MCReports
SPECIFICATION Spec
INVARIANTS TypeOK FirstOfferWins GivenUpOnlyWithoutOffer UnusableOnlyByHand ExclusionPrevails
