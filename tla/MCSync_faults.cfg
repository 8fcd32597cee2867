\* Failing calls, crashes and lost responses; nobody edits AdGuard Home.
CONSTANTS
  d1 = d1  d2 = d2  d3 = d3
  a1 = a1  a2 = a2
  g1 = g1  g2 = g2
  None = None
  Domains = {d1, d2}
  GuestDomains = {d1, d2}
  UserDomains = {}
  Answers = {a1, a2}
  Guests = {g1, g2}
  DryRunModes = {FALSE}
  MaxOthers = 0
  Env = {"guests", "fault", "agent", "lost", "crash", "signal", "lose", "corrupt"}
SPECIFICATION Spec
SYMMETRY Symmetry
INVARIANTS NoOrphan PartialResolutionNeverApplied
PROPERTIES HealthyGuestNotDeleted HealthyGuestServed Settles
