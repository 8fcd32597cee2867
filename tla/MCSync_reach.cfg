\* d3 is the name of no guest; dry runs and live runs alternate.
CONSTANTS
  d1 = d1  d2 = d2  d3 = d3
  a1 = a1  a2 = a2
  g1 = g1  g2 = g2
  None = None
  Domains = {d1, d3}
  GuestDomains = {d1}
  UserDomains = {d1, d3}
  Answers = {a1, a2}
  Guests = {g1}
  DryRunModes = {TRUE, FALSE}
  MaxOthers = 1
  Env = {"guests", "edit", "fault", "lost", "crash", "signal", "lose", "corrupt"}
SPECIFICATION Spec
SYMMETRY Symmetry
INVARIANTS TypeOK
PROPERTIES UnrelatedUntouched OnlyOwnedDeleted DryRunReadOnly CorruptStateKept
