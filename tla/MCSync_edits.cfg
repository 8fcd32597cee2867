\* Users edit a name that guests use while synchronisations run.
CONSTANTS
  d1 = d1  d2 = d2  d3 = d3
  a1 = a1  a2 = a2
  g1 = g1  g2 = g2
  None = None
  Domains = {d1, d2}
  GuestDomains = {d1, d2}
  UserDomains = {d1}
  Answers = {a1, a2}
  Guests = {g1, g2}
  DryRunModes = {FALSE}
  MaxOthers = 1
  Env = {"guests", "edit"}
SPECIFICATION Spec
SYMMETRY Symmetry
PROPERTIES InPlaceBeforeDelete SavedMeansInPlace
