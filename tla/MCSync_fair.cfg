\* Everything may fail for a while, then nothing does; a signal comes at any time.
CONSTANTS
  d1 = d1  d2 = d2  d3 = d3
  a1 = a1  a2 = a2
  g1 = g1  g2 = g2
  None = None
  Domains = {d1, d2}
  GuestDomains = {d1, d2}
  UserDomains = {d1}
  Answers = {a1, a2}
  Guests = {g1}
  DryRunModes = {FALSE}
  MaxOthers = 0
  Env = {"guests", "edit", "fault", "lost", "crash", "signal", "lose", "corrupt"}
SPECIFICATION FairSpec
PROPERTIES Converges ShutdownTerminates
