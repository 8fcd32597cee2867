\* Two instances in every interleaving, and one late request.
CONSTANTS
  d1 = d1  d2 = d2
  a1 = a1  a2 = a2
  p1 = p1  p2 = p2
  None = None
  Domains = {d1}
  Answers = {a1, a2}
  Guests = {}
  Processes = {p1, p2}
  Wishes <- MCWishes
  UserLists <- MCUserLists
  MaxParties = 2
  Events = {"guests", "fault", "edit"}
SPECIFICATION FairSpec
INVARIANTS TypeOK AimsAtWhatIsThere OrphansNeedARace DuplicatesNeedARace
PROPERTIES RestIsKept OverlapsHeal
