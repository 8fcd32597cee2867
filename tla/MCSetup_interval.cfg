\* How long may an interval be?  Nothing has to fail, be edited or be killed.
CONSTANTS
  Trim <- MCTrim  Lower <- MCLower  Unslash <- MCUnslash
  Items <- MCItems  Joined <- MCJoined
  BoolOf <- MCBoolOf  IntOf <- MCIntOf  Itoa <- MCItoa
  Text <- MCText  Lines <- MCLines
  Ambients <- MCAmbients  HandWritten <- MCHandWritten
  Unparsable = Unparsable
  Rejected = Rejected
  Absent = Absent
  None = None
  NoReply = NoReply
  Second = 8
  Limit = 1024
  MaxKills = 0
  MaxEdits = 0
  MaxUnremoved = 0
  Env = {}
SPECIFICATION Spec
INVARIANT IntervalPositive
