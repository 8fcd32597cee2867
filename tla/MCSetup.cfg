\* The wizard, the file it writes and the service that reads it: prompts with
\* lines that are refused, failing calls, kills, edits and removals.
CONSTANTS
  Trim <- MCTrim  Lower <- MCLower  Unslash <- MCUnslash
  Items <- MCItems  Joined <- MCJoined
  BoolOf <- MCBoolOf  IntOf <- MCIntOf  Itoa <- MCItoa
  Text <- MCText  Lines <- MCLines
  Ambients <- MCAmbients  HandWritten <- MCHandWritten
  Unparsable = Unparsable
  Rejected = Rejected
  Absent = Absent
  None = None
  NoReply = NoReply
  Second = 8
  Limit = 1024
  MaxKills = 1
  MaxEdits = 1
  MaxUnremoved = 1
  Env = {"fault", "remove"}
SPECIFICATION Spec
INVARIANTS TypeOK ServesWhatWasTested LiveOnlyByHand LitterAccountedFor
PROPERTY ReplacesOnlyTheUnseen
