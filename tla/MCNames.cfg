\* All names and all suffixes of up to five characters; the end is reached.
CONSTANTS
  Letters = {"a"}
  Capitals = {"A"}
  LowerOf <- MCLowerOf
  Blanks = {" "}
  Others = {"!"}
  MaxLength = 5
  Inputs <- MCInputs
SPECIFICATION Spec
INVARIANTS TypeOK AcceptedNamesAreServed DomainsHaveOneSpelling LabelsKeepTheLetters
CHECK_DEADLOCK FALSE
