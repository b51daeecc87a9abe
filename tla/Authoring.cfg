CONSTANTS
  Labels = {l1}
  NoBlock = NoBlock
  Runs = {r1, r2}
  NoRun = NoRun
  Slots = {a, b}
  Contents <- MCContents
  NoFile = NoFile
  Adoptions <- MCAdoptions
  Nothing = Nothing
  MaxCalls = 2
  MaxEvents = 2
SPECIFICATION Spec
SYMMETRY MCAlike
INVARIANTS
  StreamInOrder
  WholeChange
  OnlyAdmitted
  TraceIsAuthors
  OneAdoption
CHECK_DEADLOCK FALSE
