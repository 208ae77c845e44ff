SPECIFICATION FairSpec
CONSTANTS
  MaxReads = 2
  MaxWrites = 0
  OtherDocs = {5}
  Completions = {c}
  Users = {ann}
  MaxSwitches = 1
PROPERTY ReadsEnd
