SPECIFICATION Spec
CONSTANTS
  MaxReads = 2
  MaxWrites = 1
  OtherDocs = {}
  Completions = {c}
  Users = {ann, nobody}
  MaxSwitches = 1
SYMMETRY UserSymmetry
INVARIANTS TypeOK ReadPathAsserts LimboIsWatched WaitsAreTimed ViewIsLocalView
PROPERTY ImplementsEventStore
