SPECIFICATION PlacesSpec
CONSTANTS
  Objects = {e1, e2, e3}
CHECK_DEADLOCK FALSE
INVARIANTS NameIsOfOnePlace ListedArePlaced
