SPECIFICATION KeyboardSpec
CONSTANTS
  Fields = {"title", "date", "description"}
  Watched = "description"
  HeightOf <- MCHeightOf
  Parts = 1
  MaxShows = 2
CHECK_DEADLOCK FALSE
INVARIANTS PushedByHeight
