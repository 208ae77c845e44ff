SPECIFICATION FairImageSpec
CONSTANTS
  Fetches = {1, 2, 3}
  MaxAppearances = 4
CHECK_DEADLOCK FALSE
INVARIANTS UrlsFit HomeShowsPicture CalledOnce
PROPERTIES PictureGetsShown
