SPECIFICATION MappySpec
CONSTANTS
  MaxSignIns = 3
  MaxForms = 2
  MaxLaunches = 2
CHECK_DEADLOCK FALSE
INVARIANTS SessionTypeOK RestartResumes UserCatchesUp SignedOutStaysOut
  TabsAreSignedIn HomeIsSignedOut EventsAreOwners
