SPECIFICATION Spec
CONSTANTS
  s1 = s1
  s2 = s2
  s3 = s3
  enter = enter
  track = track
  NoHook = NoHook
  Scripts <- MCScripts
  Enters <- MCEnters
  Tracks <- MCTracks
  Returned <- MCReturned
  Configurations <- MCConfigurations
  MaxParks = 2
  Refetched = {2, 3}
INVARIANTS
  MachineIsOurs
