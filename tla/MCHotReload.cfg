CONSTANTS
  l1 = l1
  l2 = l2
  l3 = l3
  Loops = {l1, l2, l3}
  NoLoop = NoLoop
  MaxEdits = 3
  MaxStops = 2
SPECIFICATION FairSpec
INVARIANTS
  OneLoopPerService
  RunningMatchesFile
PROPERTIES
  NeverBackwards
  OldLoopsEnd
