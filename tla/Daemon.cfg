\* Two scripts, at a time or one after the other, two processes of which the
\* second has the longer pid, one fault.
SPECIFICATION FairSpec
CONSTANTS
  NPids = 2
  Shorts = 1
  Scripts = {s1, s2}
  MaxFaults = 1
INVARIANTS
  FirstInstanceContinues
  StoppedMeansNone
  OneServes
PROPERTIES
  StopEnds
  StartedIsServed
