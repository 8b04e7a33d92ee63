\* Two callers of one run, none of which recovers or crashes: the slower one is
\* to take back the verdict the other has recorded.
SPECIFICATION SpecWithoutRecover
CONSTANTS
  c1 = c1
  c2 = c2
  Callers = {c1, c2}
  Endings = {"failed"}
  MaxFaults = 0
  MaxPosts = 2
PROPERTIES
  VerdictIsFinal
