\* One caller, which may begin whatever the service offers, and a crash of it
\* anywhere or a loss of the current pointer.
SPECIFICATION FairSpec
CONSTANTS
  c1 = c1
  Callers = {c1}
  Endings = {"succeeded", "unknown", "running"}
  MaxFaults = 1
  MaxPosts = 2
INVARIANTS
  AtMostOnePost
  NeverAheadOfTheServer
  NothingFollowsAVerdict
PROPERTIES
  VerdictIsRecorded
