\* Two agents that ask for a session and one that does not; the first port is taken.
SPECIFICATION FairSpec
CONSTANTS
  a1 = a1
  a2 = a2
  a3 = a3
  NoOne = NoOne
  Stale = Stale
  Agents <- MCAgents
  Creators <- MCCreators
  LastPort = 3
  Taken = {1}
  Wants = {0, 2}
  Configs <- MCConfigs
  MaxDeaths = 1
  BacklogFills = FALSE
INVARIANTS
  TypeOK
  LiveSocketKept
  ExecutedOnce
  PublishedBound
  FailsForPort
PROPERTIES
  DaemonComesUp
\* Every agent ends.
CHECK_DEADLOCK FALSE
