CONSTANTS
  Id = {log, a, b}
  Queue = {log}
  Udp = {b}
  Gap = 1
  FetchMax = 2
  Closes = {"other"}
  MayFill = TRUE
SPECIFICATION FairSpec
INVARIANTS TypeOK RegistryAgrees NeverDangling 
PROPERTIES InspectMissesNone EventuallyInspected
