SPECIFICATION FairSpec
CONSTANTS
  Squids = {"squid-explicit", "squid-transparent"}
  Profiles <- OneOrAll
  HostPorts <- ThePorts
  Ports <- TwoProfiles
  NeedsCa <- BumpingOne
  StartPeriod = 6
  Retries = 3
  Downloads <- AroundTheLimit
  MaxFaults = 2
INVARIANTS TypeOK FirstUpCompletes CaSound
PROPERTIES CicapAfterDownload Recovers ClamavAsPromised
CHECK_DEADLOCK FALSE
