SPECIFICATION FairSpec
CONSTANTS
  Clients <- TheClients
  Service <- TheService
  MaxFaults = 3
INVARIANT ActiveRedirects
PROPERTY Returns
CHECK_DEADLOCK FALSE
