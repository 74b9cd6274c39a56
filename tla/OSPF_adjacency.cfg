SPECIFICATION FairSpec
CONSTANTS
  Router = {1, 2, 3}
  Arc <- Line
  Adjacent <- Pair
  DDStart <- StartById
  Faulty <- Joining
  MaxHeaders = 1
  MaxRequests = 1
  MaxFaults = 1
INVARIANTS
  TypeOK
  RoleById
  RequestsAreNewer
  AllHandled
  Agreement
PROPERTIES
  NeverOlder
  Converges
CHECK_DEADLOCK FALSE
