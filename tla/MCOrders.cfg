SPECIFICATION FairSpec
CONSTANTS
  o1 = o1
  o2 = o2
  o3 = o3
  Orders = {o1, o2}
  Actions = {"get", "put"}
  UserActions = {"get", "put"}
  created <- MCCreated
  expires <- MCExpires
  action <- MCAction
  Hour = 2
  Grace = 2
  BatchSize = 1
  Requests = {1, 2}
  MaxNow = 7
  MaxFaults = 2
INVARIANTS
  WindowComplete
  OrderSettled
PROPERTIES
  SettlesOnce
  SentInTheEnd
