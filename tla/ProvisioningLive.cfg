SPECIFICATION FairSpec
CONSTANTS
  n1 = n1
  Requests = {r1,r2}
  Deletes = {}
  Names = {n1}
  NameOf <- MCNameOf
  None = None
  MaxRestarts = 0
PROPERTIES
  AcceptedIsProvisioned
CHECK_DEADLOCK FALSE
