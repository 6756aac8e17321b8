SPECIFICATION FairSpec
CONSTANTS
  n1 = n1
  Requests = {r1}
  Deletes = {d1}
  Names = {n1}
  NameOf <- MCNameOf
  None = None
  MaxRestarts = 0
PROPERTIES
  AutostartHappens
CHECK_DEADLOCK FALSE
