SPECIFICATION Spec
CONSTANTS
  a1 = a1
  a2 = a2
  b = b
  na = na
  nb = nb
  Gens = {a1, a2, b}
  Names = {na, nb}
  NameOf <- MCNameOf
  Range <- MCRange
  Ports = {1, 2}
  AdminPorts = {1}
  Limits = {"none", "plan"}
  NoLimits = "none"
  Full = {"plan"}
  PlanLimits = "plan"
  Cards <- MCCards
  Inherited = Inherited
  None = None
  Slots = {h1, h2}
SYMMETRY SlotSymmetry
INVARIANTS
  TypeOK
  DeviceInvariant
  PortsApart
PROPERTIES
  RulesSurvive
  LimitsAsAsked
