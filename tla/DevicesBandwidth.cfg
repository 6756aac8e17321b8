SPECIFICATION Spec
CONSTANTS
  a1 = a1
  a2 = a2
  b = b
  na = na
  nb = nb
  Gens = {a1}
  Names = {na}
  NameOf <- MCNameOf
  Range <- MCRange
  Ports = {1}
  AdminPorts = {1}
  Limits = {"none", "plan"}
  NoLimits = "none"
  Full = {"plan"}
  PlanLimits = "plan"
  Cards <- MCCards
  Inherited = Inherited
  None = None
  Slots = {h1, h2}
SYMMETRY SlotSymmetry
PROPERTIES
  BandwidthKeepsRules
