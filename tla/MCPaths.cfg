\* All pairs of specs over a small schema, any device, any order of the maps.
SPECIFICATION Spec
CONSTANTS
  Leaf <- MCLeaf
  KeyLeaf <- MCKeyLeaf
  Value <- MCValue
  Absent = Absent
  EmptyObject = EmptyObject
  SpecCfg <- MCSpecCfg
  DeviceCfg <- MCDeviceCfg
INVARIANTS AgreesWithLeafLevel ReachesSpec
CHECK_DEADLOCK FALSE
