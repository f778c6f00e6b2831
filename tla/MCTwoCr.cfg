\* Two resources on one target, one pointing at the list entry of the other.
SPECIFICATION Spec
CONSTANTS
  Leaf <- MCLeaf
  Value = {1, 2}
  Absent = Absent
  Malformed <- MCMalformed
  ListEntry <- MCListEntry
  LeafRef <- MCLeafRef
  NoGvk = NoGvk
  CrdGroup = "config.yndd.io"
  WebhookGroup = "srl.config.ndd.yndd.io"
  c1 = c1
  c2 = c2
  Garbled = Garbled
  Cr = {c1, c2}
  Target = {t1}
  SpecsOf <- TwoCrSpecs
  Factory <- MCFactory
  MaxEdits = 4
  MaxMishaps = 1
INVARIANTS NoOrphans AppliedIsPresent
PROPERTIES OwnLeavesOnly
CHECK_DEADLOCK FALSE
