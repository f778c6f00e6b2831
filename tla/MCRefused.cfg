\* The device refuses an edit once.
SPECIFICATION FairSpec
CONSTANTS
  Leaf <- MCLeaf
  Value = {1, 2}
  Absent = Absent
  Malformed <- MCMalformed
  ListEntry <- MCListEntry
  LeafRef <- MCLeafRef
  NoGvk = NoGvk
  CrdGroup = "config.yndd.io"
  WebhookGroup = "srl.config.ndd.yndd.io"
  c1 = c1
  c2 = c2
  Garbled = Garbled
  Cr = {c1}
  Target = {t1}
  SpecsOf <- OneCrSpecs
  Factory <- MCFactory
  MaxEdits = 2
  MaxMishaps = 1
PROPERTIES RemovalIsRetried
CHECK_DEADLOCK FALSE
