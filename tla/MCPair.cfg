\* Two resources on one target that come to point at each other's list entries.
SPECIFICATION FairSpec
CONSTANTS
  Leaf <- PairLeaf
  Value = {1}
  Absent = Absent
  Malformed <- PairMalformed
  ListEntry <- PairListEntry
  LeafRef <- PairLeafRef
  NoGvk = NoGvk
  CrdGroup = "config.yndd.io"
  WebhookGroup = "srl.config.ndd.yndd.io"
  c1 = c1
  c2 = c2
  Garbled = Garbled
  Cr = {c1, c2}
  Target = {t1}
  SpecsOf <- PairSpecs
  Factory <- PairFactory
  MaxEdits = 5
  MaxMishaps = 0
PROPERTIES StuckDeletionIsReferred
CHECK_DEADLOCK FALSE
