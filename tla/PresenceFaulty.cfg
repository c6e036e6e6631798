SPECIFICATION Spec
CONSTANTS i1 = i1  i2 = i2  k1 = k1  k2 = k2  k3 = k3  k4 = k4  ann = ann  bob = bob
  Instances = {i1, i2}
  Conns = {k1, k2, k3, k4}
  Users = {ann, bob}
  Faults <- AllFaults
SYMMETRY Symmetry
INVARIANTS OnlineIffConnected CountsOffByOneAtMost OfflineOnlyIfMiscounted
