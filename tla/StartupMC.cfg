SPECIFICATION Spec
CONSTANTS
  Procs = {p1, p2}
  Nobody = Nobody
  Builds <- MCBuilds
  Databases <- MCDatabases
  Pinned <- MCPinned
  ColumnAt = 3
  Keys = {k0, k1, k2}
  Earlier = k0
  NoKey = NoKey
  Garbled = Garbled
  MaxFaults = 2
INVARIANTS OpenSeesItsSchema ChecksumsAreTrue OneKey RefusedForCause
PROPERTY EveryOpenSettles
