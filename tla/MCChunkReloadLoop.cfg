SPECIFICATION Spec
CONSTANTS
  MaxVersion = 1
  MaxDeploys = 0
  MaxVisits = 0
  MaxReloads = 4
  Routes = {"a", "b"}
  Broken = {1}
INVARIANT NoChunkReloadLoop
CHECK_DEADLOCK FALSE
