SPECIFICATION ManifestsSpec
CONSTANTS
  Dir <- MCDir
  File <- MCFile
  Parent <- MCParent
  DirOf <- MCDirOf
  ModuleIn <- MCModuleIn
  Source <- MCSource
  Registry <- MCRegistry
  Machines <- MCMachines
  Commands <- MCCommands
  PathLists <- MCPathLists
  MaxCommands = 2
INVARIANTS
  ImportsChecked
  OrderDecidesRedefinedOnly
  ValidatedApplies
CHECK_DEADLOCK FALSE
