SPECIFICATION Spec
CONSTANTS
  Source <- MCSource
  Target <- MCTarget
  Foreign = "vendorKey"
  MaxUpgrades = 2
INVARIANTS
  Settled
  StepwiseAsDirect
  ImporterServed
  ExportedKeysKept
PROPERTIES
  ValuesKept
CHECK_DEADLOCK FALSE
