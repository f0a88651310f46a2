SPECIFICATION Spec
CONSTANTS
    a1 = a1
    a2 = a2
    Account = {a1, a2}
    Extrinsic <- MCExtrinsic
    Pallet = {p1}
    MaxBlobs = 1
    MaxWeight = 4
    BaseWeight = 1
    UpgradeWeight = 1
    MaxBlock = 3
    MaxVersion = 3
INVARIANTS
    BuiltBlocksImport
    AlteredBlocksRefused
    UpgradesRunOnce
    TryRuntimeAgrees
CHECK_DEADLOCK FALSE
