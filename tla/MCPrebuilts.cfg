SPECIFICATION Spec
CONSTANTS
    r1 = r1
    r2 = r2
    m1 = m1
    m2 = m2
    Roms = {r1, r2}
    First = r1
    ModulesIn <- MCModulesIn
    SameSizes <- MCSameSizes
    MaxKills = 1
INVARIANTS
    ModulesOfOneRom
    SuccessMeansWhole
    TempsBounded
PROPERTIES
    BuildInputsKept
