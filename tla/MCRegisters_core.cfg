CONSTANTS
    Modulus = 8
    Resources <- All
    MaxBatch = 2
    ReadLimit <- SmallLimits
    WriteLimit <- SmallLimits
    Values <- OneOfEach
    Factory <- Distinct
    Outcomes = {"answers", "fails", "late"}
SPECIFICATION Spec
INVARIANTS TypeOK ReadRight ReadWhole ReadsBack
PROPERTY WriteAllOrNothing
