CONSTANTS
    c1 = c1
    c2 = c2
    NoCaller = NoCaller
    Callers <- TwoCallers
    MaxLogins = 3
SPECIFICATION FairSpec
INVARIANTS TypeOK TokenSettled SessionsKnown NoNilUse
PROPERTIES NilMeansOpen CallsReturn
CHECK_DEADLOCK FALSE
