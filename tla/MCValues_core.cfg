CONSTANTS
    Size <- MCSize
    Round <- MCRound
    Texts = {"true", "other"}
SPECIFICATION Spec
INVARIANTS NumbersRight WritesReadBack PushedRight
