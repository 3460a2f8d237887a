\* Two calls at most, three agent jobs, four texts, three faults.
SPECIFICATION EveningSpec
CONSTANTS
    Calls = {c1, c2}
    Jobs = {j1, j2, j3}
    Texts = {"Sarah.", "Hello?", "?!", " "}
    Blank = {" "}
    Names = {"Sarah", "Hello"}
    NameOf <- MCNameOf
    NoName = ""
    NoText = NoText
    NoCall = NoCall
    MaxAttempts = 5
    MaxFaults = 3
SYMMETRY Alike
CHECK_DEADLOCK FALSE
INVARIANTS
    CallsGoRight
PROPERTIES
    KeepsPlacedCall
