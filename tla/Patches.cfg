SPECIFICATION Spec
CONSTANTS
    p1 = p1
    v = v
    w = w
    raw = raw
    Empty = Empty
    Paths = {p1}
    Contents = {Empty, v, w, raw}
    None = None
    Start <- NoneOrRaw
    TextOf <- Decoded
    Server = Server
    Tool = Tool
    Headers = {k}
    Payloads <- OnePatch
    MaxPatches = 2
    MaxEdits = 1
    MaxTroubles = 1
INVARIANTS TypeOK SessionsRestore EditsKept RollbackRestores
INVARIANTS KeyAppliesOnce AnswersHold
PROPERTY PreviewGuards
CHECK_DEADLOCK FALSE
