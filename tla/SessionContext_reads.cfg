SPECIFICATION Spec
CONSTANTS
    h1 = h1
    h2 = h2
    h3 = h3
    c1 = c1
    c2 = c2
    None = None
    Handles = {h1, h2, h3}
    Columns = {c1, c2}
    Slots <- TwoSlots
    Batches <- TableReads
    MaxCalls = 3
INVARIANTS
    OneAtATime
    RowsDecode
    InStep
SYMMETRY Alike
