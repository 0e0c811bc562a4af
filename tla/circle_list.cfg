CONSTANTS
    Items = {a, b, c}
    Size = 4
    None = None
SPECIFICATION Spec
SYMMETRY Symmetry
INVARIANTS TypeOK SlotNotShared
PROPERTIES FifoQueue
