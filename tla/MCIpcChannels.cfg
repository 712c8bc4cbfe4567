CONSTANTS
    Procs = {p1, p2}
    Lens <- MCLens
    MsgMax = 1
    RingCap = 3
    MaxChannels = 2
    MaxObjects = 2
    NoMsg = NoMsg
    WellKnown <- MCWellKnown
SPECIFICATION Spec
INVARIANTS TypeOK RingOccupied
PROPERTY FifoSpec
SYMMETRY MCSymmetry
