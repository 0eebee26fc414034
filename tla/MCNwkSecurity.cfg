SPECIFICATION Spec
CONSTANTS
    k0 = k0
    k1 = k1
    k2 = k2
    Sources = {a, b}
    Keys = {k0, k1, k2}
    KeySeq <- MCKeySeq
    SeqModulus = 8
    MaxCounter = 2
    RouterCounter = 1
    RouterFloors = 2
    LeafFloors = 3
    StaleSecs = 1
    NoKey = NoKey
    NoSeq = NoSeq
    NoNode = NoNode
    NoFrame = NoFrame
SYMMETRY Symmetry
INVARIANT TypeOK
INVARIANT SettledIsRecordable
INVARIANT NoSilentReplay
INVARIANT AdoptedKeyDurable
INVARIANT FirstParentAdmitted
PROPERTY RoomForKin
