CONSTANTS
    Msg = {a, b, c}
    NoMsg = NoMsg
    mq_size = 5
SPECIFICATION Spec
INVARIANTS
    HeldIntact
PROPERTY
    RefinesFifo
