CONSTANTS
    m1 = m1
    m2 = m2
    m3 = m3
    m4 = m4
    e1 = e1
    e2 = e2
    BadXml = BadXml
    BadGraph = BadGraph
    Ignored = Ignored
    NoMsg = NoMsg
    x1 = x1
    x2 = x2
    Execs <- TwoProcesses
    Msgs <- ScaledMsgs
    Ids <- MCIds
    Content <- MCContent
    Body <- MCBody
    N = 1
    MaxBatch = 2
    MaxTransient = 1
    MaxPanics = 1

SPECIFICATION Spec
INVARIANT PublishBeforeCache
INVARIANT NoEventLost
PROPERTY AllMessagesDeleted
PROPERTY ImplementsAbstractQueueSpec
