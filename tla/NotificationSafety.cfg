\* Three calls, two about t1 and one about t2, two final statuses.
CONSTANTS
    c1 = c1
    c2 = c2
    c3 = c3
    t1 = t1
    t2 = t2
    committed = committed
    aborted = aborted
    Callers = {c1, c2, c3}
    TxIds = {t1, t2}
    TxOf <- MCTxOf
    Status = {committed, aborted}
    Unspecified = Unspecified
    NoStatus = NoStatus
    NoTx = NoTx
    NoResponse = NoResponse
SPECIFICATION Spec
INVARIANTS
    TypeOK
    ToldOnce
    SingleUpstreamRequest
    FailedCallNotNotified
    RegisteredIsRequested
PROPERTIES
    NothingDropped
    ImplementsNotification
SYMMETRY Symmetry
