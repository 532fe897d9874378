\* Three calls, all about t1.
CONSTANTS
    c1 = c1
    c2 = c2
    c3 = c3
    t1 = t1
    t2 = t2
    committed = committed
    aborted = aborted
    Callers = {c1, c2, c3}
    TxIds = {t1}
    TxOf <- SameTxOf
    Status = {committed}
    Unspecified = Unspecified
    NoStatus = NoStatus
    NoTx = NoTx
    NoResponse = NoResponse
SPECIFICATION Spec
INVARIANT
    AcceptedIsRequested
