\* Two organizations, two transactions, two files; endorsed again and again, and merged.
CONSTANTS
    org1 = org1
    org2 = org2
    f1 = f1
    f2 = f2
    tx1 = tx1
    tx2 = tx2
    Admins = {org1, org2}
    SignerOf <- MCSignerOf
    Files = {f1, f2}
    TxIDs = {tx1, tx2}
    Requests <- MCRequests
    ConfigVersions = {0}
    MaxEndorsements = 2
    MaxInputs = 2
SPECIFICATION Spec
INVARIANTS
    TypeOK
    EndorsementsAreGenuine
PROPERTY
    ImplementsApproval
SYMMETRY Symmetry
