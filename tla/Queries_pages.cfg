SPECIFICATION Spec

CONSTANTS
    Issues = {i1, i2}
    MaxKeys = 4
    Limit = 2

INVARIANTS
    TypeOK
    OnceInOrder
    PassComplete
    SyncComplete
