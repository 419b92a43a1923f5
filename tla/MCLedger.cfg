CONSTANTS
    Account <- MCAccount
    UserAccount <- MCUserAccount
    Request <- MCRequest
    Opening <- MCOpening
    Txn <- MCTxn
    Program <- MCProgram
SPECIFICATION FairSpec
INVARIANTS
    UserBalancesNonNegative
    PostsHonoured
    DeadlockNeedsSeveralPosts
PROPERTIES
    EveryTransactionEnds
    ImplementsLedger
