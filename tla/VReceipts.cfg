CONSTANTS
    a = a
    b = b
    e = e
    None = None
    Rival = {a, b, e}
    Watched = {"me", "mine"}
    Tokens = {"usd"}
    Tx <- MCTx
    Content <- MCContent
    Logs <- MCLogs
    TxsIn <- MCTxsIn
    Reverting <- MCReverting
    Pending = {"pay", "pull", "swap"}
    Path = {"tip", "number", "catchup"}
    LagOutlasts = FALSE
    MayReturn = FALSE
    MaxFlips = 2
SPECIFICATION Spec
CHECK_DEADLOCK FALSE
INVARIANTS
    \* both are violated; keep one
    ReceiptsVerified
    \* OwnOutcome
