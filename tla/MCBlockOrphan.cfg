CONSTANTS
    g = g
    a1 = a1
    b1 = b1
    b2 = b2
    t1 = t1
    t2 = t2
    r1 = r1
    r2 = r2
    r3 = r3
    NoBlock = NoBlock
    RpcError = RpcError
    Genesis = g
    Blocks <- MCBlocks
    TxIds <- MCTxIds
    Number <- MCNumber
    Txs <- MCTxs
    MaxTraceConcurrency = 1
    Chains <- MCChains
    MaxReorgs = 3
    Callers <- OneReq
    BlockReqs <- OneReq
    BlockIdents <- MCIdents
SPECIFICATION BlockSpec
INVARIANT
    MissingReceiptIsRetriable
CHECK_DEADLOCK FALSE
