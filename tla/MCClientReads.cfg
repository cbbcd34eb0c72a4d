CONSTANTS
    g = g
    a1 = a1
    b1 = b1
    b2 = b2
    t1 = t1
    t2 = t2
    r1 = r1
    r2 = r2
    r3 = r3
    r4 = r4
    NoBlock = NoBlock
    RpcError = RpcError
    Genesis = g
    Blocks <- MCBlocks
    TxIds <- MCTxIds
    Number <- MCNumber
    Txs <- MCTxs
    MaxTraceConcurrency = 1
    Chains <- OneChain
    MaxReorgs = 0
    Callers <- OneOfEach
    BlockReqs <- OneReq
    BlockIdents <- OneIdent
    TxReqs <- OtherReq
    TxWants <- OneTxWant
    QueryReqs <- FourthReq
    QueryWants <- OneQuery
    NoIndex = NoIndex
    SkipGethAdmin = FALSE
SPECIFICATION ReadsSpec
INVARIANT
    IdleGateIsFree
PROPERTY
    EveryRequestAnswered
CHECK_DEADLOCK FALSE
