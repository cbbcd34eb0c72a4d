# A TLA+ model of mesh-ethereum

mesh-ethereum (this repository) is a stateless HTTP service: it answers the
Mesh (Rosetta) API from a geth node, which it starts and supervises itself or reaches
over the network. These modules model the parts in which orders of events matter
or in which arithmetic over traces must come out right, TLC checks them on small
instances, and TLAPS proves nearly all of the safety properties for every instance.

Line numbers are those of the repository's files: `client.go` is
`ethereum/client.go`, `run.go` is `cmd/run.go`, and so on.

## 1. Inventory

| Component | Source | State it keeps | Operations |
|---|---|---|---|
| Trace semaphore | client.go:43-91, 536-588 | units handed out, queue of blocked goroutines | acquire, give up, release |
| `/block` | client.go:297-498, 560-630, 1138-1210; services/block_service.go | locals of one goroutine per request | header and body, uncles, receipts (one batch), traces |
| `/block/transaction` | client.go:213-295, 536-558, 998-1013 | locals of one goroutine per request | transaction, header, receipt, trace |
| Trace to operations | client.go:640-890; call_tracer.js | the map of destroyed accounts, the operations so far | one iteration per call, one per destroyed account |
| Fees | client.go:500-534, 935-996 | none | effective price, burned fee, fee operations |
| Process | cmd/run.go, cmd/root.go, ethereum/geth.go | error group, context, geth, HTTP server, pipes | start, signal, interrupt, reap, shut down, log |
| Block rewards | client.go:1260-1349 | none | mining and uncle rewards |
| Queries | client.go:98-188, 1015-1136, 1359-1581; account, call and network services | none | status, balance, call |
| Construction | services/construction_service.go, services/types.go, client.go:143-159, 1594-1620 | none; nonces and the pool are geth's | preprocess, metadata, payloads, combine, parse, submit, mempool |
| Addresses | ethereum/address.go | none | checksum of an address |
| Configuration | configuration/configuration.go | read once from the environment | load |
| Bootstrap | ethereum/bootstrap.go, cmd/utils_bootstrap.go | none | genesis file to balances |
| GraphQL client | ethereum/graphql_client.go | none | one POST |
| Router, errors, mocks, build | services/router.go, services/errors.go, mocks/ | none | |

**Interaction.** `net/http` runs every request in a goroutine of its own. The
services call one shared `ethereum.Client`; the requests share nothing but geth
and the client's trace semaphore. `Client` calls geth over JSON-RPC (each call
has a timeout, `gethHTTPTimeout`) and GraphQL. `runRunCmd` puts StartGeth, the
goroutine that interrupts geth, two loggers, the HTTP server and its shutdown in
one error group; the first error, or a signal, cancels the context of all.
The clients of the construction API carry its documents from call to call, and
share with each other geth's nonces, prices and pool.

**What is hard.**

- A response is put together from several calls of geth. Between two of them, and
  between two elements of the batch of receipts, geth may change its canonical chain.
- Requests queue for 16 units of the semaphore while calls fail, time out, and
  clients hang up.
- traceOps reconstructs balance changes from a trace: nested frames that revert,
  contracts that destroy themselves, are paid afterwards and created again.
- The construction API has no session: what one handler encodes another decodes,
  the client may mix documents and signatures up, a reply of geth may be lost, and
  the nonce that was read may be used up before the transaction is sent.
- The goroutines of the process fail, end and are interrupted in any order, and
  geth is a process of its own whose database must be closed properly.

**What makes each component correct.**

- Semaphore: units are neither leaked nor invented, nobody is forgotten or overtaken.
- `/block`: an answer is one whole block; "orphaned" is said truthfully.
- `/block/transaction`: receipt and trace were canonical; they are of different
  blocks only if the transaction itself moved from one to another meanwhile.
- Queries: each answer is about one block, the one asked for, also when it takes
  several calls of geth.
- Operations: numbered without gaps; those of traces, fees and rewards together
  add up to what every account gained.
- Construction: what gets into geth's pool is the transfer its client wrote down, and
  a client that does its part is never stopped on its way.
- Process: leaves no geth behind when it ends through g.Wait; all services stop together.

The full list of what can go wrong, line by line, is in `PROJECT.json` ("hazards").

## 2. Modules

| Module | Models | Composed of |
|---|---|---|
| `TraceGate` | the semaphore and its users | |
| `EthNode` | geth as its readers see it (external) | |
| `ReadRequests` | requests: arrival, answer, hang-up, reorganisations meanwhile | EthNode, TraceGate |
| `BlockFetch` | `/block`, one action per call of geth | ReadRequests |
| `BlockRead` | what `/block` promises: the abstract specification | EthNode |
| `TxFetch` | `/block/transaction`, one action per call of geth | ReadRequests |
| `Queries` | `/network/status`, `/account/balance`, `/call` | ReadRequests |
| `ClientReads` | all three at once | BlockFetch, TxFetch, Queries |
| `TraceOps` | the two loops of traceOps, one action per iteration | |
| `FeeOps`, `BlockReward` | arithmetic of fees and rewards as operators, next to the protocol's | |
| `Totals` | what a reader adds up from a list of operations | |
| `EvmLedger` | a transaction of the EVM in a block: its trace, its operations | TraceOps, FeeOps, BlockReward, Totals |
| `FlattenTraces` | flattenTraces as it is written, a recursion over the tree of calls: the reference for EvmLedger's list | EvmLedger |
| `TransferPool` | what the construction API promises: the abstract specification | |
| `TransferDocs` | the documents of the construction API, addresses and numbers as operators | |
| `Construction` | flows of the construction API over one geth; `/mempool` | TransferDocs |
| `Lifecycle` | the process, the error group, geth, the pipes | |
| `*Proofs` | theorems about the module of that name (`PaymentProofs`: FeeOps, BlockReward, Totals; `EvmLedgerProofs`: also TraceOps; `FlattenProofs`: FlattenTraces) | TLAPS |
| `MC*` | constants of the small instances (`MCNode`: the blocks and chains of all reads) | |

### TraceGate

`cur` and `waiters` are the fields of `semaphore.Weighted`; `slot[c]` is where a
goroutine stands. `golang.org/x/sync/semaphore` is outside the repository:
`Notify` is its `notifyWaiters`, which grants units from the front of the queue.
Between the grant and the moment the goroutine runs again (`"granted"`) it may be
cancelled: `Acquire` then returns success nevertheless, which is why `Abandon` needs
`"waiting"`. `Release` is the deferred release of getBlockTraces and
getTransactionTraces, on every path out of them.

### EthNode, ReadRequests, BlockFetch, TxFetch, Queries, ClientReads

geth stores all blocks it has seen (`known`) and has one canonical `chain`;
`NewHead` changes it at any time. Reads by hash come from the store; reads by
number, by transaction hash, and receipts from the chain of that moment. Contents
are abstracted to their origin: `got[r]` and `answer[r].parts` say of which block
the header, each receipt and the trace are. This is all the code compares (the
`blockHash` of receipts), and all that can go wrong by interleaving.

Every call of geth is one action: the reply is computed from the chain at that
moment, and the code up to the next call runs with it. The receipts are one
batch whose elements geth serves one by one (`ServeReceipt`), each perhaps an
error. `BlockCallFails` and `TxCallFails` are failures of a call as a whole:
refused, timed out, cancelled, unreadable, or rejected by the checks on the
reply. A panic of a handler is the code `"aborted"`: net/http recovers it and
closes the connection. `seen[r]` is history: the chains that were canonical while
r was open.

`BlockRead` states the promise without the mechanism; `BlockFetch` implements it
under the mapping of `Promise`: an answer maps to "ok" only if all its parts are of
one block, and else to "torn", which BlockRead never answers.

In `Queries` a request is its `kind` and the block it names, by hash, by index, by
both or by neither, as Balance and Call take them. Status is three calls of geth
(header, eth_syncing, and admin_peers unless SKIP_GETH_ADMIN is set); the others
are one. `OfBlock` says that the identity and the state in a balance come from one
GraphQL reply; its mutant `BalanceInTwoCalls` is what the comment at
client.go:1407-1410 avoids. `Subject` is the block a query is about. For a height that
geth does not have, eth_getBlockByNumber is answered as a success with nothing in it:
blockByNumber makes its map before the call, JSON's null leaves it as it is, and the
test for nil (client.go:1030) never holds. Balance at such a height crashes the handler,
every other query reports an error.

### TraceOps, FeeOps, BlockReward, EvmLedger

`TraceOps` is traceOps on a list of flat calls; `destroyed` and `balance` are keys
and values of its map, and the second loop takes the keys in any order, like Go.
`EvmLedger` runs one transaction of the EVM over contracts that may execute
anything (call, create, destroy themselves, fail), records it as call_tracer.js
does, and hands the flattened tree to TraceOps, numbered after the fee
operations. The tracer's tree is kept as the list `trace` of its nodes in the order of
their `enter`, each with the calls `within` which it is. That is the order in which
flattenTraces visits them: a call before those it made, and these one after the other
(`FlattenedAsVisited` compares with the recursion of the code, in `FlattenTraces`).
A call is on the tracer's callstack as long as one of `frames` holds its place in
the list; `Exit` writes what `exit` and `result` add when it ends, and `Reverted` is the
error that flattenTraces hands down from a call to all it made. It knows the balances, the charge of the fee and, from ethash, the
rewards, so that the operations of the whole block can be compared with what every
account gained. The EVM is external; the rules it needs (transfers, snapshots, what
SELFDESTRUCT does and when the account goes) are those of go-ethereum before
Cancun, the version the repository builds with. Gas is not metered; every failure
of a frame is `Fail`. A shape says what one transaction and its block look like:
fee fields, header with uncles, called accounts, opcodes, number of frames.

### TransferDocs, Construction

A flow `f` is one client on its way from operations to a transaction in the pool.
`doc[f]` is the document it hands from call to call; `quote[f]` and `payload[f]` are
what Metadata and Payloads told it. The encodings of services/types.go are operators
that do what the code does: numbers become hexadecimal and come back only if they
have at most 256 bits (`MaxBig`), the suggested fee is cut to an int64 (`MaxInt`).
A signed transaction does not name its sender; `Sender` recovers it, and
recovers `Nobody` if something else was signed. Metadata is two calls of geth
(`ReadNonce`, `ReadPrice`), Submit one, whose reply may be lost after geth took the
transaction. Every call goes to an online or an offline process (`Modes`). Metadata and
Submit need geth: only an online process has a client of it (`HasClient`, run.go:86-101),
and the handlers look at the mode first (`Unavailable`); a call that got past the look
without a client would read a nil pointer (`NotServed`). Geth's pool
replaces by price, mines in the order of nonces, and evicts.

The client is external and is the one of construction_service_test.go: it makes the
calls in their order, compares what Parse reports with what it wrote, may skip that
before signing but not before submitting, and may repeat a call that failed. It may hand
to Combine any signature that was made of anything in the system, one of a wrong length
(`Malformed`: WithSignature panics, and no response is sent), or one of 65 bytes that is
none (`Invalid`: Combine takes it, and Parse cannot read the transaction,
construction_service.go:362-365). It may also hand to Parse a signed transaction of
another's making; a contract creation has no recipient, and Parse reads the nil pointer
(construction_service.go:367). `astray` is history: the flows whose client did one of these
instead of passing on what it was given.

`TransferPool` is what a client may rely on without knowing of documents, keys and
calls: it wishes a transfer, is granted the first free nonce, is quoted a price and a
fee, and its transfer gets into the pool in one atomic step, whether or not it is
told. `Construction` implements it under the mapping of `Promise`: a wish is seen from the
first call on, a nonce and a quote once they are read, and of a signed transaction its
content. So Payloads, Parse, Combine and the signers map to stutters, and a call that
is repeated or fails changes nothing but what its client is told.

### Lifecycle

One action per step of a goroutine. `task[t]` is the state of a member of the
error group; `Finish` is the rule of errgroup. Geth's output is counted per
pipe. `main` ends as `"returned"` (through g.Wait), `"failed"` (NewClient failed) or
`"killed"` (a signal before signal.Notify, or log.Fatalf in a handler, `Fatal`).

## 3. Runs

| Run | Instance | Distinct states | Checks |
|---|---|---|---|
| TraceGate | 4 goroutines, 2 units | 129 | types, `UnitsAccounted`, `QueueIsBlocked`, `NoLostWakeup`, `NoOvertaking`, `BlockedIsServed` |
| BlockPromise | 2 reads, 1 unit, 4 blocks, 2 reorganisations | 1,071,425 | types, refinement `KeepsPromise` |
| Lookups | 1 lookup and 1 query of any kind, 2 reorganisations | 2,262,641 | types, `TxAnswerWasCanonical`, `TornOnlyIfMoved`, `QueryAnswersItsBlock`, `OnlyUnknownHeightAborts` |
| ClientReads | 1 read, 1 lookup, 1 query, 1 unit | 5,841 | `IdleGateIsFree`, `EveryRequestAnswered` |
| EvmLedger | 4 calls and creations, or every opcode and every gas price, or every header | 3,210,004 | types, `OpsNumbered`, `DestructHasPredecessor`, `LedgerTracksBalances`, `FlattenedAsVisited` |
| Lifecycle | every mode, pipes of one line | 5,141 | types, `ExitLeavesNoGeth`, `StopsTogether` |
| Construction | 2 flows, 2 accounts, 7 intents, 3 prices | 447,012 | types, `AcceptedIsIntended`, `DisplacedWasConcurrent`, `SoundFlowGoesOn`, refinement `KeepsPromise` |

Five more runs expect a violation; each is a disagreement between the code and
what the repository says of it:

| Run | Property | Disagreement |
|---|---|---|
| TxPanic | `MissingReceiptIsReported` | client.go:251 reads the receipt before the error: a missing receipt panics (client.go:259, 998) |
| Fatal | `NeverFatal` | client.go:869-871 ends the process on a negative balance, which an undone SELFDESTRUCT produces (client.go:802) |
| BlockOrphan | `MissingReceiptIsRetriable` | errors.go:123-127 promises ErrBlockOrphaned; a null receipt gives ErrGeth (client.go:615) |
| Clique | `RewardsWerePaid` | README.md:90 promises all balance changes; on Rinkeby and Goerli client.go:1268 reports a reward nobody was paid |
| Checksum | `ChecksumsAreValidated` | README.md:91 promises checksum validation; address.go:27 gives a wrong checksum the right one |

**What is excluded by name.** `LedgerTracksBalances` leaves out three cases: traces
with a reverted SELFDESTRUCT (run Fatal), traces with a CALLCODE that passes a value
(it moves nothing; client.go:849 books a transfer), and blocks that were not sealed
with ethash (run Clique). `QueryAnswersItsBlock` leaves out eth_call with index 0,
which runs on the current block, and with both an index and a hash, where one is
dropped (client.go:1049-1057). Without any one of these exclusions TLC finds a
counterexample.

`TornOnlyIfMoved` and `SoundFlowGoesOn` have a premise on the way of a request: a
transaction that moved between the calls may get a header, a receipt and a trace of
different blocks (nothing compares them), and a client that hands over what it was not given
may be stopped anywhere. Both are what the code does, and it promises nothing else.
`ExitLeavesNoGeth` is about the end through g.Wait. Three ways lead past it and leave geth
running, in the model as in the code: a signal before signal.Notify, an error of
NewClient (run.go:97), and log.Fatalf in a handler (client.go:870).

**Bounds and why they are enough.**

- *TraceGate.* Two behind a full semaphore of two: a unit handed to the second in
  the queue, a front that gives up, and a grant to one that is being cancelled occur.
  The invariants are proved for every size.
- *Reads.* The blocks (drawn in `MCNode`) give a receipt every possible
  fate: on the block that is read, on another of the same height, on another
  height, nowhere. Two reorganisations let a chain be left and come back; with one
  unit two requests are enough for one to wait. Requests do not read each other's
  state, so more of them only compete for units, which TraceGate and ClientReads check.
  ClientReads fixes the chain: the gate does not depend on it. In Lookups, `MCQueryWants`
  asks by hash, by a height that may be missing, by the genesis height, by both, and for
  the current block. The safety properties are proved without these bounds.
- *EvmLedger.* Four frames are what the longest interesting traces need (a
  destruction inside a failed frame inside a caller that pays afterwards);
  the leaves of SELFDESTRUCT do not count. One account with code and one to be
  created, each may destroy itself for itself or for the other. Every opcode and
  every kind of gas price come with two frames, every kind of header with one:
  fees and rewards are booked by code of their own. The properties are proved without
  these bounds. One unit of value tells paid from unpaid.
- *Construction.* Two flows can overlap, in the nonce, in the pool and in the
  signatures. The limits are small (`MaxInt` = 7, `MaxBig` = 9, a gas limit of 3), so that
  fees wrap and amounts do not fit. The intents are sound, unbalanced, unclear, too large,
  and misspelt. The invariants are proved without these bounds.
- *Lifecycle.* One line in a pipe tells an empty pipe from one that is not.
- `MaxReorgs`, `maxFrames` and `MaxUnread` are bounds of the models, not of the code.

`CHECK_DEADLOCK FALSE` stands where the system does stop: every request is
answered once, a transaction ends, a flow ends, the process ends.

**Fairness.** A goroutine that can run does (weak fairness of its steps). A call
of geth ends: the HTTP client gives each a timeout (client.go:43-48, 71-91), so
the step after it is always enabled, with success or failure. A goroutine blocked
at the semaphore has no enabled step until it is granted a unit or its request
ends. Construction and EvmLedger state no liveness and assume no fairness: nothing
obliges a client to go on. In Lifecycle, geth ends some time after it was interrupted; nothing makes
it end before, nothing makes a server that serves fail, and nothing sends a signal.

## 4. Proofs

TLAPS checks all of the following, for every value of the constants that
satisfies the named assumptions.

- **TraceGateProofs** (`GateAssumption`: finitely many goroutines, at least one
  unit). `GateInv` is inductive: types, `UnitsAccounted`, `QueueIsBlocked` and
  `NoLostWakeup` need each other. The count stays right only if those granted
  a unit were blocked and distinct, which the queue's invariant says;
  that nobody is queued beside a free unit is what makes `Notify` exhaust the units.
  `WithoutProperties` and `NotifyKeepsInv` are the lemmas all actions share.
  `NeverOvertaken` adds that every step grants units from the front of the queue only.
- **BlockFetchProofs** (`NodeAssumption`: chains are sets of blocks with one block per
  height and each transaction once). `BlockKeepsPromise`: `/block` implements `BlockRead`.
  `BlockInv` says what a read has gathered at each stage: the block fits the identifier
  on a chain in `seen[r]`, every receipt is an error or comes from a chain in
  `seen[r]`, and once the receipts are checked they are all of the block. The step
  that needs it is the end of a read: a whole answer is of a block that was canonical
  because its receipts were (`PopulateAnswers`), and an orphan is reported truthfully
  because one receipt was elsewhere on a chain that had been canonical
  (`OrphanedIsHonest`). Every other step, and every step of geth, maps to a step of
  BlockRead or a stutter, lemma by lemma.
- **ClientReadsProofs.** Every step of a read has one of four shapes (outside the
  gate, entering, staying, leaving), and is a step of the gate or none; with
  `GateFollowsPc` this gives `IdleGateIsFree`. `AllInv` puts that side by side with
  `BlockInv`, `TxInv` (where the parts of a lookup are from) and `QueryInv`; a step of one
  request leaves what is said of the others alone (`Frame`), and a new head only
  adds a chain to `seen`. From it follow the properties of Lookups, the
  types, and the refinement once more, now with all requests running
  (`BlockKeepsPromiseAmongAll`): nothing about the other endpoints is assumed.
- **PaymentProofs** (`FeeAssumption`; `RewardAssumption`: 32 divides every reward).
  `FeesAreCharged`: for all prices, caps and amounts of gas, the
  fee operations sum to what the protocol takes from the sender and gives the miner.
  `RewardsArePaid`: the code divides after it multiplies for the miner and before it
  multiplies for uncles, the protocol the other way round; the results are equal.
  `FeesBooked` and `RewardsBooked` say the same for what a reader adds up per account,
  when the sender is the miner, and for any number of uncles, some of one miner. Adding
  up is a recursive function over a list of any length. The induction over
  lists goes through sets: a nonempty set of naturals has a least element (`LeastNatural`,
  from the library's well-foundedness of `<`), so a set with 0 and with the successor of
  each of its elements holds all of `0..m` (`Upward`), and a recursion has a solution
  (`Recursion`).
- **EvmLedgerProofs** (`LedgerAssumption` and those above). First traceOps alone, for every
  list of calls and start index (`OpsInvariant`): the operations are numbered without a
  gap, and `ops[len(ops)-1]` exists whenever a DESTRUCT operation is numbered; the strengthening
  `StageInv` says how far the loop is, and that `todo` holds destroyed accounts only. Then the
  ledger. `BalancesAreTracked`: for any
  accounts, balances, code, calls and blocks the operations tell what every
  account gained, and `log.Fatalf` (client.go:869) is not reached, but for the three cases
  named in section 3. The property is about the end and not inductive at all. `LedgerInv` is:
  - `Replayed(calls)` are the balances after each call when those that reverted do
    nothing. While the EVM runs (`RunInv`), the replay of the flattened trace ends with the
    EVM's balances and destroyed contracts, and at the call of each open frame it was at
    that frame's snapshot. The second half is what makes a failure inductive: it turns the
    frame's call and all that came after it into calls that revert, so that the
    replay of the longer list stops where the snapshot was taken (`UndoExplains`). A new
    call only prolongs the replay (`AppendExplains`), and its snapshot is the
    world before it (`PushExplains`).
  - `CallsInv` keeps two facts of the EVM that traceOps relies on without a
    check: a SELFDESTRUCT that was not undone is traced with the whole balance, and no
    contract is created at an address that has destroyed itself before.
  - While traceOps runs (`BookInv`), what the operations book is the replay up to the
    call that the loop is at (`NewOpsBook`), its map holds the replay's balances of the accounts
    destroyed so far (`MapFollows`), and in the second loop the accounts still to be visited
    are those whose rest has not been taken off yet (`VisitBooks`). A rest is a
    balance of the EVM, hence not negative.

  With `FeesBooked` and `RewardsBooked` this gives the theorem. `LedgerTypesKept` and
  `BlockOpsNumbered` come with it, and `FatalOnlyForCause`: what the run Fatal finds takes
  a SELFDESTRUCT that was undone or a CALLCODE with a value. TLC checked `LedgerInv` on the instance of the run
  EvmLedger, all 3,210,004 states, before it was proved.
- **FlattenProofs.** `AlwaysFlattenedAsVisited`: the recursion of flattenTraces over the decoded
  tree returns the list that the ledger's proof works on, for trees of any depth and width.
  The invariant is `TreeInv` (TLC checked it on the same states): calls begin and end like a
  stack, so those around a call are nested in each other (`Nested`), and the open ones are
  all around each other (`Stacked`). Hence what is inside of call i is a piece of
  the list, from i to a last call (`HasLast`). `RecursionReturnsParts` goes from the last call of the
  list down to the first: the activation for call i returns that piece (`Part`). Its loop
  covers the piece from left to right, one child's piece after the other without a gap
  (`CoveredGrows`), and the error it hands down reaches the whole of a child's piece
  (`HandedDown`, `PartsJoin`).
- **ConstructionProofs** (`ConstructionAssumption`: prices fit 256 bits). `Inv` says of every stage
  that the document in the client's hands is a function of its operations and its
  quote; that what `saw[f]` held cannot have the nonce given to f; and that whatever is in
  the pool was checked. All invariants of the run follow. `SoundFlowsAlwaysGoOn` rests on
  the causes (`CauseOK`): a flow stopped because its operations are not sound or its
  client went astray. Every call that could stop a sound flow is shown not to: the
  documents survive their encodings (`RoundTrip`), Parse of the unsigned and of the
  signed transaction gives the flow's own operations (`UnsignedCompared`,
  `SignedCompared`), and its own signature is one of its own transaction.
  `ConstructionKeepsPromise`: the API implements `TransferPool`, one lemma per step that is
  seen. Two things make it hold. What TransferPool sees of the pool are contents, without
  key and signature; removing a transaction removes its content because
  all that is in the pool has a sender, and then the content tells the transaction
  (`PoolHasSenders`, `ContentTells`). And what Submit hands to geth is what its client
  wished, with the nonce and price it was given (`OrderedIs`), and takes no
  place that was taken when the nonce was read (`SubmitAccepts`), which only `Inv` knows.
- **LifecycleProofs.** `ExitLeavesNoGeth` in every mode. It is not inductive by itself:
  `GethIsAwaited` says that StartGeth is in cmd.Wait while geth runs, and
  `StartedOnce` that it is handed to the group once. `LifecycleTypesKept` for pipes of any
  capacity.

Every other safety property of the passing runs is proved. Only model-checked: liveness
(`BlockedIsServed`, `EveryRequestAnswered`, `StopsTogether`), since fairness is out of the
prover's reach; and the five disagreements.

## 5. Not modelled, and why

- Wording, hex and JSON of requests and responses; metadata of transactions
  (client.go:1221-1257): data without control.
- /construction/derive and /construction/hash: pure functions of their argument, on
  no way from operations to a transaction. AccountCoins and MempoolTransaction always answer
  ErrUnimplemented; NetworkList and NetworkOptions return constants.
- What geth computes. It may have more than 16 traces at work when calls are
  cancelled; the semaphore counts calls, not work.
- Opcodes that move no value; gas metering; precompiled contracts; several
  transactions in one block (their operations are independent of each other).
- The transport of the GraphQL client (one POST), of which Queries keeps that a reply
  comes whole or not at all; LoadConfiguration, of which Lifecycle and Queries keep the
  fields that steer the program; routing, which is the SDK's.
- Bootstrap balances: a one-shot conversion of a file, without a second actor.
- Mocks, build files, test data.

Hazards that no property covers are listed in `PROJECT.json` with the reason. Most of
them are modelled, and are behaviour that no promise of the
repository contradicts, such as the signal that comes before signal.Notify.

## 6. Plan

1. *Done:* TraceGate, the reads, the queries and their composition; operations of
   traces, fees and rewards; the construction flow; the process.
2. *Done:* proofs of all safety properties, the ledger of a block among them, and of both
   refinements, that of `/block` alone and in the composition.
3. *Left:* the genesis conversion of bootstrap.go (two spellings of one address, order).
   `/block/transaction` gets no specification like `BlockRead`: its parts may be of different
   blocks, so that it promises no atomic read; what holds is `TxAnswerWasCanonical` and
   `TornOnlyIfMoved`.

## Running

    tlc -config MCTraceGate.cfg MCTraceGate
    tlc -config MCLookups.cfg MCClientReads      # likewise; PROJECT.json names the pairs
    tlapm ClientReadsProofs.tla
