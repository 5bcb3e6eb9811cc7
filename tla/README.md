# pydefi in TLA+

TLA+ models of pydefi: the composer contracts that run a program when a
cross-chain message arrives, the DeFiVM, the pool indexer, the asyncio clients
that share state, the yield and bridge routes with the chains they run on, the
pathfinder with its pools and programs, and the UniversalRouter client. TLC
checks every model on small instances; TLAPS proves the six contracts that run
programs, the pool indexer, the yield routes with the funds they move, and six of
the clients that await (the RPC failover, the liquidation router's cache and its
scan for positions, Lucid's scan, a bridged order, the deposit addresses) and the
UniversalRouter client for every value of their constants.

`tlc -config X.cfg M` checks a run (`PROJECT.json` lists run, module and cfg).
`tlapm M.tla` checks the proofs: the theorems are in `CCTPComposer_proofs`,
`Composers_proofs` (OFT, CCIP, ApproveProxy, Eureka, DeFiVM), `PoolIndexer_proofs`,
`YieldJourney_proofs` and `Clients_proofs` (the clients that await, the
UniversalRouter), the lemmas
that they share in `EvmFrames_proofs`, `InboundComposer_proofs` and `Sums_proofs`.

## 1. Inventory

pydefi is a Python toolkit for DeFi with a few Solidity contracts. State and
concurrency are in the contracts, in the indexer, and in the asyncio objects
that several coroutines share. The rest plans: it reads the chain or an API,
computes, and returns transactions that are sent later, against a world that has
moved.

| Part (`src/pydefi/`) | State it keeps | Operations | Interacts with | What is hard |
|---|---|---|---|---|
| Transient guard, program runner (`vm/TransientReentrancyGuard.sol`, `vm/InterpreterRunner.sol`) | transient lock and parameter slots | `nonReentrant`, `_runProgram` | every composer inherits them | nested calls, failures that the caller survives, several deliveries in one transaction |
| CCTP composer (`bridge/CCTPComposer.sol`) | owner; token balance | `receiveAndExecute`, ownership, rescues | MessageTransmitterV2, programs | nonce, mint and program must come together |
| OFT composer (`bridge/OFTComposer.sol`) | owner; token balance | `lzCompose`, ownership, rescues | LayerZero endpoint and OFT | two-step delivery with retries over one shared balance |
| CCIP composer (`bridge/CCIPComposer.sol`) | owner, allowlist; token balance | `ccipReceive`, `setAllowlistEnabled`, `setAllowed`, ownership, rescues | CCIP router and off-ramp | lanes opened and closed between send and delivery |
| Eureka composer (`bridge/EurekaComposer.sol`) | follow-up program per packet | `sendTransferAndCompose`, `onAckPacket`, `onTimeoutPacket` | ICS20Transfer, tokens | packet is submitted before its program is registered; callbacks are retried |
| Approve proxy (`vm/ApproveProxy.sol`) | none between calls | `execute` | tokens, programs | all-or-nothing deposits, stale parameter slots |
| DEX callbacks (`vm/DEXCallbackRouter.sol`) | none | swap callbacks, `unlockCallback`, `fallback` | any caller | they pay whoever calls, between any two steps |
| DeFiVM (`vm/DeFiVM.sol`) | none between calls | `execute`, `executeWithPermit2` | Permit2, programs | no lock; refunds and authorisation of one call |
| Pool indexer (`indexer/`) | SQL tables of pools, factories, rows, checkpoints; in memory the protocol maps and token metadata | `add_*`, `run`/`_poll_once`, `backfill`, queries | an RPC node, a database file | two tasks that interleave at awaits, crash and restart, refused commits |
| RPC failover (`rpc.py`) | index of the endpoint in use, one cached provider; a cached chain list | `make_request`, `is_connected`, `from_chainlist` | endpoints | coroutines that move the index under each other |
| Liquidation router (`lending/liquidation.py`) | one shared asyncio Task per chain | `check_*`, `find_liquidatable*`, `build_*` | lending clients | shared awaits that fail or are cancelled; positions that move between reads |
| Yield routes (`yields/`) | local to a plan or a wait | market scan, positions, rebalancing, routes, signing, settlement wait | lending protocols, bridges, the VM, sponsors | steps that fail half way, nonces that move, timeouts that race a late answer |
| Permits (`vm/permit2_supply.py`, `vm/eip7702_supply.py`) | none | sign requests, sponsored batches | Permit2, EIP-7702 | which signature authorises which supply |
| Deposit addresses (`yields/deposit.py`, `vm/yield_deposit.py`) | none | derive, deploy | Safe factory, relayers | anybody deploys and sweeps, at any moment |
| Bridge clients (`bridge/*.py`) | tables | quote, build; `discover_adapter` | bridge APIs and contracts | fees asked at three different moments |
| Bridge router, cross-chain routes (`bridge/router.py`, `crosschain/`) | none | quote all bridges, rank, compose | bridge clients, composers | incomparable fees, one quote of several fails, amounts patched in at run time |
| Pathfinder (`pathfinder/`, `types.py`) | token graph, swap overlay, route DAGs, Hermes index | hop-bounded search, split optimisation, DAG building, index updates | AMM mathematics | pruning, stale snapshots, rounding, merging of routes |
| AMM mathematics (`pathfinder/v3_tick_math.py`, `amm/curve_math.py`) | none | swaps, inverses, liquidity | the graph's edges | rounding |
| UniversalRouter client (`amm/universal_router.py`) | none | builders of command sequences | the router contract, pools | hand-over between pool versions |
| Program builder (`vm/context.py`, `vm/dag.py`, `vm/swap.py`, `vm/stdlib.py`, ...) | compile-time only | IR for an external compiler | interpreter | amounts that flow through a route |
| Pool data (`pool_data/`) | none | paged and queried pool lists, graph building | GeckoTerminal, subgraphs | a ranking that moves between pages |
| Lending, other AMM, aggregator, Polymarket and Hyperliquid clients, multicall, deployments | none | read calls, HTTP, calldata, signing | external services | unit conversion |

What makes each part correct: a composer settles each message at most once,
atomically, with the parameters of that very message and with its tokens
present; a signed pull runs once, for the program it was signed for; the indexer
stores every log its checkpoints claim, once, and registers every created pool;
the failover hands out open providers, leaks none, and gives up only after it
tried every endpoint; the router's cache shares one resolve and keeps no
failure, and what a scan finds can be liquidated; a route that stops half way
leaves the funds with the user and can be completed; a transfer settles for what
was quoted; a planned swap executes as simulated when nothing moves, never pays
less than its minimum when something does, and no sequence of quotes on a pair or
a Curve pool gains anything. The hazards list of `PROJECT.json` names the lines where these can go
wrong.

## 2. Plan

Modelled, in this order: the composers, the indexer, the failover and the
liquidation cache; the yield routes, the pathfinder with the mathematics and the
programs under it, Hermes, the UniversalRouter client; the bridge clients and
routers, the liquidation scan, the paged lists, the deposit addresses and the
DeFiVM. Proved: all six contracts, the indexer, the safety of the yield routes,
and of the clients the failover, the liquidation cache and scan, Lucid's scan,
bridged orders, the deposit addresses and the orders of the UniversalRouter
(section 6).

The search, Hermes and StableSwap modules are recursive operators and stay with
TLC. To model: crypto-pool and meta-pool
formulas of `curve_math.py`.

## 3. Modules and code

Modules of one subject share an MC module, which instantiates them side by side;
a variable `which` says whom a behaviour is about, and the others rest. Each is
explored by itself that way, and properties that say the same of several modules
are stated once.

### EvmFrames: calls, reverts, transient storage

`world` is the state of one contract with the balances of it that matter;
`frames` is the stack of calls of the transaction under way. Every frame
remembers the world it was entered in, so `Revert` undoes exactly what that
frame and its callees did, transient storage included, while the caller goes on:
this is where "an entry point failed and its caller survived" happens.
The bottom frame, at `"batch"`, is a transaction that makes several calls, one
after the other or nested. `NonReentrant`, `Staged` and `Unstaged` are the guard
and the parameter slots 0 and 1 as the contracts write them; `EndTx` discards
transient storage (EIP-1153). `PayPool` is what a DEX callback does to the
contract that inherits it: it pays its caller, whoever that is.

### InboundComposer, CCTPComposer, OFTComposer, CCIPComposer

`InboundComposer` holds what the three contracts share: the program that spends
(`ProgramSpend`), the end of the entry point (`FinishProgram`), owner functions.
The three modules add the entry point and give `world.taken`, the messages the
bridge has marked as delivered, and `world.own` their meaning:

| Module | Entry point | `world.taken` | `world.own` |
|---|---|---|---|
| `CCTPComposer` | `ReceiveAndExecute` = `receiveAndExecute` up to the DELEGATECALL | nonces spent by MessageTransmitterV2, by the composer or around it (`ReceiveDirectly`) | unused |
| `OFTComposer` | `LzCompose` = `lzCompose` | messages the endpoint marked as received | messages it ever queued (`Credit` is the OFT's first step) |
| `CCIPComposer` | `CcipReceive` = `ccipReceive` | messages the off-ramp executed, with their tokens released | the allowlist (`SetAllowlistEnabled`, `SetAllowed`) |

`Composers` puts OFTComposer, CCIPComposer and the contracts of the next section
side by side, with the assumptions on their constants and the properties of the
run; `MCComposers` gives the constants values.

An entry point is two steps, entry and exit, with everything the program may do
between them: spend, use transient slots of its own, call back into the same or
another entry point, call a DEX callback, fail. A check that fails is a call
that changes nothing and is not a step.

`AtomicCompose` is the promise to the sender of a message. `Settled` and `Acted`
read it off the committed world (the world before the transaction under way),
and `KeepsPromise` says that each composer implements it.

### EurekaComposer, ApproveProxy, DeFiVM

`sendTransferAndCompose` is four steps because it calls out three times: the
token pull, ICS20Transfer's submission, which may hand control to other code
after it assigned the sequence, and the registration. `Callback` is
`onAckPacket` / `onTimeoutPacket` with `_runRegistered`. ICS20Transfer is
external: it settles a packet by a callback and takes the settlement back when
the callback reverts. Events are not modelled.

The proxy's `execute` pulls the deposits one by one, stages the parameters, runs
the program and clears the parameter slots; any token and any program can call it
again. `DeFiVM` has no lock: `Execute` and `ExecuteWithPermit2` are entered at
any depth, `Pull` is Permit2's transfer of one permitted token, `ProgramSend`
what the program does with the VM's balance, and `Fail` the revert of the interpreter.

### PoolIndexer

The tasks "poll" (`run`) and "fill" (`backfill`) share the database `db` and the
process's memory `mem`. A program counter is one await of the code, or one of
the places (`loop`, `ckpt`, `final`, together `Sync`) between two commits of one
uninterrupted stretch, where only a crash falls. A log is known by its block and
its index in it; the answer of `eth_getLogs` is a set of logs, of which `todo`
are still to be handled. `Walk` is the loop of `_process_logs` as far as it runs
without awaiting: it handles the logs before the first that waits for token
metadata (`WaitsFor`, `HandledBy`) and ends in `Suspend` (that log's handler
awaits inside the open session), `Commit` or `CommitFails`. `Request` and `Batch`
are the `eth_getLogs` calls: polling asks for all addresses, backfill for those
tracked when the batch starts. `MCPoolIndexer` chooses what blocks can hold.

### Clients that await, and the UniversalRouter (Clients, MCClients)

`Clients` instantiates the failover, Lucid's scan, the liquidation scan, a
bridged order, the deposit addresses and the UniversalRouter beside
`LiquidationCache`, each over variables of its own, for the proofs; `MCClients`
adds the paged lists and gives all of them values.

- `MultiRpc`: `call[c]` is one `make_request` or `is_connected`. `Try` runs to
  the await of the endpoint's answer; `Answered`, `Raised`, `Connected` and
  `Cancelled` are the ways it ends, and `Closed` is the return from closing a
  provider, which is an await of its own. The open providers are kept to see
  what is leaked.
- `LiquidationCache`: `tasks` are the asyncio Tasks, `cache` is `_aave_v3`,
  `check` the coroutines. `StartResolve`, `Join` and `Unconfigured` are
  `_aave_v3_client` up to its await, `Take` what follows. `Cancel` is a caller's
  timeout: since the Task is awaited without `asyncio.shield`, it cancels the
  Task for everybody.
- `LiquidationScan`: `find_liquidatable_positions` with its four checks
  (`CheckAaveV3`, `CheckAaveV4`, `CheckCompoundV3`, `CheckMorpho`), whose reads
  are answered one by one (`ReadFirst`, `Read`) while positions and interest
  move, and Morpho's liquidation arithmetic with its roundings (`MaxLiquidation`).
  The protocols' acceptance of the call that results (`Accepts`) is external.
- `BridgeClients` is the table of what each client quotes for an order, how it
  nets its fee (`Netted`), and the transfer that it builds; a call that gets no
  answer may raise what the transport raises (`CallLost`), which is no
  `BridgeError` and ends `quote_all`; `BridgeJourney` takes
  an order through `quote_all` (`Ask`), `rank_bridge_quotes` (`Rank`), the
  build functions, the sends in their order, and the settlement with its program
  (`crosschain/compose.py`). `Move` changes one fee or price between any two
  steps. The stable sort of the quotes is stated by what it returns (`Sorted`).
- `LucidDiscovery`: `discover_adapter`'s backwards scan of a growing chain.
- `PoolPages`: the paged and queried lists and `build_graph`, while pools
  overtake one another in the ranking.
- `YieldDeposit`: addresses that commit to a program, funded, deployed, swept
  and used again by anyone.
- `UniversalRouter`: what each builder puts together (`BuildV3In` to
  `BuildWrapMultihop`; `Segment` is one round of `_build_multihop_commands`), a
  caller who sends it (`SendOne`, `SendPath`, `SendMultihop`), and the router
  contract that takes one command of `todo` after the other, at any price, a
  V4_SWAP being its actions (`acts`) between `Unlock` and `Lock`.

### Yield routes (MCYields)

`YieldRoutes` is the planning half: market scan with Morpho's pages, positions,
`BestRebalance`, the steps of the four strategies, sign requests, the compose
program, the follow-up. Its operators return `Raised` where the code raises. A
scan's list of markets is the set of them: a listing's `nr` is its place in the
scan, and `Ahead` and `AheadPosition` are the orders that the code's stable sorts
give, by which `BestRebalance` breaks a tie.
`YieldJourney` sends such routes step by step over two chains: `Broadcast`,
`Sponsor7702` and `SponsorPermit2` are the caller and the sponsors, `StartWait`,
`ReadBalance`, `Poll` and `Tick` the settlement wait of `tracker.py`: the node
reads the balance in one step and the loop goes on with the answer in a later
one, with deliveries and time in between; `CallFails` is what the call raises,
which nothing catches. `FollowUp` is what comes after, with the settled balance
or with whatever has come. A bridge step carries its own destination chain
(`BridgeTx`), which is not taken from the market. Steps may fail; other transactions, another user of the shared VM,
pauses, transfers and rates interfere (`Other`).

### Pathfinder, programs (MCSwaps)

| Module | Code |
|---|---|
| `TickMath` | V3 price steps and the tick walk, with the code's floors and ceilings, over a small `Q96` |
| `StableSwap` | StableSwap's D and y iterations, `get_dy`, `get_dx`, deposits and withdrawals |
| `PoolGraph` | edges, what they pay, `pool_uid`, the swap overlay |
| `RouteSearch` | the hop-bounded search, with and without gas, and the candidate search |
| `SplitRoute` | `merge_and_expand`, `_distribute_int`, the simplex ascent and `asgm_optimize`, the calls that emit the route |
| `RouteDAG` | the builder: `from_token`, `swap`, `bridge`, `split`, `leg`, `merge` and everything they refuse |
| `SwapProgram` | what a compiled DAG does to balances and pools, `simulate`, `quote_dag` |
| `RouteTrade` | a caller plans (`Plan`) or builds by hand (`PlanByHand`, `BuildByHand`), compiles and executes, while others trade on the same pools |
| `Hermes` | the elimination order, chords, tables and witnesses of the index; weight changes, added and merged edges; `top_k_paths` and the sampling above it |

Ratios of `effective_log_weight` are kept as fractions instead of logarithms;
Hermes takes integer weights. A V3 or V4 pool of the chain is priced with the
client's own formulas over its ladder: that Uniswap's pools round a falling price
up, where the client floors it, is left out (section 7); with prices of a few
units it would be a large part of every amount, which at 96 bits it never is.
`MCSwaps` adds a trader who goes back and forth on one pair or Curve pool
(`TradeMore`).

## 4. Runs

| Run | States | Shows |
|---|---|---|
| `CCTPComposer` | 3,106 | lock and slots in step with the stack; own parameters; a program starts with its tokens there; one run per spent nonce; `AtomicCompose` |
| `Composers` | 660,728 | queues, packets and runs agree over retries; shared balances cover what is owed; closed lanes do not settle; no stale parameter; pulls only for runs that end, as signed; `AtomicCompose` |
| `IndexerPoll` | 178,392 | polling alone: no gap, discovery complete, catches up |
| `IndexerFill` | 3,961,838 | polling and a backfill with late registrations and faults: no duplicate, backfill complete |
| `YieldJourney` | 803,194 | funds stay with the user; what is under way can be completed; sponsored batches are not void; the wait ends and tells the truth; rebalances climb |
| `Routes` | 479,627 | quotes are met, minima enforced, the overlay prices as the pools do, trading back and forth gains nothing, routes divide their inputs; indexed distances are exact |
| `Clients` | 1,072,514 | failover, shared resolve, liquidations, bridge orders from quote to settlement, lists, deposit addresses; router orders are whole |
| `IndexerLostPool`, `LiquidationPoisoned`, `BestRoute`, `BridgeEnds`, `CcipFeeApproval` | violation | see section 7 |

Why the bounds are enough:

- Composers: three messages (two deliverable with different amounts and
  origins, one that the entry point must refuse), stacks of three frames: a
  transaction, a program and an attempt from inside that program. A fourth frame
  could only be another attempt that the lock refuses or a frame like the
  third. The number of transactions and calls is not bounded. The CCTP theorems
  hold for any depth. A rescue and a callback take the whole balance: a smaller
  amount leaves a state that is closer to the one without it.
- Eureka: three packets; one call with a fee on transfer, one with an empty
  program, and packets that programs send by themselves. DeFiVM: two permits of
  one owner over the same nonce for different programs, a third that leaves a
  rest to refund; two programs.
- Indexer: two or three blocks whose contents are chosen so that a pool is
  created before its own first log in the same block, logs share a block, and a
  request covers more than one block. Polling: `MaxBlock = 3`, a node one block
  behind, two late registrations, a crash and a failed call. Backfill:
  `MaxBlock = 2` in two batches, one late registration, a crash and a refused
  commit; one crash, call or commit is followed by a complete retry.
- MultiRpc: two requests and a probe over three endpoints, so that an overtaken
  call can skip an endpoint that nobody tried. LiquidationCache: six checks on
  three chains, one of them not configured: two share a failed resolve, one
  retries, one wakes up late, three can be cancelled.
- Liquidation scan: three batches of up to three candidates, one of an unknown
  chain; one position moves, interest grows by up to two units; Morpho positions
  of one to three units of debt at an 80 % LLTV and ten virtual shares, where its
  roundings are a large part of the amounts.
- Bridges: twelve orders (plain, compose and swap; unlike decimals, native and
  special chains), fleets of two or three clients in which every client occurs;
  fees of 0, 20 or 29 per 1000, swap rates of 70 or 100 %, and one change
  anywhere: a second one could only undo the first or go on in its direction. A
  plain transfer's caller approves 4000, the amount with any fee.
- Lucid: chains of up to three blocks with up to two events each, windows of one
  and two blocks, and a `chunk_size` of 0. PoolPages: five pools on pages of two,
  one that cannot be parsed, three overtakings. YieldDeposit: five units of
  transfers, two salts, an unsupported protocol.
- Yields: two plans in a row over two chains, one interfering action anywhere,
  timeout 2 and a clock of 3, so that a delivery and the moment of a read fall
  before, at and after the deadline. Calibur is deployed on one of the chains
  (`Delegates`); a gasless supply on the other is refused. All of it but `WaitEnds` is also proved, without these bounds.
- Routes: four graphs (parallel pools with a detour, a pool that two paths end in,
  a 3-coin Curve pool next to V2 and V3, two V4 pools behind one manager next to a
  V3 ladder), three hops, input amounts 10 and 32 against reserves of about 60 so
  that a trade moves its pool, up to seven builder calls, two trades of others. A
  split of two legs, one of which ends in a bridge, followed by a swap that spends
  the other leg's tokens takes eight calls and is left out; that the builder
  takes such a route at all needs six, with one leg (`BridgeEnds`). The line
  searches keep the code's relative tolerances (`TolDen`, `InnerTolDen`).
  Trading back and forth: pairs and Curve pools of both D forms, balanced and
  up to 1:6, with fees of 0 and more, four trades of 1, 5 or 30 units. Hermes: four
  vertices, every elimination order, two changes, a bulk update counting as two.
- UniversalRouter: paths of one to three hops, native ETH and WETH at the ends,
  prices 0–3, two transactions.

`CHECK_DEADLOCK` is off in `Clients`, `Routes`, `YieldJourney`, `BestRoute`,
`BridgeEnds` and `CcipFeeApproval`: a plan, an order, a scan or a bounded number of trades is
carried out once and is then over. It is on for the contracts and the indexer, which serve
forever.

The type invariants of the modules (`TypeOK`) hold in the instances of these
runs; the runs themselves are kept to the properties above.

`MCSwaps` also evaluates two assumptions on the curve formulas that no trade
reaches: the input that `get_dx` asks for buys the output up to one unit
(`DxBuysDy`), and a deposit of one coin is never withdrawn as more of it
(`DepositGainsNothing`).

Assumptions that the models rest on:

- A program never writes the lock's transient slot, and is otherwise free
  where the code leaves it free (`ProgramTstore`, `ProgramSpend`).
- MessageTransmitterV2, the LayerZero endpoint, the CCIP off-ramp, ICS20Transfer,
  Permit2 and the router contract behave as the code in `src/` uses and describes
  them; a callback's revert bubbles up through ICS20Transfer. The interpreter is
  deployed at its immutable address.
- The database is a file that survives a crash and has one writer at a time; a
  session that flushed holds the write lock while it is suspended.
- The chain does not reorganise, a node returns all logs up to the head it
  reported (`HeadLag` is how old that head may be), pools have token addresses
  of their own, and `backfill` is not asked for blocks beyond the head.
- A timeout cancels a call of the failover only while it waits for an answer,
  not while it closes a provider.
- In the yield journey the reads of one planning call (an account's nonce, code
  and sequence, the delegate's code, the allowance) are answered at one moment,
  and so are the scans of one rebalance decision (markets and positions);
  Morpho's indexer answers its pages. A market id names one market, on the chain of its token, and a bridge
  joins two chains.

## 5. Fairness

- `PoolIndexer!FairSpec`: weak fairness of the polling task. `run()` is an
  endless loop around `_poll_once` that logs every exception and sleeps, so its
  next step is taken if it stays possible; every RPC call returns or raises
  after its timeout. Nothing is assumed of backfill, user, chain or faults,
  which are bounded by constants.
- `MCClients!MCSpec`: weak fairness of each RPC call's steps: an endpoint answers
  or its request times out, and closing a provider returns. No fairness between
  answering and raising: `Terminates` holds if all endpoints always raise.
- `YieldJourney!Spec`: weak fairness of `ReadBalance \/ CallFails`, of `Poll` and
  of `Tick`: the node's call returns or raises, the event loop runs the waiting
  task, and time passes. None of the bridge: `WaitEnds` holds if it never
  delivers.

The composers are contracts: nobody has to call them, and no liveness is claimed.
The pathfinder and the bridge clients are called, and end by themselves.

## 6. Proofs

Every theorem is about the specification that TLC runs, for every value of its
constants: any messages, users, permits, blocks and pools, stacks of any depth,
any number of transactions, crashes, errors and calls. The assumptions are the
named ASSUMEs of the modules, which TLC evaluates in each run.

### The contracts

Their invariants are not inductive: `Revert` brings back a world that a frame
remembers, of which they say nothing. `EvmFrames_proofs` therefore keeps a
relation `Fit` between a world and the stack below it, for the running world
*and* for the world that every frame remembers (`Kept`), and proves once what a
call, a return, a revert and a step in place do to it. `AllIn` is the special
case of a relation that ignores the stack.

**CCTP, OFT, CCIP.** `InboundComposer_proofs` states `Fits` for the part the
three have in common: the lock is held iff a program runs below, the slots then
hold its parameters, and a message's mark, run count and presence on the stack
agree. What differs between the composers is a record `c` (parameter pairs,
messages that cannot be marked without a run, values of `own`), so that the
lemmas are instantiated with `Cctp`, `Oft` and `Ccip`. Added to it are

- `OftBooks`: balance, sends, payments and rescues of OFTComposer add up to the
  amounts of all messages it was ever sent. With one sum for the queued and one
  for the taken ones this gives `QueueIsBacked`. `Sums_proofs` has the sums over
  finite sets that it needs; since induction over an operator is out of reach,
  each fact is proved by a smallest counterexample (`MinimalSubset`).
- `LaneFit`: unless the transaction is the owner's, it has not changed the
  allowlist, and a message that runs or has run in it had its lane open in the
  world it began with (`LanesDecide`, an action property).
- The promise to the sender, `AtomicCompose` (`Refines`, for each of the three):
  the mapping looks at the committed world, `frames[1].snap`, so only `EndTx` is
  more than a stutter, and `Fits` says (`Since`) how the world may differ from it.

`Composers_proofs!Consistency`, `RunsOnce`, `QueueIsBacked`, `LanesDecide`,
`Refines`; `CCTPComposer_proofs!Consistency`, `TransientIsFresh`,
`ParametersAreOwn`, `OneRunPerNonce`, `ProgramsStartFunded`, `Refines`.

**ApproveProxy, Eureka.** Their entry points are `nonReentrant`, so at most one
call runs at a time: `Nested` says what holds of a world at rest, what holds of
one in which a call runs, and that a call is entered from a world at rest. The
deposits pulled so far are the ones of the call that runs, and none at rest
(`ProxyIInv`); escrow, follow-ups, packets and run counts agree for each
sequence (`EurekaIInv`). Theorems: `ParametersAreOwn`, `FollowUpsInStep`,
`RefundsAreOwn`.

**DeFiVM** has no lock, and calls of it nest to any depth. Its invariant is a
balance sheet: for each wallet, nonce and program target (`Keys`), what ended
runs account for (`Done`) and what each running frame has done so far (`Doing`)
add up to what the world shows (`Agrees`). `TakenForRuns` follows for the proxy
and the VM: tokens are taken for runs that end, as signed, once per nonce.

`TypeCorrect` says of all six contracts that no balance, wallet or escrow goes
below zero, in any world that a revert may bring back. `Composers_proofs!IInv`
puts the five invariants of its contracts side by side.

### The indexer

`PoolIndexer_proofs!IInv` has three layers.

- `Sound(l)`, for the locals of a task at each program counter: nothing of what
  it went through is lost. Of the logs that it has handled, those of addresses
  it must account for are stored or pending, and their new pools registered in
  memory; after the commit they are in the tables. It stays true when the other
  task moves, because every step but a crash only adds to chain, memory and
  tables (`Grows`), and a crash ends both tasks. `BackfillCompletes` follows.
- `Settled`, while no registration falls between two steps of a task: a loop
  that starts with all the metadata it needs never suspends (`Steady`), so
  looking for a row and inserting it are one step, and no log gets two rows
  (`OneRowEach`).
- `Polling`, while nothing but the poll writes (`PollsAlone`): it asks for every
  address from no later than the block after its checkpoint (`Alone`), so no
  checkpoint passes a log (`PollingLeavesNoGap`) or a creation
  (`PollingDiscovers`). The conditions are needed (section 7): a backfill moves
  checkpoints over logs that its filter left out, and a transaction that is
  refused leaves pools in memory only, be it refused by itself or because the
  user has registered a pool that the open session just discovered.
  `IndexerPoll` runs under the same conditions.

`Chained` is what the proofs need of the chain: a pool emits after it was
created, by one log. It follows from `ContentsAssumption` and the guard of `Mine`.

### The yield routes

`YieldJourney_proofs` proves the run's four invariants and `NoPingPong`, for any
markets, chains, bridges, tokens, rates, fees, plans, delays and any number of
interfering actions. `IInv` has six layers.

- What a route is made of (`RouteFits`, `Shaped`): calls of the four kinds on one
  chain, of which only the last may bridge or be sponsored, and a pending market
  that the scan listed. Proved once for every strategy, signing mode and view of
  the chain (`YieldPlan`, `ComposePlan`, `FollowupPlan`) and for what signing makes
  of it (`PlannedSigned`).
- The books: the user's wallet, positions and transfers, with the bridges' fees,
  make up what was given (`Conserved`), and the VM holds nothing (`VmEmpty`).
  `UserCall`, `UserBatch` and `VmRuns` show that a call, a batch or a VM program
  that succeeds moves units and loses none, and that the VM pulls what its program
  uses up (`Exact`); one that fails changes nothing. `FundsAccounted` follows.
- What is still unsent (`NotYetSent`, `PendingFits`): until its bridge step is sent
  no transfer of a plan is under way; a route that ends elsewhere spends no token
  of the destination, so the balance the wait compares with is below its start
  only if somebody else took from it, and above it only after a delivery or a
  transfer in. What holds of the balance holds of the answer to the read, with
  what had been delivered when it was read (`WaitFits`, `ReadBalanceKeeps`), which
  the steps that fall between read and poll do not change: `WaitHonest`. What it
  leaves open, a delivery during that read, is in section 7.
- What a bridge delivers: a bridge step names the bridge's chain and the address
  asked for, and only the strategies' comparison of chains makes that the pending
  market's token (`PaysOut`, `Outbound`, kept for the transfers under way by
  `PendingFits`). `RouteRecoverable` follows.
- `BatchCounts`: until another transaction of the account comes between, the
  authorization's nonce is the account's plus the steps still before it
  (`BatchRuns`).
- `LeftBeaten`: each market the rebalancer left pays less than another one on its
  chain. `BestIsTop` shows that it goes to one that nothing on the chain outbids:
  the gain grows with the rate, Decimal's rounding to even included
  (`RoundingClimbs`), and a tie is broken by the rate. So it never returns to a
  market that it left (`RebalancesClimb`), while rates and pauses stand still: a
  change of either empties `seen.left`.

### The clients

`Clients_proofs` proves, with any number of calls, endpoints, checks, blocks,
addresses and transactions:

- `MultiRpc`. `FailoverTyped`, `FailoverUsable` (the cached provider is open and
  is the index's; a failed call has tried all) and `FailoverIsSound`, which adds
  that nothing is leaked, if no request is cancelled. The premise is needed: a
  request that is cancelled leaks its provider (section 7). `RpcIInv` says who
  *has* a provider, i.e. will adopt or close it (`Has`): never two calls, never
  of the cached one (`Held`), and of each open one that is not cached somebody
  (`Claimed`). A provider is named by its call and iteration, and none that is
  used belongs to an iteration still to come (`Built`), so a new one is new.
  `HasTried` counts the endpoints a call went through from where the index is:
  adopting another provider moves the index, and thereby overtakes all calls
  that are running; after N iterations every endpoint was tried (`AllEndpoints`).
- `LiquidationCache`. `CacheTyped` and `SharedAndClean` (`Spec => []CacheSound`:
  one resolve in flight, no failure left in the cache once the chain's checks
  have ended, unless one was cancelled). `IInv` adds to `TypeOK` that a Task that
  is not done is the cached one; `AllAnswered` adds that a cached Task which
  runs or failed has a check waiting on it, or one that its timeout cancelled.
  The delicate step is the late awaiter, whose eviction leaves a newer Task alone.
- `LiquidationScan`. `FoundAndLanded` (`Scan!Spec => []LiquidationsLand`), with
  `LatestAdapter` below `ScansFind`.
  `ScanIInv` says what a check knows of a position that has not moved (`AsRead`):
  every answer so far is what the position would answer now, so a completed
  check tells whether it is owed (`CheckTells`), and the call it built is the one
  for the position as it is; interest disturbs none of it (`InterestKeeps`). The
  rest is arithmetic (`MorphoCallLands`): with debts and shares rounded up, and
  seized collateral down, at whatever rates, Morpho accepts the call of
  `max_liquidation` unless interest has grown since (`TippedByInterest`) or the
  collateral is worth the whole debt to within a unit (`WithinOneUnit`); both
  exceptions are needed. `ScanAssumption` takes the oracle's price to be positive
  and a Morpho position with a debt to have collateral.
- `LucidDiscovery`. `LatestAdapter`: while the scan goes on, no block above its
  cursor that was mined before the call has an event (`LucidIInv`); blocks mined
  later leave that alone, and may supply the answer themselves.
- `BridgeJourney`. `QuotedIsSettled` (`Bridge!Spec => []SettlesAsQuoted`) and
  `SupplyIsAccounted`. `JourneyIInv` follows the order: the quotes that were given
  are those of its costs until something moves (`Given`, for each of the ten
  clients `QuotesPromise`); the transactions left to send are a tail of those
  that were built, with the allowances that the sent ones gave (`LegsFit`); the
  transfer on its way is one that the client builds for the fee it was asked
  (`BuiltFor`, `FlightFits`). From there `PlainArrives` compares, client by
  client, what the bridge hands over with what was promised: CCTP's fee is either
  within the transfer's maximum or not taken at all, Across and Mayan hand over
  the minimum or give the amount back. `HookRuns` shows a program's minimum to be
  met: its estimate is at most what arrives (`ComposedArrives`), and swapping and
  taking the slippage off keep the order. `QuotedIsSettled` has one premise,
  `FeeApart`: CCIP's fee is not paid in the token that a route with a program
  sends. Without it the fee's approval overwrites the amount's, which is the
  finding of `CcipFeeApproval`. `BridgeAssumption` takes amounts, fees, rates and prices
  to be natural numbers, a slippage to be at most the whole, and a plain
  transfer's caller to approve the amount with any fee.
- The ranking of quotes. `FirstIsTheBest`: until something moves, a quote is the
  one its client would give again (`Fresh`), and of two ranked quotes the first is
  not the worse by its score (`Ordered`); both are kept next to `JourneyIInv`
  (`RankingIInv`). A score is what the client promises less the fee paid on top
  (`ScoredEffective`), and what the recipient nets lies between the score and the
  score less the slippage (`NetFact`), so that the order of the scores is that of
  the nets. The premise is a state's, `FeesFit`: CCTP's fee is at most the
  `max_fee` of the transfer (above it CCTP goes slowly, charges nothing and
  delivers more than was quoted), a fee on top is worth no more than the amount,
  and the gas buffer that Lucid sends without quoting it is within the slippage.
  The run reaches states with and without it, and finds the first quote the best
  in all of them; for every constant it does not hold without the premise.
- `YieldDeposit`. `DepositIsAccounted`: an address without a Safe has paid and
  supplied nothing, one with a Safe has paid its fee once and supplied something.
- `UniversalRouter`. `OrdersWhole` (`Router!Spec => []OrderIsWhole`), for routes of
  any length and transactions of any number of segments. In the middle of a
  transaction balances say nothing of what was ordered, so `RouterIInv` says in
  which of thirteen forms it is (`SentForm`), each a shape of what is left of the
  commands and actions, with what balances and debts are then. The commands left
  are legs (`Legs`): each starts with the token that the one before it ends with,
  spends all that the router holds of it, and only the last pays the recipient and
  has a minimum (`AtLegs`, `Ready`). Within a V4_SWAP the debts take the place of
  the balances (`FormSwapThenPay` to `FormLock`), an exact output goes through its
  pools backwards (`FormOut`, `FormSwapOut` to `FormTakeOut`). Each step leads from
  one form to another, and each builder starts in one: `SegmentsFact` shows that
  the segments of a multihop are routes that follow one another, however the
  pool versions change, and `SegmentFact` that each is made into a leg.
  `RouterAssumption` is the pathfinder's: the tokens of a path are distinct, two
  at least, and not native.

### Only model-checked

- The paged lists (`ListsWhole` of `PoolPages`): they are read with FoldLeft,
  SelectSeq and FlattenSeq, which needs induction over data.
- The pathfinder, Hermes and StableSwap modules: their algorithms are
  RECURSIVE operators, which the proof system does not take, and what they
  compute for every input would need induction over data.
- Liveness (`CaughtUp`, `Terminates`, `WaitEnds`): the proof system has no
  ENABLED and no fairness.

## 7. Where code and documentation disagree

Shown by a run:

- `IndexerLostPool`: the handlers put a new pool into the process's memory
  before the batch is committed. If that commit fails, the retry takes the pool
  for known, and the checkpoint passes its creation; after a restart the pool is
  gone.
- `LiquidationPoisoned`: a timeout of one check cancels the Task that all
  share; `CancelledError` is not an `Exception`, so the Task stays cached and all
  later checks of the chain are cancelled at once.
- `BestRoute`: the search keeps one candidate per token and hop count and
  refuses visited tokens. The candidate kept may have passed through the token
  the best continuation needs, so on five tokens the best route is missed
  (`router.py:148` argues that it cannot be).
- `BridgeEnds`: a leg may end in `.bridge()` and the trunk go on after the merge
  with a swap, which then spends the amount that the bridge has taken
  (`dag.py:133`).
- `CcipFeeApproval`: if the CCIP fee is paid in the bridged token, the approval
  of the fee overwrites that of the amount, and the send fails (`ccip.py:331`).

Met while modelling, and kept out of the properties by an explicit condition:

- The settlement wait awaits the balance and reads the clock afterwards
  (`tracker.py:120`, `:126`). A delivery before the deadline, while the read is
  under way, is not in the answer; if the answer comes after the deadline the
  wait raises and does not look again, against "Poll until" the balance has grown
  and "if ``timeout_seconds`` elapses first" (`tracker.py:104`, `:108`). TLC reaches
  it in eleven states: read, delivery, two ticks, poll. `WaitTellsTheTruth` states
  what is true: nothing had been delivered when the last read was made. The
  follow-up can be built then too (`FollowUp` after a timeout).
- The overlay keeps one price per address (`graph.py:366`), and all V4 pools have
  the PoolManager's. A route that swaps on one of them has every other priced
  from the first one's price, against `graph.py:89` and
  `tests/test_pathfinder.py:855`. `OverlayFaithful` is about the edges of which
  the route used no such neighbour (`NeighbourUsed`); without that condition the
  run violates it on its graph with two V4 pools.
- The price after a token0 input is floored (`v3_tick_math.py:128`), in the
  trader's favour; Uniswap's pools round it up. A quote with a full ladder can be
  above what is paid, against "Exact across boundaries" (`graph.py:329`). With
  96-bit prices the difference is none for liquidities up to 10^22, a unit now and
  then at 10^25, and up to a dozen units at 10^30. For the same reason trades back
  and forth can gain by the client's formulas, and `NoFreeLunch` is about pairs
  and Curve pools.
- `MultiRpcProvider.make_request` reads `_current_index` again in every
  iteration (`rpc.py:163`). A request that another one overtakes can try one
  endpoint twice and never try a healthy one, against "If *all* endpoints fail
  the last exception is re-raised" (`rpc.py:111`). `TriesAllUnlessOvertaken`
  excludes overtaken calls.
- The same method closes a failed fallback in `except Exception`
  (`rpc.py:183`); a cancelled request leaks it, against `rpc.py:164`. Only
  probes are cancelled in the run.
- A poll and a backfill that are both suspended inside their sessions, which
  needs a factory registered while they run, can both insert the same log
  (`indexer.py:661`): `NoDuplicateRows` has the condition `faults.late = 0`.
- The same loss as in `IndexerLostPool` needs no failing database: a user who
  registers a pool while a suspended session has discovered that very pool makes
  the session's commit fail (`indexer.py:642`), and every other pool of that
  batch stays in memory only. `NoGap` and `DiscoveryComplete` are proved for
  users who register no pool that a factory creates.
- A backfill that discovers a pool advances the pool's checkpoint over logs
  that its address filter left out (`indexer.py:402` against
  `models.py:154`): `NoGap` is about polling alone.
- `onAckPacket` and `onTimeoutPacket` emit their event also when no program was
  registered (`EurekaComposer.sol:278`, against the comment at line 130).
- The parameter slots 0 and 1 are zeroed after a program, but a slot above 1
  that it stored into stays set for the next delivery of the transaction
  (`CCIPComposer.sol:174`, against "clean slate" at line 167):
  `CleanBetweenCalls` is about slots 0 and 1.
- Morpho's `max_liquidation` promises a call "without reverting"
  (`morpho.py:304`); it reverts for positions whose collateral is worth the debt
  but for less than a unit (`WithinOneUnit`), and for those that interest since
  the last accrual has tipped to bad debt (`TippedByInterest`), because
  `check_morpho` reads the market without accruing it. For the same reason the
  approval named by `debt_to_repay` (`liquidation.py:139`) falls short by the
  interest.
- `get_dx` says it returns the input "required to receive dy"; its rounding may
  leave it one unit of output short (`DxBuysDy` allows that).
- `simulate()` raises on a DAG with an open split, but `build_execution` and
  `quote_program` compile it and silently drop the split.
- `types.py:152` gives a step's fee in basis points; for V4 it is the pool's fee
  in pips (`vm/swap.py:450`).
- `get_pools_for_tokens` spends its limit on the first chunk of addresses, and
  does not sort over all chunks; `get_top_pools` and `get_pools_for_token` list a
  pool twice when it is overtaken between two pages, and `add_pool` then appends
  it twice (`geckoterminal.py:305`; `BestAreListed` and `PoolsOnceInGraph` state
  what remains true). A GeckoTerminal entry with 0 decimals gets 18, a subgraph
  entry with a `feeTier` of 0 gets 30 bps.
- A quote of the OFT and Stargate clients leaves out the native message fee
  (`stargate.py:150`), so `FirstIsBest` compares them where it is zero
  (`PriceNamed`); Relay and Mayan quotes of unlike decimals are ranked last;
  Stargate, Mayan and CCTP quote some lanes that they cannot build (`Buildable`).
- `quote_all` drops a `BridgeError` only; the `TypeError` of a client that does
  not take the caller's keywords, and whatever a request without an answer
  raises, ends the call for all of them (`bridge/router.py:128`).

Hazards that no property covers: a Eureka follow-up that always reverts, or
needs a balance that another follow-up spent, keeps its packet from ever being
acknowledged (`EurekaComposer.sol:294`); a node that returns fewer logs than the
range holds, or a reorganisation (`indexer.py:468`); a backfill whose address
filter is fixed before it discovers pools (`indexer.py:383`); a request in flight
on the provider that another request closes (`rpc.py:181`); a DELEGATECALL to an
address without code succeeds (`InterpreterRunner.sol:38`); Morpho's scan ends at
a page that is short only after filtering (`yields/router.py:562`); a V3 pool's
liquidity is held constant by the overlay (`graph.py:353`), so that
`OverlayFaithful` is about prices within a tick; a
failed `merge()` drops the split it was to close; a V3 pool that runs
dry leaves the rest of the input in the VM; a Hermes index goes stale when its
graph is changed behind it, and a cycle of weight zero repeats a vertex.

## 8. Not modelled

- ABI encoding, signing and hashing, HTTP parsing and formatting, in all
  clients; the Polymarket, Hyperliquid and aggregator clients consist of it. A
  model would restate the formula. (Rounding of order sizes there is binary
  floating point, which TLA+ has no notion of.)
- The IR and the standard library of the program builder: input of an external
  compiler; `SwapProgram`, `YieldDeposit`, `BridgeJourney` and `YieldJourney`
  model what the programs do.
- The Rust route engine: compiled, and not in the repository.
- Multicall: one batched read. Deployments and ABIs: data.
- V2, V3, V4 and Curve client classes: single read calls; the mathematics behind
  them is in `TickMath`, `StableSwap` and `PoolGraph`. 256-bit overflow and the
  table of tick ratios: beyond TLC's integers, so prices are given directly.
- Curve's crypto-pool and meta-pool formulas, spot-price and impact reporting.
- The rates, supply and borrow calldata of the lending clients; the read-only
  queries of the indexer; the download and the cache of the chain list: one
  fetch and a filter.
