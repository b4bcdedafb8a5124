# AeroRisk in TLA+

AeroRisk is two programs around Kafka and Redis. The Go **engine** takes orders,
passes them through a ring buffer, matches them and keeps a ledger; it also serves a
WebSocket gateway. The Python **guardrail** consumes transaction events, runs three
agents over each (anomaly detection, context retrieval, decision), stores incident
reports and writes circuit breakers to Redis. This directory holds TLA+ models of the
engine's core and of the guardrail's event path, the TLC configurations that check them
and TLAPS proofs about them. PROJECT.json lists every component, run, mutant, finding,
hazard and theorem, and for every definition the lines it stands for.

## Inventory

| component | state | operations | interacts with | what is hard | what makes it correct |
|---|---|---|---|---|---|
| Matching engine, order book (`orderbook/`) | per side a map of price levels, the best price, per level a queue and two aggregates; a trade channel of 10000 | SubmitOrder, CancelOrder, TradeChannel | readers of the channel | the send blocks in the middle of a match; best prices go stale; levels are emptied but kept | quantity conserved, no order lost or duplicated, limits honoured, arrival order, cancelled is final |
| Ring buffer (`disruptor/ring_buffer.go`) | cursor, one sequence and event per slot | Next, Get, Publish | producers, batch processor | two compare-and-swaps per claim; nothing stops a lap | distinct contiguous numbers, what is published stays readable, Next returns |
| Batch processor (`disruptor/batch_processor.go`) | position, batch, done | Start, Stop, the loop, a handler | ring buffer, the handler's channel | reads slots without looking at their sequence; blocks in the handler | every event handled, Stop returns |
| Ledger (`ledger/ledger.go`) | accounts, balances, journal | CreateAccount, Deposit, Withdraw, Transfer, reads | settlement (not connected) | self-transfers, negative amounts, int64 | journal explains balances, no overdraft |
| Settlement engine (`ledger/settlement.go`) | map of settlements, next ID | CreateSettlement, Settle | nothing | no lock, no status check | distinct IDs, settled once |
| Red-black tree (`orderbook/rbtree/`) | a tree | insert, delete, search | nothing uses it | rebalancing | ordered, balanced |
| Account state in Redis (`cache/account_state.go`) | cash, available cash, reservations, positions per account | reserve, release, UpdateCash, Get, Set | other processes on the same keys | read-modify-write, duplicate order IDs | available + reserved = cash |
| Circuit breaker in Redis (`cache/circuit_breaker.go`) | state, failure count, opening time | IsBlocked, RecordRiskDecision | other processes | lost updates; half-open only on a local copy | an opened breaker blocks until its cooldown |
| WebSocket gateway (`gateway/ws_server.go`) | set of clients, their channels, broadcast channel | HandleWS, Broadcast, two pumps per client, distributor, Stop | browsers | a channel closed by one goroutine and sent to by another | no send on a closed channel, no client leaks |
| Rate limiter (`gateway/rate_limiter.go`) | tokens and last refill per user | Allow | gateway | rounding of the refill | rate bounded, and reached |
| gRPC gateway, authentication | none | stubs, a token check | - | - | - |
| Kafka publisher (`publisher/`) | client handle | Publish* | Kafka | synchronous produce | - |
| Risk pipeline, router (`graph/`) | the state of one event | four nodes, process_event, process_batch | the three agents | an exception at any await becomes ALLOW; two routers | answers match effects, a sanctions match that was found is blocked |
| Decision orchestrator (`agents/agent3_orchestrator/agent.py`) | a semaphore per batch | evaluate, batch_evaluate | LLM, Postgres, circuit breaker writer | partial failure between report, storage and breaker | a decision's effects all happen |
| Circuit breaker writer (`redis_writer.py`) | counter and status keys with expiry | increment_trigger_count, close_circuit, reset_all | Redis, Kafka | several calls per operation | five triggers open, the counter expires |
| Context agent (`agents/agent2_rag/`) | screening cache, profile cache, ingestion loop | screen_user, profile reads, ingest | Postgres, Qdrant | negative results cached for ever, errors cached as negatives | a listed user is caught |
| Anomaly detectors (`agents/agent1_anomaly/`) | windows and histories | analyze | pipeline | window boundaries, two clocks, unbounded histories | histories are exact, results are backed by them |
| Kafka consumer, service (`consumer/`, `main.py`) | offsets, running | start, stop, consume_loop, process_batch | Kafka, pipeline, the other replicas of the group | auto-commit, rebalances, session timeouts, timeouts that cancel a read | every loss and every redelivery has a known cause, the loop goes on |
| Postgres client (`storage/qdrant_client.py`) | one connection, two tables | save_incident_report, log_audit_event, update_incident_review, reads | Postgres; every thread of the executor | one transaction for all threads, no rollback | what returned is stored, reviews are kept |
| Seed script (`data/scripts/seed_qdrant.py`) | the sanctions collection | drop, create, fill | Qdrant, the screenings | screenings run meanwhile | - |
| Models, settings, prompts, observability, Qdrant client, other scripts, deployment | - | - | - | - | data classes, configuration, telemetry, queries |

*The guardrail's files do not fit together*, just as the engine's `main.go` calls
constructors with signatures its packages do not have. `graph/` imports an `AgentState` and
most modules a `TransactionEvent` that are defined nowhere, the agents a
`storage/postgres_client` that is not there (the client with these tables is in
`storage/qdrant_client.py`), `agent2_rag/agent.py` calls `asyncio.gather` without importing
`asyncio`. `agent.py` of the orchestrator calls `insert_incident_report` where the storage
has `save_incident_report`, which reads fields an `IncidentReport` does not have. The
pipeline calls `make_decision`, which the orchestrator does not have, and two methods that
the models of an anomaly and a decision do not have (`is_high_confidence_fraud`,
`should_update_circuit_breaker`), and builds decisions with fields that differ from those of
`RiskDecision` (`pipeline.py:119-125, 208-216, 243-249`). Nothing calls `consume_loop`.
The models take each file by what it says it does: a call between two of them reaches the
operation it is meant for, a missing method answers anything, and every constructor and
node of the pipeline may raise.

## Modules

| module | models | extends / instances |
|---|---|---|
| `MatchingEngine` | SubmitOrder, CancelOrder, the trade channel | instances `Exchange` |
| `Exchange` | what an exchange promises, with no book and no channel | - |
| `RingBuffer` | Next, Publish and the write in between, by many producers; checked as a part of `Disruptor` | - |
| `Disruptor` | the batch processor with the producers | extends `RingBuffer` |
| `Ledger` | the ledger and its journal | - |
| `EventConsumer` | the replicas of the Kafka consumer in one group, their offsets, rebalances, stops, crashes and restarts | - |
| `RiskPipeline` | the graph of one event, process_batch, the direct route, the router | - |
| `Detectors` | the four detectors and their histories | - |
| `Screening` | sanctions screening and the agent's own check, their caches, the seed script | - |
| `CircuitBreaker` | the writer of the circuit breakers in Redis, the operator, the clock | - |
| `Orchestrator` | evaluations, the scorer, the LLM's outcomes, batch_evaluate | extends `CircuitBreaker` |
| `IncidentStore` | the Postgres client on its one connection | - |
| `RingAndLedgerProofs` | theorems about the engine's queue and money | extends `Disruptor`, `Ledger`, `Sums` |
| `ConsumerAndStoreProofs` | theorems about what the service reads and stores | extends `EventConsumer`, `IncidentStore` |
| the other `*Proofs` | theorems | extend the module they are named after |
| `Sums` | lemmas: sums over finite sets and their induction | - |
| `MC*` | constants for TLC | extend the module they are named after |

Definitions whose comment begins with *Mutant* are not part of a specification: each is
a definition as a plausible bug would leave it, and shows that a property can fail.

### MatchingEngine

`levels`, `queue`, `levelQuantity`, `orderCount` and `best` are the two level maps, their
`Orders`, `Quantity` and `OrderCount`, and bestBid/bestAsk, indexed by side; `quantity` is
`Order.Quantity`; `taker`, `maker`, `matchQty` and `trades` are the locals of matchOrder;
`original`, `executed` and `cancelled` are history variables. SubmitOrder is `Submit`, then
a loop of `Fetch` (condition, first order, quantity), `SendTrade` (the blocking send) and
`Fill` (the assignments after it), then `Rest` (AddOrder of what is left). The three locked
calls of BestAsk in an iteration are one step because only the submitting goroutine
changes the book. CancelOrder is one step, under the book's lock; its arguments are any
known order, side and price, right or wrong. Orders are named by the position of their
submission, so IDs are distinct. SideUnknown is treated as a sell order by the code and so
is covered by "sell". The quantities of a book are not summed by anything that reads the
sum, so they are not given a width.

*Refinement.* `Exchange` knows only orders that enter, execute in pairs, and are
withdrawn. A trade of the engine happens when it is sent: `open` is the original quantity
minus what was sent, although `Order.Quantity` follows one step later.

### RingBuffer and Disruptor

Each atomic load, compare-and-swap and store of `Next` and `Publish` is a step
(`LoadCursor`, `ClaimCursor`, `ProbeSlot`, `TakeSlot`, `Publish`); the caller's write of the
event between them is `WriteEvent`. A failed comparison that is retried at once is folded
into the step that loads again. Spinning in the inner loop (`ring_buffer.go:51`) is
`ProbeSlot` being disabled. An event is one word, the number it is published under; a torn
read of a larger event is not modelled. In `Disruptor` the loop's `select` and its gathering
are `Gather` and `Exit`, each call of the handler is `Handle`, and the consumer's sequence
is kept modulo the size because only `sequence & mask` is ever used. `Get` never returns
nil, so the loop's break is not reachable and has no action. The handler sends on a bounded
channel, as the one of the package's test does. `lapped` is a history variable: it becomes
true when a number is claimed before the number one lap behind it, which uses the same slot,
was published. As long as it is false the buffer may wrap any number of times.

### Ledger

Every operation holds `Ledger.mu` throughout, so every call is one step; `Fail` is a call
that returns an error. `Wrap` gives balances the width of a quantity. The ID of an entry is
its position, which is what `nextTxnID` counts. `opening` is a history variable.

### EventConsumer

The deployment runs two to eight replicas in one consumer group
(`guardrail-deployment.yaml:10, 140-141`). For each, `client` says whether start() or
stop() came last, `lpc` where consume_loop is, `position` what its client has taken.
`Start` is start(), `ConsumeLoop` a call of consume_loop. `PollEvent` and `PollMalformed`
are getone with the parsing after it, between which nothing suspends; a getone that was
waiting when stop() was called can still deliver, until `Close` ends stop().
`HandlerReturns` and `HandlerRaises` are the two ends of the await of the handler, the
second followed by the sleep that `BackedOff` ends. `ProcessBatch` is getmany and the loop
over what it returned, up to the first message that cannot be parsed. `Stop` may leave the
handler at work; `Crash` is a process that dies.

The group and the client library are external, and assumed to do this: the group assigns
the partition to one running client at a time (`Assign`), which begins at the committed
offset, or at the end of the log if there is none; the owner commits its position at any
moment (`AutoCommit`, for `enable_auto_commit`), whatever became of the messages; a
rebalance lets the owner commit and takes the partition (`Revoke`); a session that times
out takes it unseen (`Evict`), and the client goes on until it notices (`Notice`), its
commits refused. `attempts`, `unrecorded`, `settled`, `cut` and `dropped` are history
variables that say how often a message was handed over, how often that was lost to the
group, and what became of it. An event's content is abstracted to whether it parses.

### RiskPipeline

One coroutine per event, with a step per node: `Detect`, `GatherContext`, `Decide`, and the
two calls of post-processing, `Report` and `UpdateBreaker`. `Raise` is any of them raising,
before or after its effect, and `FailedOpen` the except branch of process_event.
`BatchReturns` is the gather of process_batch, `DirectReturns` the route of the service. The
agents are external here, and each returns anything: in particular a context may miss a
match, from an error, from missing details or from a cache, which is what `Screening` is
about, or report one that is not there. Whether an anomaly is fraud for the pipeline
(`fraud`) is independent of the router's test, since the method the pipeline calls does not
exist. The functions of `PipelineRouter` are operators on an anomaly and a context.

### Detectors

Nothing suspends in detect_anomalies, so `Detect` is one step, in the order of the four
detectors. Histories are the sequences the code keeps and are trimmed as the code trims
them; times are whole seconds and shares are fractions, so that comparisons are exact.
There are two times: `now`, the clock that the velocity and wash trade detectors read, which
does not go back, and the `stamp` that the producer gave an event, which the spoofing
detector subtracts and about which nothing is assumed.
Prices and quantities are any integers, as nothing on the way checks them: a fill of
nothing leaves a VWAP without a denominator, which is where the code answers with no
deviation. `history` is a history variable, and the properties speak of its positions.

### Screening

A call of screen_user (`Bulk` under the semaphore, or `Single`) or retrieve_context
(`Checks`) begins with its cache (`Begin`), suspends at the details of the user
(`Details`, `NoDetails`) and at every search (`Found`, `NotFound`, `SearchFails`). The
screener uses its cache only when it says clear, the agent its own only when it says match;
both are per user and without expiry. `SeedDrop`, `SeedCreate` and `SeedFill` are the three
calls of the seed script, which screenings run in between. `steady`, `why` and `indexed` are
history variables. Scores and the threshold are abstracted to whether an identifier matches.

### CircuitBreaker and Orchestrator

In `CircuitBreaker` each Redis call is a step and may fail before or after its effect:
`Incr`, `Expire`, `OpenCircuit` for increment_trigger_count, `CloseSet` and `CloseDelete`
for close_circuit, of which reset_all is a sequence. Keys carry their time to live; `Tick`
moves the clock for all. In `Orchestrator` an evaluation suspends at the LLM (`AskLLM`),
the store (`StoreReport`) and the writer (`Trigger`, which is a step of `CircuitBreaker`);
`HasPermit` is the semaphore of its batch, `BatchReturn` the gather, which puts a FLAG of
its own in the place of an evaluation that raised. Each batch runs in a process of its own,
which `Crash` ends. Scores count hundredths of percents; the share of the anomalies in them
is rounded down to a percent, all else is exact. The LLM is external: any action, none, or
an answer that cannot be used. Publishing to Kafka is left out.

### IncidentStore

All methods run in threads on one psycopg2 connection, so on one transaction. A method is
`Execute` (as `Save`, `Log` or `Review`) and then `Commit`, and others come in between.
`disk` is what is committed, `view` what the connection sees. `Fail` is a statement that
fails: the transaction is aborted, the statements of others in it are undone, and every
later statement raises until the commit of a thread that is in between ends it; if there is
none, nothing does. `StoreInit`, `StoreNext` and `StoreSpec` are its behaviour.
`LoseConnection` may come after the server took the commit; `Restart` is a new process.
What a second save of a report rewrites (every column but the review's) is not modelled.

## Runs

| run | constants | question | outcome |
|---|---|---|---|
| `matching` | 4 orders, prices 1-2, quantities 1-2, channel 2 | all properties of the engine | holds, 236 000 states |
| `price_priority` | as `matching` | does a trade take the best resting price? | violated |
| `disruptor` | 2 producers, 2 slots, 4 calls, batches of 2, channel of 1 | claims and slots with and without a lap, is every event handled, do Next and Stop return? | holds, 174 000 states |
| `ledger` | 2 accounts, words of 4 bits, negative and wrapping amounts, 4 entries | journal against balances, overdrafts | holds, 1 209 000 states |
| `ledger_opening` | as `ledger` | do the entries add up to the balance? | violated |
| `consumer` | 2 replicas, 2 messages, 2 starts, 2 assignments taken back, batches of 2 | what becomes of every message, how often is it handed over, does the loop go on? | holds, 1 190 000 states |
| `pipeline` | an event in a batch, one posted directly, 13 anomalies, 4 decisions, any context | do answers agree with effects, is a match that was found blocked, do the routers agree? | holds, 6 160 000 states |
| `sanctions_block` | as `pipeline` | "sanctions match always blocks" | violated |
| `detectors` | 7 events of 2 accounts, sequences of 5, stamps from 0 to 2 | histories, findings | holds, 579 000 states |
| `screening` | 4 calls, 2 users, 1 permit, 1 reload, 1 clear_cache | who is let through, who is blocked, does everything return? | holds, 1 543 000 states |
| `orchestrator` | 3 evaluations in 2 batches, 1 symbol, threshold 2, 1 close, 1 fault | effects, circuit breaker, does a batch return? | holds, 430 000 states |
| `store` | 3 threads, 1 report, 1 log entry, 2 faults, 1 loss | is what returned stored? | holds, 182 000 states |

*Bounds of the engine's runs.* Four orders over two prices suffice for a book with two
orders on one level, a partial fill, a level emptied and used again, a stale best price and
a cancellation between any two calls; a channel of two is full in many states. Two prices
tell "better" from "worse"; the sentinel -1 as a price and quantities that are not positive
are in no run, but the theorems hold for any integers. Two producers and four calls on two
slots fail every compare-and-swap, wrap the buffer twice, and let a producer be lapped while
it holds a number; three consecutive slots of a batch are more than there are, so the
consumer skips slots and overtakes the producers, and they overwrite what it has gathered
but not read. Two accounts and four entries contain two transfers in either
direction or to oneself, and two deposits of 5 wrap a word of four bits; -8 is its own
negation.

*Bounds of the guardrail's runs.* Two messages let a batch hold an event before or behind a
malformed one; two starts are two replicas, or one that comes back after a stop or a crash,
and two assignments taken back let a message be handed over three times. Two events are all
that process_batch and the direct route can tell apart, since events share nothing in the
pipeline; the anomalies lie on both sides of every threshold of the router. Five events are
two more than the longest history of `detectors`, and steps of 0 and 2 seconds stay in or
leave its windows of 2 and 3; one of the seven is a fill of nothing, one a cancellation
stamped before its submission, one stamped a second later. In `screening` one user is
screened twice at a time and checked by the agent while the collection is dropped, created
and filled, the other has no identifiers, and one permit makes the bulk calls wait. Three
evaluations exceed the threshold of two, two of them share a process and a permit, and one
meets them in Redis; one fault and one close suffice for each pair of calls to be cut. In
`store` three threads can be between their statements and their commits at a time, with the
symmetry of threads, which no property tells apart; the two action properties and the
invariant are safety properties, for which that is sound.

*Deadlock* is checked everywhere except in `disruptor`, where a lapped producer really
stops: it spins for ever. `Finished`, `DisruptorQuiet`, `Idle`, `Stopped`, `Quiet`, `Over`
and `Stuck` let a run stay where its bounds are reached, or where the system waits for
somebody outside of it, and only there; `Stuck` is a connection on which nothing works
until a restart.

*Fairness* is weak everywhere. `FairSpec`: the submitting goroutine keeps running, and
somebody reads the trade channel; without the reader SubmitOrder may block for ever.
`RingFairSpec`: each producer that is in a call keeps running, as Go's scheduler guarantees;
calling Next again is never forced. `DisruptorRunning` adds the consumer goroutine,
`DisruptorFairSpec` the reader of the handler's channel. In the guardrail the event loop
resumes a coroutine whose await came back, and the awaits come back: the LLM client has a
timeout, and the clients of Redis, Postgres and Qdrant answer or raise. So `EventConsumer`
assumes it of consume_loop and `Orchestrator` of every evaluation and gather; `Screening`
assumes only that the event loop resumes somebody as long as somebody can go on. Stopping,
crashing, the clock, operators, the seed script and committing are never forced.

*Expected violations.* `price_priority`: a fill sets the best price to -1 and nothing looks
for the next one, so resting orders at better prices are skipped, while the README promises
price-time priority. `sanctions_block`: a comment of the pipeline says that a sanctions
match always blocks, but when the report of such a block raises, process_event answers
ALLOW. `ledger_opening`: `ledger_test.go:97-107` expects three entries of an account that
was created with 1000, paid into and drawn upon, but CreateAccount journals nothing, so
there are two, and the entries of an account do not add up to its balance.

*Other departures from what one might expect,* which the models contain and which the
properties are stated around. A lapped producer spins for ever (`NextReturnsUnlessLapped`
excludes it). The batch processor delivers slots 1, 3, 6, ... ahead of where it starts, and
blocks, with Stop, in a handler that nobody reads. The ledger accepts negative amounts
(`Solvent` excludes them), and an account's opening balance is not journalled, so
`JournalExplainsBalances` starts from it. An event the handler raises on is not tried again.
A negative screening is kept for ever. `PipelineRouter` disagrees with itself about an event
with a flag of high risk and a confidence below 0.3: it is high risk (`router.py:62-70`) and
allowed without review (`router.py:139-141`). A cancellation stamped before its submission
counts as one within a second. A spoofing or VWAP finding can only recommend a block, as
`FindingsAreJustified` records.

*Where the documents disagree with the code, without a run.* A high confidence of fraud is
to block (`docs/agents/agent3_prompts.md:61-70, 107-111`), and a score above 0.6 too
(`prompts.py:46`); the rules that stand in for the LLM know neither, they block at 0.8
(`agent.py:151`), which no score reaches without a sanctions match, because of the weights
(`ScoreStaysInRange` of `OrchestratorProofs`). Velocity is to be counted over the last
second, five and sixty (`docs/agents/agent1_design.md:38, 66-75`); the code has one window
and divides by the time since its oldest event (`velocity_check.py:43-46`), so one old
event dilutes a burst. Both are wishes of documents that no code serves, and are not stated
as properties.

## Proofs

All theorems hold for every value of the constants under the assumptions named in the
modules, with no bound on orders, calls, threads, events, faults or time beyond the
constants that name them. Each proof module has one lemma per action for its inductive
invariant, and derives the properties from it.

*MatchingEngine* (`Invariance`). `IndInv` adds to the properties what makes them inductive:
an order that was not submitted is blank (`FreshOrders`); while a trade is in progress the
maker is still the head of the queue of its own price, both orders can spare the quantity,
and neither is cancelled (`CallInProgress`). The last part is what lets `Fill` pop the head
without looking at it. `BookComplete` says where each order is, so a pop or a deleted level
loses nothing. The safety properties follow by definition; `CancelIsFinal` and
`EngineImplementsExchange` are proved from the invariant step by step: `Submit` maps to
`Enter`, `SendTrade` to `Execute`, a successful `CancelOrder` to `Withdraw`, all else to a
stutter.

*RingBuffer* (`RingInvariance`). Numbers owned or published are behind the cursor
(`ClaimsBehindCursor`), so a successful compare-and-swap gives out a new one. While nobody
is lapped (`NotLapped`: whenever a number was claimed, the one a lap behind was published)
the numbers owned are within a lap of the cursor, and the slot of a number holds it from the
end of Next on (`OwnersHaveTheirSlots`); two numbers closer than the size have different
slots, so what is published stays readable until its slot is claimed again, however often
the buffer wraps (`PublishedEventsAreReadable`).

*Disruptor* (`ConsumerOnlyReads`, `DisruptorInvariance`, `HandlerSeesWrittenEvents`). Every
step of the composition is a step of the producers or leaves their variables alone, so it
implements `RingSpec` and inherits the theorems about it. `DisruptorInd` adds that a slot
holds nothing or a number of its own that has been written (`SlotsHoldTheirNumbers`), and
that the handler was given only such numbers: the consumer looks at no sequence, yet never
invents an event. That is as much as holds of a step, for a run can show it events early,
late or twice; and it leans on an event being one word.

*Ledger* (`LedgerInvariance`). Accounts that do not exist have no entries, so creation
contradicts none; then every operation appends, for each account whose balance it changes,
an entry that carries the new balance (`EntriesInd`). `MoneyInd` is about sums.
`JournalAddsUp`: an account begins with its opening balance, an entry adds its effect to
the effects on one account, and wrapping before or after an addition gives the same. For
`NoOverdraft` it is not enough that no account is overdrawn, since a credit might still
wrap: the balances *together* must not exceed what was paid in (`MoneyIsConserved`), and
the entries of transfers must come in pairs (`TransfersInPairs`), because only the second
of a pair carries the amount that `NoNegativeAmounts` speaks of. There are finitely many
accounts at any time, which is what gives the balances a sum.

*Sums.* The library defines a sum over a set by folding over it. `Sums` proves from that
definition that the fold exists, that any element can be taken out first, and how sums
follow a new element, a changed value and a bound. The inductions over finite sets are
carried out as arguments about a smallest counterexample (`LeastNatural`, `SmallestSubset`),
since the library's induction theorems cannot be instantiated.

*EventConsumer* (`ConsumerInvariance`). `ConsumerInd` accounts for every event below the
committed offset and below the position of every client that believes it has the partition,
also one that was given up: a commit then only moves the first to the second. `Flags` ties
the owner, the clients and the loops together. `Attempts` says that what was handed over is
either known to the group, by the position of the owner or by the committed offset, or was
counted as lost to it, from which `RedeliveryHasACause` follows. `CommittedIsAccounted` adds
two facts that are inductive by themselves: crashes bound what they cut, and what a batch
dropped lies closely behind a malformed message.

*RiskPipeline* (`PipelineInvariance`). `Progress` says what an event has and has not had
from where its coroutine is; in particular a report precedes the breaker, a match that was
found and decided upon has a BLOCK, and an event that the pipeline takes for fraud has no
context. The properties follow by cases of the answer and of the route. Nothing is assumed
about the agents but what `PipelineAssumption` says: confidences are percentages, and the
orchestrator's decisions are not the pipeline's own error answer. `RoutersAreConsistent`
needs the types only; it is about the thresholds.

*Detectors* (`DetectorsInvariance`). What a window holds is said by position: an increasing
function lists the positions of the history whose events it keeps, all that are young
enough (`ListsAll`) or the last so many (`ListsLast`). Time does not go back
(`TimeAdvances`), so the events that grow too old are the first ones, and trimming drops a
prefix; appending extends the function by the new position. `LifecyclesFollowHistory` ties
an order to the stamp of its last submission and the fills since. `ResultsAreJustified` and
`ResultsAreWellFormed` speak of the results of the last step, and follow from the invariant
before that step and the windows after it. They hold for any prices, quantities and
timestamps, negative ones and nothing included.

*Orchestrator* (`CountersExpire`, `OpensOnTriggers`, `ResultsAgreeWithEffects`).
`BreakerInd` is proved of each action of the writer, the operator and the clock alone, for
any number of symbols and callers: an unexpiring counter has a caller before its EXPIRE, or
a failure; without failures and races the counter never exceeds what was counted since the
closing (`OpenOK`), except while that counter is about to be deleted. `OrchestratorInd`
adds `EvaluationOK`, what an evaluation has done from where it is, and `ResultOK`, which
keeps a returned batch as it was. `ScoreStaysInRange` bounds the score of any request: the
share of the anomalies is an average (`AverageOfConfidences`, by `Sums`), the weights add
up to one, and without a sanctions match the rest stays below 8000, the threshold of a
BLOCK. `ScoresInd` carries that to every evaluation. The only assumption on a request,
`RequestsAssumption`, is that confidences are between 0 and 1, as the data class of a
result demands, and that there are finitely many flags.

*Screening* (`ClearsAreExplained`, `MatchesAreIndexed`). `CallOK` says of a call that is
searching: what it has gone past without a failure is not in the part of the collection
that has been there all along. A negative result therefore has a cause, and the cache
inherits it (`Earned`).

*IncidentStore* (`StoreInvariance`). The connection sees at least what is committed; a
thread between its two calls finds its row in the transaction, or committed by another
thread, or is one of the `undone`. A failure undoes at most the other threads, which bounds
how many return for nothing (`AcknowledgedStored`). `HistoryKept` and `PoisonStays` follow
step by step.

*Only model-checked.* Liveness, which is beyond the prover: `SubmitReturns`,
`NextReturnsUnlessLapped`, `EventuallyHandled`, `StopReturns`, `LoopGoesOnOrEnds`,
`BatchesReturn`, `GathersReturn`. Every other property of the passing runs is proved.

## Not modelled

*Engine.* Callers on several goroutines of one order book: between the calls of BestAsk of
one iteration another goroutine's CancelOrder can turn the level into nil, and fills change
levels without the book's lock. The account state and the circuit breaker in Redis, the
WebSocket gateway, the rate limiter, the settlement engine and the red-black tree: nothing
in the core calls them (main.go calls constructors with signatures the packages do not
have); the hazards of the first four are listed in PROJECT.json. The sequencer and the wait
strategies, which nothing uses. gRPC stubs, authentication, the Kafka publisher, metrics,
wiring and the administration tool: constants, stateless checks, or calls handed to a
library.

*Guardrail.* The user profiles and their cache, the news ingestion, the loading and search
of compliance documents, the Qdrant client: retrievals whose results reach
only the scorer and the text of the LLM's prompt; the models take any profile out of a set
and any answer. The snapshots of the order book that the
spoofing detector declares and never fills, and the embedding drift, which the agent does
not run. Reading routes of the service, metrics, tracing, prompts, settings and data
classes. The reader of the circuit breakers the guardrail writes: the engine reads other
keys.

## Plan

What would come next, in this order: the engine's own circuit breaker and account state in
Redis, with several processes that read, modify and write; the WebSocket gateway's channels
and Stop; a variant of `MatchingEngine` with callers on several goroutines; the profile
cache; the rate limiter; the settlement engine; the red-black tree against a set.

Of the proofs: the safety part behind `EventuallyHandled`, that a slot the stride has passed
holds nothing the handler has yet to see; and that the batches of `Orchestrator` never hold
more permits than there are.
