# A TLA+ model of ethindex

ethindex follows EVM chains over JSON-RPC, detects payments to watched
addresses and reports the life cycle of each one (pending, mined, confirmed,
failed, dropped, replaced, reorged) to a database and to streaming clients.
This directory holds TLA+ models of the parts that decide *which payments are
seen and what is said about them*, TLC configurations that check them on small
instances, and TLAPS proofs for every instance about the tracker, its tombstone
memory, the indexer, the prefetch pipeline, the block scan, the pending watcher
and the event stream.

Run from this directory: `tlc -workers 2 -config MCReorgs.cfg MCIndexer`,
`tlapm IndexerProofs.tla`. `PROJECT.json` lists the runs, the source lines each
definition models, the hazards the properties are aimed at, and for every
checked property a mutant of the model that breaks it.

## 1. The system

| component | state | operations | talks to |
|---|---|---|---|
| transaction tracker (`indexer/tracker.go`) | `txs`, `byNonce`, tombstones | `OnPending`, `OnMined`, `OnNonceUsed`, `OnHead`, `Confirm`, `Demote`, `OnReorg`, `OnDropStale`, `Import`/`ExportTx` | called from the dispatch goroutine only; returns events |
| tombstone memory (`tracker.go`, `bury`) | map hash -> (ending, seq), FIFO, seq counter | `bury` (evict, compact), deletion by `OnMined` | tracker |
| chain state (`indexer/chain.go`) | header ring, tip | `record`, `classify`, `resetTip`, `snapshot`; `findAncestor` walks it | indexer |
| indexer dispatch (`indexer/indexer.go`) | `lastProcessed`, `restoredPending`, the cached finality number, session channels | `onHead`, `catchUpScan`, `processRange`, `handleReorg`, `updateLifecycles`, `restore`, `shutdown` | node, tracker, chain state, storage, sink |
| prefetch pipeline (`indexer.go`, `prefetchBlocks`, `fetchSpan`) | job and slot channels, one result slot per block | feeder, workers, the ordered loops of `catchUpScan` and `processRange` | node, dispatch |
| block scan (`indexer/blocks.go`) | `receiptStatuses` of the block, `blockReceiptsUnsupported` | `scanBlock`, `processBlock`, `emitAll`, `persistEvents`, `saveState` | node, tracker, storage, hub |
| pending watcher (`indexer/pending.go`) | subscription and work channels, worker pool, drop counter, snapshot flag | subscription, mempool snapshot, matching | node, indexer |
| matcher (`indexer/matcher.go`) | watched set | decoding of calls and logs | pure |
| node client (`indexer/client.go`) | connection | JSON-RPC calls, batches | node |
| storage (`storage/*.go`) | `transactions`, `indexer_state` rows | `SaveTransaction`, `UpdateTransactionStatus`, `LoadLegsUpdatedSince`, ... | SQLite (a connection pool; one writer at a time) |
| event hub (`event/hub.go`) | subscribers' channels | `Subscribe`, `Emit`, cancel | indexers, API |
| events API (`api/api.go`) | per request: subscription, keyset cursor | `handleEvents`, `backfill` | hub, storage, client |
| config, HD wallets, metrics, entry point | loaded once, or counters | - | - |

**What is hard.** Each indexer is sequential (one dispatch goroutine), but
almost everything around it moves between two of its requests: the node's chain
grows and reorgs, also to a lower head; workers prefetch blocks from whatever
chain the node shows when they ask; heads queue up behind a slow handler; a
request can fail at any point and end the session in the middle of a catch-up;
the process can crash and restart with or without `-resume`; mempool
notifications arrive late, repeatedly or never. On the consumer's side several
indexers emit and save concurrently with clients that connect, lag, are cut off
and resume from a time stamp.

**What makes each part correct.**

* tracker: its indexes agree with its map; an ending is not undone by a late
  notification, but is by a block; nothing counts as mined on a guess; every
  status change is a legal, announced move.
* tombstones: bounded, and forgets the earliest ending first although FIFO
  entries are cleaned up lazily.
* indexer: once it stands at the node's head, every payment on the canonical
  chain is recorded in the block that holds it; no height is skipped;
  `confirmed` means what it says; whatever is followed is stored, so that a
  crash loses nothing; restored transactions are looked up.
* prefetch: never stalls, shows nothing of its concurrency, saves nothing that
  is incomplete, leaves no goroutine behind.
* block scan: finds the same transfers whichever requests fail, reports no
  log of another block, and the block's own outcomes as far as receipts vouch for
  them.
* pending watcher: never blocks on the dispatch goroutine, loses nothing
  uncounted, ends with its session.
* stream: a client that reconnects ends with the current status of every leg.

## 2. Modules

| module | models | kind |
|---|---|---|
| `TerminalMemory` | what the tracker remembers of endings, seen from outside | operators |
| `TrackerOps` | the tracker's methods, each returning the new state and the events | operators |
| `Tracker` | the tracker under every caller, in any order | state machine |
| `Lifecycle` | the status table of the project's README as a state machine | abstract specification of `Tracker` |
| `Filters` | the elements of a sequence that are in a set, in order | operators |
| `Tombstones` | `bury` with its sequence numbers, lazy eviction and compaction | state machine |
| `OldestFirst` | a queue of the last `Cap` distinct endings | abstract specification of `Tombstones` |
| `ChainState` | the header ring, `classify`, the ancestor walk | operators |
| `Indexer` | one indexer: dispatch goroutine, tracker, ring, rows, against a node that grows, reorgs and finalizes, sessions, processes and a database that fail | composition of `TrackerOps` and `ChainState` |
| `Prefetch` | `prefetchBlocks`, `fetchSpan` and the loops that consume them: feeder, workers, consumer, two bounded channels | state machine |
| `OrderedScan` | an in-order scan that saves its position only when complete | abstract specification of `Prefetch` |
| `Matching` | the matcher and the topic filters | operators |
| `BlockScan` | the requests behind the scan of one block, with every fallback, against a node that switches between rival blocks | state machine on `Matching` |
| `PendingWatch` | the subscription loop, lookup workers and snapshot of the pending watcher within its sessions | state machine |
| `EventStream` | several indexers' `emitAll`, the hub, `handleEvents` with catch-up, one client | state machine |
| `MCTracker`, `MCIndexer`, `MCPrefetch`, `MCBlockScan`, `MCPendingWatch`, `MCEventStream` | instances for TLC | - |
| `QueueLemmas` | facts about sets of numbers, queues of distinct elements, induction stated about sets, folds over finite sets | lemmas |
| `TrackerOpsProofs` | what each tracker method preserves | lemmas |
| `TrackerProofs` | theorems about `Tracker` and `Tombstones`, the refinements of `Lifecycle`, `OldestFirst` and `TerminalMemory` included | proofs |
| `PrefetchProofs` | theorems about `Prefetch`, the refinement of `OrderedScan` included | proofs |
| `BlockScanProofs`, `PendingWatchProofs`, `EventStreamProofs`, `IndexerProofs` | theorems about `BlockScan` (with lemmas about `Matching`), `PendingWatch`, `EventStream`, `Indexer` | proofs |

Operators named `...Not`, `...Late`, `...Skip` and so on and commented
`mutant` are not part of a model: each is a plausible bug in the definition that
follows, used to show that a property would notice it.

### TrackerOps and Tracker

`t.txs` is the map of `trackedTx` (an absent entry is `NoTx`), `t.byNonce`
counts occurrences of a hash in a slot's list, `t.tombstones` is the memory of
endings. The legs of a transaction are the set of kinds it has: `native`,
`calldata` (a token transfer guessed from the call), `log` (a Transfer log);
amounts and addresses are left out. The events of one call are one element per
transaction that has a leg. The pending timeout is the flag `stale`. Which older
ending a burial pushes out is left open (`Evictions`); `Tombstones` keeps the
order and is shown to make one of the allowed choices.

`Tracker` has one action per call site: `Pending` (runSession), `Mined` and
`NonceUsed` (processBlock, promotePendingTx), `Verified`/`Vanished`/`Moved`
(the three outcomes of a receipt check in updateLifecycles), `Recheck`
(recheckPendingTxs), `Reorg` (handleReorg), `Expire` (time), `Restart`
(Export/Import). The node's answers are arbitrary here, so what holds of
`Tracker` holds whatever the node says.

`Tombstones` keeps the map and the FIFO of `bury`; compaction is `Only`, the
selection of the entries that still match.

### Indexer

A block hash is the chain that ends in it, so its number, parent and contents
need no separate maps and two blocks differ as soon as their histories do. A
handler is cut into one step for every request to the node; `work` says where it
is, with the code's local variables:

| `work.pc` | code |
|---|---|
| `extend`, `extended` | `onHead`, headExtend: scan, then `lastProcessed` and `saveState` |
| `catchup`, `fill`, `drain` | `catchUpScan`: the head, the blocks below in descending order, heads drained in between (`drainLive`, `processGap`) |
| `walk` | `findAncestor`, one chunk of headers per step |
| `rescan` | `processRange` of `handleReorg` |
| `life` | `updateLifecycles`: confirmation candidates against fresh receipts |
| `recheck`, `lookup` | `recheckPendingTxs`: receipts, then the pool |

`views` is the set of chains the node has shown since prefetching began: a
prefetched block may come from any of them. A block outside the node's chain may
be scanned whole, without its logs (they are queried by number) or not at all
(its receipts are gone); a block of the chain loses its logs when they were read
before a reorg (`ScanModes`, `ReadTooEarly`; `BlockScan` has the requests behind
this). The gap below a head drained in a catch-up is fetched in batches of its
own, so its blocks come from any chain shown since the drain began (`Shown`). A
pending transaction the scan did not match is closed by its receipt, or stays
pending when that cannot be had (`MayStayOpen`). A head is announced or coalesced
with a later one, also a reorg's (`Announce`, `Coalesce`). `Fail` ends the session
during any request, `Crash` ends the process at
any step, `Stop` when it is cancelled (it saves first), `restore` is the next
process. `scanned`, `base` and `heard` are history variables used by the
properties only.

`final` is the node's finalized number and `fin` the indexer's cached one:
`finalizedNumber` returns anything between the two, which covers the TTL and a
failed refresh. `ConfirmationsCut`, `RecheckCut` and `LookupCut` are a batch with
an error for one of its transactions: those before it have been dealt with, the
session ends. While `broken` the database refuses writes, which the code logs
and passes over (`Install`, `saveState`); `missed` are the transactions whose
latest write was refused. `Storable` is the rows' primary key.

### Prefetch

A slot is named by its place in scan order. `Emit` puts it into `ordered` and
then into the feeder's span, `Flush` hands the span to `jobs`, both bounded as
the channels are. A worker takes a span; its batch request brings some of the
blocks, or fails every slot; the rest are fetched one by one. The consumer takes
slots in order, waits for each, and in a catch-up fetches range logs in chunks
that are halved when the provider rejects them. `cancelled` is the session's
context, `stopped` the scan's. What `Prefetch` shows (in order, each once, saved
only when complete) is what `Indexer` assumes of `FillBlock` and `RescanBlock`.

### Matching and BlockScan

A transaction is its signer, recipient, value and decoded call; a log its token,
number of topics, parties and value. Rival blocks compete for one number; the
node switches between them (`Flip`) between any two requests. `path` says how
the body is addressed: by hash at the tip, by number, or in a catch-up, where
the logs of a range may have been read before. `large` is the client-filter mode
of a huge watched set. `rcpt`, `chunk` and `fetched` name the block whose
receipts or logs they hold. Requests made once fail freely and take the fallback;
requests under `withRetry` answer or end the scan (`GiveUp`), and a node that
lags for longer than the retries is the switch `LagOutlasts`. `left` is a history
variable, the blocks the node has moved away from; `MayReturn` lets it come back
to one. `OwnTransfersOnce` says of logs that they are the scanned block's own,
always, since their block hash is compared. A single receipt's block is not
compared (`blocks.go:164-189`), so of outcomes, and of the legs of a call that
depend on them, it speaks where they are `Vouched`: the scan has the block's own
receipts, or no rival shown holds the transaction with another outcome.

The order of logs and legs is left out: a filter's answers are a set of logs,
each with the query it answers (`Filtered`), and a transaction's legs are a set,
in which the query that found a leg tells a leg reported twice from one reported
once.

### PendingWatch

One process with up to `MaxSessions` sessions. `sub` is the subscription's
channel, `work` the queue to the lookup workers, `out` is `pendingMatches`, which
the dispatch goroutine empties when it likes, or never. `loader` is the snapshot
goroutine. A worker's batch is a set of hashes: they are numbered as they
arrive and leave the queue in that order, which the worker keeps (`Min`). What the
node offers (full transactions, hashes, a snapshot) is chosen anew by each
session, and a session cancelled while it subscribes may have spent the snapshot
flag. `heard`, `content`, `settled` and `lost` are history variables. The
goroutines of an ended session share nothing with the next one but the snapshot
flag, so a session starts when they are gone.

### EventStream

A leg is a number, its status the count of its transitions. `Transition`,
`Emit`, `Stamp`, `Commit` are `emitAll`: all events of a batch are broadcast, then
the rows are written one transaction at a time, each write taking its stamp
before it commits (`UpdateTransactionStatus` even before it has the write lock).
`Broadcast` is `Hub.Emit` (a subscriber without room is dropped). `Connect`,
`LoadPage`, `WriteRow`, `WriteLive`, `Dropped`, `Disconnect` are `handleEvents`
with its keyset-paged `backfill`. The clock is a counter that every stamp
advances. `page` is the set of rows still to be written, in the query's order;
a page is the first rows found, at most its limit of them (`LoadPage`).
`only` is the set of indexers the client asked for (`?indexer=`).

## 3. Runs

| run | checks | shows |
|---|---|---|
| `tracker` | `TypeOK`, `NonceIndexExact`, `TrackedOrBuried`, `MinedIsFounded`, `LifecycleSpec`, `FirstSeenBlockKept` | the tracker under any order of calls and any answers of the node; it implements `Lifecycle` |
| `tombstones` | `FifoBounded`, `ForgetsOldest`, `ImplementsMemory` | the lazily cleaned FIFO implements `OldestFirst` and the memory `TrackerOps` uses |
| `reorgs` | `PaymentsRecorded`, `ReachesHead`, `RingLinked` | two reorgs in one session, each announced with one or two replacement blocks, also to a lower head, with heads queued behind the handler |
| `catch_up` | `NoSkippedHeight`, `PaymentsRecorded`, `DepthReached`, `TrackedIsStored`, `RestoredResolved` | unannounced heads, a failing session, a crash or stop with `-resume`, a database that refuses writes for a while, no reorg |
| `storm` | `TrackedIsStored`, `KnownSlotsReplaced` | a reorg at any point (lower head, returning blocks), a tip start after a crash, an age-capped catch-up, timeouts, all together |
| `finality` | `TypeOK`, `DepthReached`, `FinalKept` | confirmation by tag with a stale cache, a reorg of what is not final in the middle of a scan, a restart; a payment by its log alone, which a scan may miss and then close by its receipt or not |
| `live` | `PaymentsConfirmed`, `RestoredEventually` | progress of two payments in one block after a failed session, which may cut their receipt batch in two, and a crash |
| `prefetch` | `TypeOK`, `NoStall`, `LogsCoverBlock`, `ScansInOrder`, `ScanEnds` | the pipeline implements `OrderedScan`, never stalls, ends with all its goroutines |
| `scan` | `TypeOK`, `FoundWhole`, `OwnTransfersOnce` | one block along every fallback while the node switches blocks |
| `pending` | `TypeOK`, `EveryHashAccounted`, `NothingSlips`, `Drained`, `SessionEnds` | the pending watcher with full channels, failing lookups and ending sessions |
| `stream` | `TypeOK`, `NeverDropped`, `EventuallyInformed` | two indexers and a client that filters, disconnects, lags and pages; writes that commit after their stamp |
| `hidden_reorg` | `PaymentsRecorded` (violated) | section 4 |

What three of these properties do not say: `FoundWhole`, with `MayReturn` off,
speaks of a body the node has shown throughout its scan, so it is about fallbacks;
the node's switching is what `OwnTransfersOnce` is about. `NoSkippedHeight` would
not notice a `saveState` without its guard (`blocks.go:493`), because `Resume` is the
same for every process of a model. `NeverDropped` passes with `Overlap`, `Cut` and
`Lag` off: the code has these windows (section 4), the run shows there are no
others.

### Bounds

* `MCTracker`: two transactions on one slot, two rival blocks at height 1 and one
  at height 2, `Depth` 2, `Cap` 1. Replacement needs two transactions, a move to
  another block two blocks, eviction one ending more than `Cap`. The state space
  is finite without further bounds, and deadlock is checked.
* `MCTombstones`: three hashes, `Cap` 2, `MaxSeq` 7 burials: enough for the FIFO
  (at most 4 entries) to fill with superseded entries and be compacted twice.
* `MCIndexer`: a payment `p` (a token transfer) and an unrelated `q` with the
  same nonce, three block bodies, `Depth` 2, a ring of 4 headers read in chunks of
  2. `Height` 4 or 5 is above the ring's floor and leaves room for a payment, its
  reorg and its confirmation. `Reorgs`, `Fails`, `Crashes`, `Expiries`, `Gossips`
  and `Silent` bound how often the environment does each, `Queue` how many heads
  wait. With `Silent` above 0 a reorg's head may be coalesced, too (in `storm` and
  `hidden_reorg`; `reorgs` and `finality` have it at 0). `Calm` is the chain length
  from which outages end (used by `live` only; 9 is never reached).
  `Finals` bounds the advances of finality, `Outages` the times the database
  refuses writes; both are 0 where a run is not about them. `live` follows two
  payments in one block (`Pair`), so that a receipt batch has two elements.
* `MCPrefetch`: five blocks; two workers with spans of one, one worker with spans
  of three (a full span and a shorter last one, and a slot buffer that does not
  hold the range), one worker with spans of one. Chunks of four, halved to two,
  then none (`FirstChunk` 4, `MinChunk` 2 stand for 500 or 100, and 8).
  `Ages` is how much of the range is too old.
* `MCBlockScan`: two rival blocks that share a transaction, which reverts in one
  of them, and an empty one; coins, token calls, a swap with a transfer between
  two watched addresses, an NFT transfer, zero values and strangers. `MaxFlips` 2:
  two switches of the node, at any points, so that requests meet three blocks.
* `MCPendingWatch`: four transactions (one of no interest), one worker, channels
  of one place, bursts of two, two sessions: every channel fills, and hashes are
  dropped.
* `MCEventStream`: a transaction with two legs and one of another indexer, pages
  of one row, a small buffer, up to `MaxEvents` transitions of each leg and
  `MaxDrops` lost connections: pages end inside a group of equal stamps and the
  buffer overflows.

`CHECK_DEADLOCK FALSE` is set wherever a bound ends the exploration.

### Switches of the environment

Some properties hold only when certain things do not coincide. The switches say
which, so that a passing run states its premise, and the configurations with the
switch on show that the premise is needed:

| switch | meaning when on | needed off for | shown by |
|---|---|---|---|
| `MidScan` | a reorg may strike while a scan is prefetching | `PaymentsRecorded`, `RingLinked`, `ReachesHead` | `VMixedRescan.cfg` |
| `MayReturn` | orphaned blocks may become canonical again | `PaymentsRecorded` | `VReturn.cfg` |
| `MayReturn` of `BlockScan` | the node may come back, during one scan, to a block it has left | `FoundWhole` | `VFlipBack.cfg` |
| `MayLower` | a reorg may lead to a lower head | `DepthReached` by depth | `VLowerHead.cfg` |
| `FinalAhead` | finality may decide against blocks announced or prefetched and still to be handled | `FinalKept` | `VStaleFinal.cfg` |
| `LagOutlasts` | a node lags for longer than `withRetry` waits | `FoundWhole` | `VLag.cfg` |
| `Overlap` | a client may connect between an emit and its save | `NeverDropped` | `VWindow.cfg` |
| `Cut` | a connection may break between two legs of one save | `NeverDropped` | `VCutLegs.cfg` |
| `Lag` | another indexer may emit or store between a write's stamp and its commit | `NeverDropped` | `VLateCommit.cfg` |

`Resume` and `AgeCap` are configuration (`-resume`, `max_catchup_age`).
`storm` has `MidScan`, `MayLower` and `MayReturn` of `Indexer` on, `finality` has `MidScan` and
`MayLower` on.

### Fairness

* `Indexer`: `WF(Dispatch)`, where `Dispatch` is any handler step, taking a head,
  or reconnecting. The dispatch goroutine loops over its channels and handlers
  run to their end; `Run` reconnects after a backoff of at most 30 s.
  `WF(Extend)`: the chain grows. Outages are not assumed to end by fairness:
  `Fails`, `Crashes` and `Calm` bound them, and the session is up for heads from
  `Calm` on.
* `Prefetch`: `WF` of the feeder, of each worker and of the consumer, one by one:
  each is a goroutine, and every request ends (it has a deadline, `withRetry` a
  fixed number of attempts). Cancellation is not forced.
* `PendingWatch`: `WF` of the subscription loop, of its reaction to a cancelled
  session, of the snapshot and of each worker. None for the dispatch goroutine,
  the subscription or the end of a session.
* `EventStream`: `WF(Serve)`, the loop of `handleEvents`; `WF` of the steps of an
  `emitAll` once started, for each indexer; `WF(Connect)`: the client reconnects,
  as an `EventSource` does. Nothing forces a transition to happen.

## 4. What the code does that its documentation rules out

One listed run expects a violation (`findings` in `PROJECT.json` quotes the text):
`hidden_reorg` (`chain.go:99`). A reorg at or below `lastProcessed` whose
first announced head is two or more above the tip is hidden in the gap; the
replacement block is never scanned. That happens after an outage, and in a live
session whose announcements are coalesced (also with `Fails = 0` in
`VHiddenReorg.cfg`).

Further configurations, not part of the listed runs, reproduce the rest; each
ends in a counterexample. `tlc -config X.cfg MCIndexer`:

| configuration | property | behaviour | what the documentation says |
|---|---|---|---|
| `VInterruptedCatchUp` | `NoSkippedHeight` | a catch-up records its head in the ring before the blocks below; if it fails there and a reorg of the head follows, that header is taken for the common ancestor and `lastProcessed` jumps over blocks never scanned (`indexer.go:925`) | `README.md:430` "a crash redoes the catch-up rather than ever skipping blocks" |
| `VStaleConfirm` | `ConfirmedOnChain` | a payment discovered past the threshold is confirmed from the prefetched block without a fresh receipt, also when that block has left the chain (`tracker.go:308`) | `README.md:251` "Inclusion is re-verified against a fresh receipt just before emitting" |
| `VStaleFinal` | `FinalKept` | the same by tag: an orphaned block was prefetched, the finality number that confirms it was read later | `README.md:229` "the consensus tags are guarantees" |
| `VMixedRescan` | `PaymentsRecorded`, `RingLinked`, `ReachesHead` (one at a time) | `processRange` (`indexer.go:863`) does not check that each prefetched block is the child of the one before; after a second reorg the ring holds blocks of two chains, with a lower head the tip stays behind, and the new head is taken for a duplicate | `README.md:404` "the replacement blocks are rescanned", `indexer.go:903` "rescans the new canonical chain up to the reported head" |
| `VReturn` | `PaymentsRecorded` | a block scanned after its receipts were gone (`blocks.go:338`) is recorded in the ring; when it becomes canonical again it is not rescanned | `blocks.go:336` "if the tx is re-included, scanning its new block will pick it up" |
| `VLowerHead` | `DepthReached` | `confirmationsFor` (`blocks.go:481`) measures from the orphaned tip during a rescan to a lower head | `README.md:251` "Reached the configured confirmation depth" |
| `VBlankRow` | `ConfirmedRowHasBlock` | a pending row whose transaction is found past the threshold gets a status but no block (`blocks.go:632`) | `README.md:258` "each row carrying its transaction's full lifecycle" |
| `VForgottenRow` | `InFlightIsTracked` | a guess that mines without a matching transfer is forgotten without an event (`tracker.go:304`); its row stays pending | `README.md:288` "Everything still in flight" |
| `VUnknownSlot` | `AllReplaced` | a transaction first seen in a block has no known nonce (`tracker.go:270`) and is not reported replaced after a reorg | `README.md:409` "any tracked pending transaction holding the same slot ..." |
| `VLegClash` | `TrackedIsStored` | a pending call with coins and a token transfer has two legs without a log index; both rows get the key -1 and the save is rolled back (`sqlite.go:44`) | `sqlite.go:16` "log_index -1 marks the native-coin leg (a transaction has at most one)" |

`tlc -config X.cfg MCBlockScan`:

| configuration | property | behaviour | what the documentation says |
|---|---|---|---|
| `VStaleChunk` | `AlwaysWhole` | logs of a range read before a reorg serve a block read after it: they are dropped by their block hash and the block counts as scanned (`indexer.go:545`) | `blocks.go:363` "mismatched logs are dropped and the reorg path rescans the replacement block" (the replacement is the block at hand) |
| `VReceipts` | `ReceiptsVerified` | an empty list of receipts has no block hash to compare (`indexer.go:437`): the receipts of an empty rival are taken for the body's | `indexer.go:427` "verifying the receipts belong to the fetched body" |
| `VReceipts` | `OwnOutcome` | a single receipt's block is not compared with the scanned one (`blocks.go:164-189`): a payment that reverted in the block is reported with a rival's success, or the other way round | `blocks.go:292` "native ETH transfers from the block body (receipt-checked)" |
| `VFlipBack` | `FoundWhole` | the node leaves the block during its scan and comes back: a receipt asked for in between was gone (`blocks.go:338`), or logs were another block's and dropped (`blocks.go:401`), and the block counts as scanned | `blocks.go:336` "if the tx is re-included, scanning its new block will pick it up" (its block is the same one) |
| `VLag` | `FoundWhole` | a receipt a lagging node does not have after all retries is taken for a reorg (`blocks.go:334`) and the payment passed over | `blocks.go:335` "The block was likely reorged away" |

`tlc -config X.cfg MCEventStream`:

| configuration | property | behaviour | what the documentation says |
|---|---|---|---|
| `VWindow` | `NeverDropped` | events are broadcast before they are saved (`blocks.go:600`); a client that connects and catches up in between gets them neither way | `api.go:105` "delivered twice at worst, never dropped" |
| `VCutLegs` | `NeverDropped` | legs saved together share `updated_at` (`sqlite.go:297`), the cursor of a connection cut between them | `README.md:334` "every transfer updated since is replayed" |
| `VLateCommit` | `NeverDropped` | `UpdateTransactionStatus` stamps before it has the write lock (`sqlite.go:158`) and can commit behind a cursor that has moved on | `README.md:346` "can duplicate events, never drop them" |

One comment has fallen behind the code without a run: `indexer.go:103` says the
flag "flips on the first eth_getBlockReceipts failure", `noteBlockReceiptsError`
sets it only when the method is missing.

## 5. What is proved

The theorems hold for every value of the constants that satisfies the named
assumptions; TLC evaluates those assumptions in the runs. `theorems` in
`PROJECT.json` has a sentence on each.

| module | theorem | property | premise |
|---|---|---|---|
| `TrackerProofs` | `TypeCorrect`, `IndexAlwaysExact`, `EndingsRevoked`, `MinedAlwaysFounded` | `TypeOK`, `NonceIndexExact`, `TrackedOrBuried`, `MinedIsFounded` | - |
| | `ImplementsLifecycle` | `LifecycleSpec` | - |
| | `FirstSeenBlockStays` | `FirstSeenBlockKept` | - |
| | `MemoryBounded` | `FifoBounded` | - |
| | `MemoryImplemented`, `QueueImplemented` | `ImplementsMemory`, `ForgetsOldest` | - |
| `PrefetchProofs` | `TypeCorrect`, `NeverStalls`, `LogsComplete` | `TypeOK`, `NoStall`, `LogsCoverBlock` | - |
| | `Pipelined` | `ScansInOrder` | - |
| `BlockScanProofs` | `TypeCorrect`, `OwnOnce` | `TypeOK`, `OwnTransfersOnce` | - |
| | `WholeFound` | `FoundWhole` | `~MayReturn`, `~LagOutlasts` |
| `PendingWatchProofs` | `TypeCorrect`, `NothingLostSilently`, `SnapshotComplete` | `TypeOK`, `EveryHashAccounted`, `NothingSlips` | - |
| `EventStreamProofs` | `TypeCorrect` | `TypeOK` | - |
| | `AtLeastOnce` | `NeverDropped` | `~Overlap`, `~Cut`, `~Lag` |
| `IndexerProofs` | `TypeCorrect` | `TypeOK` | - |
| | `FollowedIsStored` | `TrackedIsStored` | `Keyed`: no call has both a coin and a token leg |
| | `UsedSlotsReplaced` | `KnownSlotsReplaced` | - |
| | `RestoredNotLost` | `RestoredResolved` | - |
| | `ConfirmedIsDeep` | `DepthReached` | `TagMode \/ ~MayLower` |
| | `NoHeightSkipped` | `NoSkippedHeight` | `Steady`: no reorgs, no age cap |
| | `FinalStaysFinal` | `FinalKept` | `~FinalAhead` |
| | `RingIsLinked` | `RingLinked` | `~MidScan`, `[]InReach`: no fork below the ring's floor |
| | `HeadReached` | `ReachesHead` | the same |
| | `ForksInReach` | - | a ring longer than the chain: `[]InReach` |

A premise is what the code needs of its environment, and each has a
configuration of section 4 that shows the property violated without it:
`VWindow`, `VCutLegs` and `VLateCommit` for the stream, `VFlipBack` and `VLag`
for `FoundWhole`, `VLegClash` for
`Keyed`, `VLowerHead` for `MayLower`, `VInterruptedCatchUp` for reorgs,
`VStaleFinal` for `FinalAhead`, `VMixedRescan` for `MidScan`. For `InReach` it is
`MCReorgs.cfg` with `RingSize = 2`, which violates `ReachesHead` and `RingLinked`:
the project's README leaves forks below the ring to the receipt check before a
confirmation (`README.md:406`). (With an age cap the code skips old blocks on
purpose.) All premises are met by the passing run that checks the property.
`InReach` is a condition on a walk that ends without a match, on the state it
ends in: `findAncestor` may then say `deep` only of a fork at the floor, and for a
head above it.

**Assumptions.** Tracker: `Hash` finite, `Cap` and `Depth` positive, `TagMode` a
Boolean, `NoBlock` not a block, `SlotOf` total, block numbers positive, leg sets
of the three kinds, never empty in a notification. Chain state: ring and chunk
are positive. Indexer (`IndexerAssumption`): blocks are the chains of bodies up
to `Bound.height`, the initial chain is one of them and valid, no
header is the empty slot's mark, call legs are native or guessed, found legs native or logs; nothing is assumed of the other
bounds, so the theorems speak of chains of any length with any number of
reorgs, failures, crashes and outages. Prefetch: a range with positive numbers,
at least one worker, spans of at least one block. Block scan (`ScanAssumption`):
blocks hold transactions; a log is its transaction's, and its index names it.
Pending watcher and stream:
channels, batches and pages of at least one place, finitely many legs.

### The arguments

*Tracker.* No invariant is inductive alone: the index is exact after `OnMined`
only if the entry it replaces was typed, `MinedIsFounded` is kept only if an
absent entry carries no leg or authority of an earlier life, `TrackedOrBuried`
leans on both. `Good(t)` is the type, `Exact`, `Founded`, `Apart` (the three
invariants as predicates of a state) and `Absent` (the entry of a transaction
that is not followed is blank). A lemma per method (`OnPendingSound`,
`OnMinedSound`, ...) takes `Good` to `Good`; an action is a method, or two. On a
`Good` state each method also makes a legal, announced move of every transaction
(`Legal`, the step of the refinement of `Lifecycle`) and keeps what it knows of
where a transaction was first seen (`KeepsSeen`).

*Tombstones.* `MemoryInv` says that FIFO entries are in the order of their burials
and that every tombstone has its entry. Compaction throws away all but matching
entries and eviction looks for its victim in the FIFO only, so without it the
map could outgrow `Cap`. The refinement mapping of `OldestFirst` is the sequence
of matching entries; lemmas on selection show that burial, eviction and
compaction act on it as on a queue.

*Prefetch.* `IInv` follows one slot: numbered in `ordered`, held by exactly one
of the feeder's span, the job channel and the workers until it is filled, never
lost in between, and carrying its own block to the consumer. `NoStall` follows
because whatever the consumer waits for has a holder that can move: a worker, or
the feeder, which a full channel can only hold up while workers are busy.

*Block scan.* `OInv`: what is asked about is of the body (`Within`); until the logs
are matched a transaction has legs of its call only, and the candidate logs are
one copy each of the logs of one block, whichever that is, so that comparing
hashes is all it takes. `AInv` is the same for outcomes, as far as they are
`Vouched`: receipts that came with the body are its own or list nothing (`Came`), a
status is of the body or came singly from a block the node has shown (`Told`), and
none is known before the receipts were asked for (`Untold`). Shown blocks only add
up, so what is vouched for was vouched for when its status came. `WInv`: a node
that does not come back shows the body at
the end only if it has shown it ever since it was read (`Read`), hence whatever
was read in between is the body's (`Current`): statuses, receipts, and every log
that matters (`Brought`, by the lemma that the filters bring each log that
matches, once). The exception of `FoundWhole`, a chunk read before the body, is
stable once logs are wanted.

*Pending watcher.* A hash is in one place at a time (`HeldOnce`), the pool is
numbered without gaps, and a session asks for the snapshot only once it has
subscribed; with these the accounting is inductive.

*Event stream.* `NeverDropped` speaks of a client that has caught up. It is
carried by what is on its way: the producers' rows and stamps (`Stored`,
`Batches`, `Past`), the channel and the page (`Buffered`, `Paged`), for a client
that streams where each leg's last event is (`Covered`), for one with a cursor
that whatever it does not know lies beyond the cursor (`Reachable`).

*Indexer.* A crash rebuilds the tracker from the rows, so `IInv` has the types of
every handler's locals, `Good(t)`, rows a tracker can start from and rows in
step with the tracker unless listed in `missed`. Handlers call methods in loops
over sets, which are folds; `Handled` is what such a loop keeps, and each loop
body has a lemma `...Within`. Five more invariants rest on `IInv`:

* `LInv`, for restored transactions: `Listed` (a recheck or lookup under way
  covers whatever of the list is still pending) and `Counted` (the budgets).
* `Low`, for confirmations by depth: the ring, the saved headers, the announced
  heads and every handler's numbers are at or below the node's head, so a count
  from the tip is at most the true depth.
* `HInv`, for heights: `Straight` (whatever is held is of the node's chain, and
  no fork is looked for), `Ahead` (announced heads rise above whatever was
  taken, so none is taken for a duplicate and a head one above the tip is its
  child) and `Complete` (how far each handler's range is scanned; the saved
  position too, for a restart with `-resume`).
* `FInv`, for finality: every block still to be handled (announced, taken or
  shown to a scan under way) is the node's chain as far as that is final
  (`Agreed`), so a block a scan confirms by its number alone has a finalized
  block's transactions (`FinalDecides`); mined transactions and rows carry their
  block's number, so a fresh receipt at or below the finality number is in a
  finalized block too (`ReceiptDecides`), also after a restart; confirmed rows
  are of the finalized part, which no reorg changes and finality extends.
* `RInv`, for the ring on a chain that reorgs, while every head is heard:
  `Lined` (the headers up to the tip are ancestors of the tip, so any two of
  them are of one chain), `Standing` (`lastProcessed` is the tip's number) and
  `Arrived` (no waiting head is more than one above the tip, so none leaves a
  gap, and the tip is `Behind` those that wait). A walk keeps `Lined`, so
  one header that matches the node's vouches for all below it (`WalkTrack`); a
  rescan leaves the tip behind and instead has the headers below its number on
  the node's chain (`Rescanning`), until `resetTip` makes the last one the tip.
  The tip's own slot is never overwritten below it, since a rescan starts less
  than a ring under it (`ApartSlots`). What is hard is a head that the ring has
  already and `classify` drops. No announced head is of the chain of the one
  before it (`Queued`: each chain is longer or forks). `Behind` says that the tip
  is the node's head when none waits, and that otherwise the next head is not an
  ancestor of the tip, or some waiting head descends from the tip. A dropped head
  is an ancestor of the tip, so that descendant is still to come, or the tip is
  that head and the next one is not of its chain (`StillBehind`). This holds for
  a chain that comes back to old blocks, too.

### What is only model-checked

* Liveness (`PaymentsConfirmed`, `RestoredEventually`, `ScanEnds`, `Drained`,
  `SessionEnds`, `EventuallyInformed`): out of the proof system's reach.
* `PaymentsRecorded` of `Indexer`. `RingLinked` and `ReachesHead`, on which it
  leans, are theorems; what is left is an invariant that follows each payment of
  the ring's chain through demotion, rescans and receipt checks to its row.

## 6. What is not modelled

* The `safe` tag, which a node may take back: `final` only grows, as `finalized`
  does. With `safe` the models' `FinalKept` is not claimed.
* Goroutines of several indexers in one process, except where they share the hub
  and the database (`EventStream`); the supervisor in `main.go`, flags, signals.
* The length of backoffs, retry delays and tickers: they happen at any time.
* A finality tag the node cannot resolve, which ends the process in its first
  session (`errFinalityTag`): for the properties it is a crash before `Reconnect`.
* Refused writes in `EventStream` (`blocks.go:637`): a row then stays behind what was
  emitted, and a catch-up cannot replay it before the next write. `Indexer` has
  them. That a `SaveTransaction` excludes other writers between its stamp and its
  commit is not used: two stamped writes of `EventStream` may commit in any order.
* Transport: dialing, the two connections, JSON. A request answers, misses
  elements of its batch, or fails.
* Byte-level decoding (call data, topics, signatures), amounts and units, time
  and header encoding in the database, read errors of the database.
* The latest endpoint (a read without a cursor), pings and the best-effort
  confirmation counts of replayed frames.
* Configuration, HD wallets, metrics: values loaded once, pure arithmetic, or
  counters without effect; constants of the models where used.

## 7. Plan

Done: the tracker with its memory and abstract specifications, the indexer by
depth and by finality tag with failing batches and writes, the prefetch pipeline
and its abstract specification, the block scan with the matcher, the pending
watcher, the event stream; theorems for the safety properties and refinements of
all of them but `PaymentsRecorded`.

Open: `PaymentsRecorded`, from `RInv` and, for each header of the ring's chain, the
rows of its block's payments.
