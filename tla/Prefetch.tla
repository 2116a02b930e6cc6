------------------------------- MODULE Prefetch -------------------------------
(***************************************************************************)
(* The fetch pipeline behind a catch-up or a reorg rescan (prefetchBlocks, *)
(* fetchSpan, and the loops of catchUpScan and processRange in             *)
(* internal/indexer/indexer.go): a feeder goroutine, a pool of workers and *)
(* the dispatch goroutine that consumes, joined by two bounded channels    *)
(* and one result slot per block.                                          *)
(*                                                                         *)
(* A slot is named by its place in scan order.  A result carries the       *)
(* block's number and whether its receipts came along.                     *)
(***************************************************************************)
EXTENDS Naturals, Sequences, SequencesExt, FiniteSets, FiniteSetsExt

CONSTANTS
    First, Final,   \* the range to scan
    Shapes,         \* [workers, batch, receipts]: pool, span and bundle settings
    Ages,           \* how much of the range may be older than max_catchup_age
    FirstChunk,     \* initialLogChunk
    MinChunk        \* a smaller log chunk gives way to per-block queries

ASSUME RangeAssumption == First \in Nat /\ Final \in Nat /\ 0 < First /\ First <= Final
ASSUME ShapeAssumption ==
    Shapes \subseteq [workers : Nat \ {0}, batch : Nat \ {0}, receipts : BOOLEAN]
ASSUME AgeAssumption == Ages \subseteq 0..Final
ASSUME ChunkAssumption == FirstChunk \in Nat /\ MinChunk \in Nat \ {0}

VARIABLES
    shape,      \* the configuration of this scan
    desc,       \* newest first
    cutoff,     \* blocks up to here are older than max_catchup_age
    fed,        \* slots handed out
    span,       \* the feeder's pending span
    feeding,    \* the feeder runs; jobs and ordered are open
    ordered,    \* slots in scan order
    jobs,       \* spans no worker has taken
    worker,     \* [left, got]: what a worker has not delivered, and of that
                \* what its batch request brought
    slot,       \* [st, num, rcpt] of each slot
    pc,         \* the consumer: "range", "wait", "block", "ready" or "left"
    cur,        \* the slot it is at
    chunk,      \* [size, lo, hi]: chunkSize, and the range chunkLogs covers
    done,       \* blocks processed: [num, lo, hi], the range of their logs
    outcome,    \* how the scan ended
    cancelled,  \* ctx
    stopped     \* prefetchCtx

feeder == <<fed, span, feeding>>
consumer == <<pc, cur, chunk, done, outcome>>
setup == <<shape, desc, cutoff>>
vars == <<setup, feeder, ordered, jobs, worker, slot, consumer, cancelled, stopped>>

Count == Final + 1 - First
Slot == 1..Count
NumOf(k) == IF desc THEN Final + 1 - k ELSE First + k - 1

Empty == [st |-> "empty", num |-> 0, rcpt |-> FALSE]
Failed == [st |-> "failed", num |-> 0, rcpt |-> FALSE]
Fetched(k, rcpt) == [st |-> "fetched", num |-> NumOf(k), rcpt |-> rcpt]
NoSpan == [left |-> {}, got |-> {}]

Workers == 1..shape.workers

Init ==
    /\ shape \in Shapes /\ desc \in BOOLEAN
    /\ cutoff \in Ages /\ (~desc => cutoff = 0)
    /\ fed = 0 /\ span = {} /\ feeding = TRUE
    /\ ordered = <<>> /\ jobs = <<>>
    /\ worker = [w \in Workers |-> NoSpan]
    /\ slot = [k \in Slot |-> Empty]
    /\ pc = "range" /\ cur = 0
    /\ chunk = [size |-> FirstChunk, lo |-> 0, hi |-> 0]
    /\ done = <<>> /\ outcome = "running"
    /\ cancelled = FALSE /\ stopped = FALSE

-----------------------------------------------------------------------------
(* The feeder *)

\* Capacity of `ordered'.  Mutant: one slot per worker, not per block.
SlotBufferWorkers == shape.workers
SlotBuffer == 2 * shape.workers * shape.batch

\* emit: the slot goes into `ordered' before its number joins the span.
Emit ==
    /\ feeding /\ fed < Count /\ Cardinality(span) < shape.batch
    /\ Len(ordered) < SlotBuffer
    /\ ordered' = Append(ordered, fed + 1)
    /\ span' = span \cup {fed + 1}
    /\ fed' = fed + 1
    /\ UNCHANGED <<setup, feeding, jobs, worker, slot, consumer, cancelled, stopped>>

\* flush: a full span, or the rest at the end of the range.
\* Mutant: a span is dispatched however many wait.
FlushOver ==
    /\ feeding /\ span # {}
    /\ Cardinality(span) >= shape.batch \/ fed = Count
    /\ jobs' = Append(jobs, span)
    /\ span' = {}
    /\ UNCHANGED <<setup, fed, feeding, ordered, worker, slot, consumer, cancelled, stopped>>
Flush ==
    /\ feeding /\ span # {}
    /\ Cardinality(span) >= shape.batch \/ fed = Count
    /\ Len(jobs) < shape.workers
    /\ jobs' = Append(jobs, span)
    /\ span' = {}
    /\ UNCHANGED <<setup, fed, feeding, ordered, worker, slot, consumer, cancelled, stopped>>

\* The range is fed, or the scan is over; both channels are closed.
\* Mutant: a blocked feeder does not notice.
FeederEndsFed ==
    /\ feeding /\ fed = Count /\ span = {}
    /\ feeding' = FALSE
    /\ UNCHANGED <<setup, fed, span, ordered, jobs, worker, slot, consumer,
                   cancelled, stopped>>
FeederEnds ==
    /\ feeding
    /\ stopped \/ (fed = Count /\ span = {})
    /\ feeding' = FALSE
    /\ UNCHANGED <<setup, fed, span, ordered, jobs, worker, slot, consumer,
                   cancelled, stopped>>

-----------------------------------------------------------------------------
(* A worker's fetchSpan *)

TakeSpan(w) ==
    /\ worker[w] = NoSpan /\ jobs # <<>>
    /\ \/ Cardinality(Head(jobs)) = 1
          /\ worker' = [worker EXCEPT ![w].left = Head(jobs)]
          /\ UNCHANGED slot
       \* One request for the whole span, which may miss some blocks ...
       \/ /\ Cardinality(Head(jobs)) > 1
          /\ \E got \in SUBSET Head(jobs) :
                worker' = [worker EXCEPT ![w] = [left |-> Head(jobs), got |-> got]]
          /\ UNCHANGED slot
       \* ... or fail every slot of it.
       \/ /\ Cardinality(Head(jobs)) > 1
          /\ slot' = [k \in Slot |-> IF k \in Head(jobs) THEN Failed ELSE slot[k]]
          /\ UNCHANGED worker
    /\ jobs' = Tail(jobs)
    /\ UNCHANGED <<setup, feeder, ordered, consumer, cancelled, stopped>>

Result(k) == {Fetched(k, r) : r \in {x \in BOOLEAN : x => shape.receipts}}

Fill(w, k, res) ==
    /\ slot' = [slot EXCEPT ![k] = res]
    /\ worker' = [worker EXCEPT ![w] = [left |-> @.left \ {k}, got |-> @.got \ {k}]]
    /\ UNCHANGED <<setup, feeder, ordered, jobs, consumer, cancelled, stopped>>

\* What the batch brought, in order; bundleData may ask for the receipts again.
Deliver(w) ==
    /\ worker[w].got # {}
    /\ LET k == Min(worker[w].got) IN \E res \in Result(k) : Fill(w, k, res)

\* Whatever it missed, block by block.
FetchAlone(w) ==
    /\ worker[w].got = {} /\ worker[w].left # {}
    /\ LET k == Min(worker[w].left) IN \E res \in Result(k) \cup {Failed} : Fill(w, k, res)

-----------------------------------------------------------------------------
(* The consumer *)

\* The handler returns; the deferred cancelPrefetch runs.
Leave(how) == /\ pc' = "left" /\ outcome' = how /\ stopped' = TRUE
              /\ UNCHANGED <<setup, feeder, jobs, worker, cur, chunk, done, cancelled>>

\* After the loop, ctx.Err() comes before lastProcessed is saved.
\* Mutant: a closed channel is taken for the end of the range.
FinishUnchecked == Leave("saved")
Finish == Leave(IF cancelled THEN "failed" ELSE "saved")

NextSlot ==
    /\ pc = "range" /\ ordered # <<>>
    /\ cur' = Head(ordered) /\ ordered' = Tail(ordered) /\ pc' = "wait"
    /\ UNCHANGED <<setup, feeder, jobs, worker, slot, chunk, done, outcome,
                   cancelled, stopped>>

RangeEnds ==
    /\ pc = "range" /\ ordered = <<>> /\ ~feeding
    /\ Finish
    /\ UNCHANGED <<ordered, slot>>

Receive ==
    /\ pc = "wait" /\ slot[cur].st # "empty"
    /\ IF slot[cur].st = "failed" THEN Leave("failed")
       ELSE IF slot[cur].num <= cutoff THEN Finish
       ELSE /\ pc' = "block"
            /\ UNCHANGED <<setup, feeder, jobs, worker, cur, chunk, done, outcome,
                           cancelled, stopped>>
    /\ UNCHANGED <<ordered, slot>>

\* select on ctx.Done().
GiveUp ==
    /\ pc = "wait" /\ cancelled
    /\ Leave("failed")
    /\ UNCHANGED <<ordered, slot>>

\* A catch-up block without receipts takes its logs from a range query.
\* Mutant: a chunk once fetched serves every later block.
WantsChunkOnce(n) == desc /\ ~slot[cur].rcpt /\ chunk.size > 0 /\ chunk.hi = 0
WantsChunk(n) == /\ desc /\ ~slot[cur].rcpt /\ chunk.size > 0
                 /\ chunk.hi = 0 \/ n < chunk.lo

ChunkLo(n) == IF n >= chunk.size /\ First < n + 1 - chunk.size
              THEN n + 1 - chunk.size ELSE First

Halved == LET size == chunk.size \div 2
          IN  [size |-> IF size < MinChunk THEN 0 ELSE size, lo |-> 0, hi |-> 0]

FetchChunk ==
    /\ pc = "block" /\ WantsChunk(slot[cur].num)
    /\ chunk' \in {[chunk EXCEPT !.lo = ChunkLo(slot[cur].num), !.hi = slot[cur].num],
                   Halved}
    /\ pc' = "ready"
    /\ UNCHANGED <<setup, feeder, ordered, jobs, worker, slot, cur, done, outcome,
                   cancelled, stopped>>

\* Where the block's logs come from: the chunk, or a query of its own.
LogRange(n) ==
    IF desc /\ ~slot[cur].rcpt /\ chunk.size > 0 /\ chunk.hi > 0
    THEN [num |-> n, lo |-> chunk.lo, hi |-> chunk.hi]
    ELSE [num |-> n, lo |-> n, hi |-> n]

AtBlock == pc = "ready" \/ (pc = "block" /\ ~WantsChunk(slot[cur].num))

\* processBlock and, in a catch-up, updateLifecycles.  The slot is garbage.
ProcessSlot ==
    /\ AtBlock
    /\ done' = Append(done, LogRange(slot[cur].num))
    /\ slot' = [slot EXCEPT ![cur] = Empty]
    /\ pc' = "range"
    /\ UNCHANGED <<setup, feeder, ordered, jobs, worker, cur, chunk, outcome,
                   cancelled, stopped>>

\* ... or one of them, or drainLive before them, returns an error.
ProcessFails ==
    /\ pc \in {"block", "ready"}
    /\ Leave("failed")
    /\ UNCHANGED <<ordered, slot>>

\* The session ends under the scan.
Cancel ==
    /\ ~cancelled /\ outcome = "running"
    /\ cancelled' = TRUE /\ stopped' = TRUE
    /\ UNCHANGED <<setup, feeder, ordered, jobs, worker, slot, consumer>>

-----------------------------------------------------------------------------
Feed == Emit \/ Flush \/ FeederEnds
Fetch(w) == TakeSpan(w) \/ Deliver(w) \/ FetchAlone(w)
Consume == NextSlot \/ RangeEnds \/ Receive \/ GiveUp \/ FetchChunk
           \/ ProcessSlot \/ ProcessFails

Next == Feed \/ (\E w \in Workers : Fetch(w)) \/ Consume \/ Cancel

Spec == Init /\ [][Next]_vars

(***************************************************************************)
(* Each goroutine is scheduled, and every request ends: it has a deadline, *)
(* and withRetry makes a fixed number of attempts.                         *)
(***************************************************************************)
Fairness == /\ WF_vars(Feed) /\ WF_vars(Consume)
            /\ \A w \in 1..Max({s.workers : s \in Shapes}) :
                   WF_vars(w \in Workers /\ Fetch(w))

LiveSpec == Spec /\ Fairness

-----------------------------------------------------------------------------
\* The channels hold slots, their capacities are kept.
TypeOK ==
    /\ shape \in Shapes /\ desc \in BOOLEAN /\ cutoff \in 0..Final
    /\ fed \in 0..Count /\ span \subseteq Slot /\ feeding \in BOOLEAN
    /\ ordered \in Seq(Slot) /\ jobs \in Seq(SUBSET Slot) /\ Len(jobs) <= shape.workers
    /\ worker \in [Workers -> [left : SUBSET Slot, got : SUBSET Slot]]
    /\ slot \in [Slot -> [st : {"empty", "failed", "fetched"}, num : 0..Final,
                          rcpt : BOOLEAN]]
    /\ pc \in {"range", "wait", "block", "ready", "left"} /\ cur \in 0..Count
    /\ chunk \in [size : 0..FirstChunk, lo : 0..Final, hi : 0..Final]
    /\ done \in Seq([num : 0..Final, lo : 0..Final, hi : 0..Final])
    /\ outcome \in {"running", "saved", "failed"}
    /\ cancelled \in BOOLEAN /\ stopped \in BOOLEAN

(***************************************************************************)
(* The pipeline does not show: blocks are processed one by one in scan     *)
(* order although workers finish in any order, and a scan that was cut     *)
(* short never saves a resume point.                                       *)
(***************************************************************************)
Abstract == INSTANCE OrderedScan WITH done <- [i \in DOMAIN done |-> done[i].num]
ScansInOrder == Abstract!Spec

(***************************************************************************)
(* The slot the consumer waits for is on its way: filled, with a worker,   *)
(* dispatched, or in the pending span of a feeder that can move on.  A     *)
(* slot buffer smaller than a span would leave both waiting.               *)
(***************************************************************************)
FeederMoves == \/ Cardinality(span) >= shape.batch \/ fed = Count
               \/ Len(ordered) < SlotBuffer
NoStall ==
    pc = "wait" /\ ~stopped =>
        \/ slot[cur].st # "empty"
        \/ \E w \in Workers : cur \in worker[w].left
        \/ \E i \in DOMAIN jobs : cur \in jobs[i]
        \/ cur \in span /\ FeederMoves

(***************************************************************************)
(* A block's logs come from a query whose range held the block: a chunk    *)
(* kept too long would silently yield none.                                *)
(***************************************************************************)
LogsCoverBlock == \A i \in DOMAIN done : done[i].num \in done[i].lo..done[i].hi

(***************************************************************************)
(* A scan ends, whatever fails and whenever the session is cancelled, and  *)
(* leaves no goroutine behind: nobody waits on a channel nobody serves.    *)
(***************************************************************************)
NoneRunning == ~feeding /\ jobs = <<>> /\ \A w \in Workers : worker[w] = NoSpan
ScanEnds == <>(outcome # "running" /\ NoneRunning)

=============================================================================
