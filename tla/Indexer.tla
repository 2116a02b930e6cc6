------------------------------- MODULE Indexer -------------------------------
(***************************************************************************)
(* One chain's indexer (internal/indexer/indexer.go and blocks.go): the    *)
(* dispatch goroutine that follows a node's heads, its tracker, header     *)
(* ring and database rows, against a node whose chain grows and reorgs     *)
(* between any two requests, sessions that fail and a process that crashes.*)
(*                                                                         *)
(* A block hash is the chain that ends in it (its number is the length,    *)
(* its parent the front), so two blocks differ as soon as their histories  *)
(* do.  A handler is cut into one step per request to the node; `work'     *)
(* says where it is.  Confirmation is by depth or, with TagMode, by the    *)
(* node's finalized block.                                                 *)
(***************************************************************************)
EXTENDS TrackerOps, ChainState, Sequences, SequencesExt

CONSTANTS
    Body,           \* block bodies
    TxsIn,          \* the transactions of each body
    CallLegs,       \* legs MatchBlockTx sees in each transaction's call
    FoundLegs,      \* native leg and Transfer logs of each, when successful
    Failing,        \* transactions that revert
    Resume,         \* the process runs with -resume
    AgeCap,         \* blocks numbered up to here are past max_catchup_age
    MayLower,       \* a reorg may lead to a lower head
    MayReturn,      \* a reorg may bring orphaned blocks back
    MidScan,        \* a reorg may happen while a scan is prefetching
    FinalAhead,     \* finality may decide against blocks still to be handled
    Genesis,        \* the chain before the process starts
    Bound           \* limits of the exploration: see below

(***************************************************************************)
(* Bound.height: the chain's length; .reorgs, .fails, .crashes, .expiries, *)
(* .gossips, .finals, .outages: how many of each (finality advances, the   *)
(* database refuses writes); .silent: new chains the node announces later, *)
(* together with the block that follows;                                   *)
(* .queue: announced heads waiting (headBufferSize); .calm: from this      *)
(* length on no session fails, no process stops and every head is heard.   *)
(***************************************************************************)

VARIABLES
    chain,      \* the node's canonical chain
    orphans,    \* blocks that left it
    gossip,     \* the session's mempool notifications, of any age
    final,      \* the node's finalized number; 0 without TagMode
    broken,     \* the database refuses writes
    spent,      \* how much of Bound is used
    heads,      \* ix.heads: announced, not yet taken
    conn,       \* a session is up
    work,       \* what the dispatch goroutine is doing
    views,      \* chains the node has shown since prefetching began; {} outside
    t,          \* ix.tracker
    c,          \* ix.chain
    last,       \* ix.lastProcessed
    restored,   \* ix.restoredPending
    fin,        \* ix.finalizedNum, as last read from the node
    db,         \* transactions table: one row per hash
    saved,      \* indexer_state row
    missed,     \* transactions whose latest write was refused
    scanned,    \* blocks processed so far by this or an earlier process
    base,       \* the first number this process (or its -resume line) scanned
    heard,      \* every head since the start was announced to a live session
    out         \* events of the latest step: [typ, hash, block, num]

world == <<chain, orphans, final, broken>>
node == <<world, gossip, spent>>
memory == <<t, c, last, restored, fin>>
rows == <<db, missed>>
disk == <<rows, saved>>
history == <<scanned, base, heard>>
vars == <<node, heads, conn, work, views, memory, disk, history, out>>

-----------------------------------------------------------------------------
(* Blocks *)

Number(b) == Len(b)
Parent(b) == Front(b)
BlockAt(ch, n) == SubSeq(ch, 1, n)
TxsOf(b) == TxsIn[b[Len(b)]]
OnChain(ch) == UNION {TxsIn[ch[i]] : i \in 1..Len(ch)}
Holds(ch, b) == Len(b) <= Len(ch) /\ BlockAt(ch, Len(b)) = b
Canonical(b) == Holds(chain, b)
Ref(b) == [num |-> Number(b), hash |-> b]

\* A transaction mines once, and one transaction per (sender, nonce).
ValidChain(ch) ==
    /\ \A i, j \in 1..Len(ch) : i # j => TxsIn[ch[i]] \cap TxsIn[ch[j]] = {}
    /\ \A g, h \in OnChain(ch) : SlotOf[g] = SlotOf[h] => g = h

ASSUME IndexerAssumption ==
    /\ Bound.height \in Nat /\ "crashes" \in DOMAIN Bound
    /\ Block = UNION {[1..n -> Body] : n \in 1..Bound.height}
    /\ Genesis \in Block /\ ValidChain(Genesis)
    /\ \A b \in Block : Ref(b) # NoRef
    /\ TxsIn \in [Body -> SUBSET Hash] /\ Failing \subseteq Hash
    /\ CallLegs \in [Hash -> SUBSET {"native", "calldata"}]
    /\ FoundLegs \in [Hash -> SUBSET {"native", "log"}]

\* The block that holds h's receipt, if any.
ReceiptBlocks(h) ==
    {BlockAt(chain, n) : n \in {i \in 1..Len(chain) : h \in TxsIn[chain[i]]}}

-----------------------------------------------------------------------------
(* The database and emitAll *)

NoRow == [status |-> "none", tx |-> NoTx]
NoState == [last |-> 0, refs |-> {}]

\* txFromEvents: a row for a transaction that ended without ever being stored.
RowFromEvent(e) ==
    [status |-> e.typ, tx |-> [e.tx EXCEPT !.auth = TRUE, !.hasNonce = FALSE]]

\* The legs' log_index values are the rows' keys: one row stands for either
\* the native leg or a guessed one, and the insertion of both fails.
Storable(legs) == ~({"native", "calldata"} \subseteq legs)

\* Mutant: a stored row only ever gets a new status.
persistEventsStatus(stored, tr, evs) ==
    [h \in Hash |->
        LET mine == {e \in evs : e.hash = h}
            e    == CHOOSE x \in mine : TRUE
        IN  IF mine = {} THEN stored[h]
            ELSE IF stored[h] # NoRow THEN [stored[h] EXCEPT !.status = e.typ]
            ELSE RowFromEvent(e)]

\* persistEvents: a snapshot of what is still tracked, else only the status
\* of an existing row, else a row made from the event.
persistEvents(stored, tr, evs) ==
    [h \in Hash |->
        LET mine == {e \in evs : e.hash = h}
            e    == CHOOSE x \in mine : TRUE
            row  == IF Tracked(tr, h)
                    THEN [status |-> tr.txs[h].state, tx |-> ExportTx(tr, h)]
                    ELSE RowFromEvent(e)
        IN  IF mine = {} THEN stored[h]
            ELSE IF ~Tracked(tr, h) /\ stored[h] # NoRow
            THEN [stored[h] EXCEPT !.status = e.typ]
            ELSE IF Storable(row.tx.legs) THEN row ELSE stored[h]]

\* s = [t, c, db, out] is the state a handler works on.  emitAll(s, r): the
\* result r of a tracker's method takes effect and its events go out and are
\* stored.  Calling(s, Call): the method Call is applied to s and reported.
Here == [t |-> t, c |-> c, db |-> db, out |-> {}]

emitAll(s, r) ==
    [s EXCEPT !.t = r.t, !.db = persistEvents(@, r.t, r.evs),
              !.out = @ \cup {[typ |-> e.typ, hash |-> e.hash,
                               block |-> e.tx.block, num |-> e.tx.num] : e \in r.evs}]

Calling(s, Call(_)) == CHOOSE y \in {emitAll(x, Call(x.t)) : x \in {s}} : TRUE

\* A refused write is logged, and indexing goes on.
Install(result) ==
    \E s \in {result} : LET touched == {e.hash : e \in s.out} IN
        /\ t' = s.t /\ c' = s.c /\ out' = s.out
        /\ db' = IF broken THEN db ELSE s.db
        /\ missed' = IF broken THEN missed \cup touched ELSE missed \ touched

\* saveState: a process that has processed nothing saves nothing.
saveState(lastProcessed, ring) ==
    saved' = IF lastProcessed = 0 \/ broken THEN saved
             ELSE [last |-> lastProcessed, refs |-> snapshot(ring)]

-----------------------------------------------------------------------------
(* processBlock *)

confirmationsFor(ring, n) ==
    IF ring.tip # NoRef /\ ring.tip.num > n THEN ring.tip.num - n + 1 ELSE 1

(* What a scan of b finds.  A block that has left the node's chain may     *)
(* have lost its receipts ("skipped") or its logs, which are queried by    *)
(* number and belong to another block by then ("nologs").  A block of the  *)
(* chain loses its logs to what was read before a reorg: the logs of a     *)
(* range, in a catch-up, or the receipts of an empty block at its number.  *)
(* BlockScan has the requests behind this.                                 *)
Shown == IF work.pc = "drain" THEN (views \ work.past) \cup {chain} ELSE views

ReadTooEarly(v, b) ==
    \/ work.pc = "fill" /\ ~Holds(v, b)
    \/ /\ work.pc \in {"rescan", "drain"} /\ Len(v) >= Number(b) /\ ~Holds(v, b)
       /\ TxsOf(BlockAt(v, Number(b))) = {}

ScanModes(b) == IF ~Canonical(b) THEN {"whole", "nologs", "skipped"}
                ELSE IF \E v \in Shown : ReadTooEarly(v, b) THEN {"whole", "nologs"}
                ELSE {"whole"}

LegsFound(h, mode) ==
    IF h \in Failing THEN CallLegs[h]
    ELSE IF mode = "nologs" THEN FoundLegs[h] \ {"log"} ELSE FoundLegs[h]

Scanned(b, mode) ==
    IF mode = "skipped" THEN {}
    ELSE {h \in TxsOf(b) : CallLegs[h] # {} \/ LegsFound(h, mode) # {}}

\* A tracked pending transaction the scan did not cover: mined, but without
\* a transfer of interest.
Uncovered(s, b, mode) ==
    IF mode = "skipped" THEN {}
    ELSE {h \in TxsOf(b) \ Scanned(b, mode) : IsPending(s.t, h)}

processBlock(s, b, mode, open) ==
    LET n     == Number(b)
        conf  == confirmationsFor(s.c, n)
        Found(h, legs, a) ==
            Calling(a, LAMBDA x : OnMined(x, h, b, n, legs, h \in Failing, conf, fin, {}))
        Mine(h, a)  == Found(h, LegsFound(h, mode), a)
        Close(h, a) == Found(h, {}, a)
        Use(h, a)   == Calling(a, LAMBDA x : OnNonceUsed(x, SlotOf[h], h, {}))
        s1 == FoldSet(Mine, s, Scanned(b, mode))
        s2 == FoldSet(Close, s1, Uncovered(s1, b, mode) \ open)
        s3 == FoldSet(Use, s2, TxsOf(b))
    IN  [s3 EXCEPT !.c = record(@, Ref(b))]

\* The receipt of a transaction to close may fail to come, which is logged:
\* the transaction stays pending.
MayStayOpen(b) == IF Canonical(b) /\ Bound.fails = 0 THEN {{}}
                  ELSE SUBSET {h \in TxsOf(b) : IsPending(t, h)}

\* The step of a handler that processes block b and goes on with next.
Process(b, next) ==
    \E mode \in ScanModes(b), open \in MayStayOpen(b) :
        /\ Install(processBlock(Here, b, mode, open))
        /\ scanned' = scanned \cup {b}
        /\ work' = next

-----------------------------------------------------------------------------
(* The node *)

Init ==
    /\ chain = Genesis /\ orphans = {} /\ gossip = {} /\ heads = <<>> /\ conn = TRUE
    /\ spent = [b \in DOMAIN Bound |-> 0]
    /\ work = [pc |-> "idle"] /\ views = {}
    /\ t = NewTracker /\ c = newChainState /\ last = 0 /\ restored = {}
    /\ broken = FALSE /\ final = (IF TagMode THEN Len(Genesis) ELSE 0) /\ fin = final
    /\ db = [h \in Hash |-> NoRow] /\ missed = {} /\ saved = NoState
    /\ scanned = {} /\ base = 0 /\ heard = TRUE /\ out = {}

Spend(b) == spent[b] < Bound[b] /\ spent' = [spent EXCEPT ![b] = @ + 1]

\* The chain becomes ch.
Adopt(ch) ==
    /\ ValidChain(ch) /\ (Len(ch) >= Bound.calm => conn)
    /\ MayReturn \/ \A n \in 1..Len(ch) : BlockAt(ch, n) \notin orphans
    /\ chain' = ch
    /\ views' = IF views = {} THEN {} ELSE views \cup {ch}
    /\ out' = {}
    /\ UNCHANGED <<gossip, final, broken, conn, work, memory, disk, scanned, base>>

\* A session hears of it, unless the node coalesces several changes into the
\* announcement of the last.
Announce == heads' = (IF conn THEN Append(heads, chain') ELSE heads)
Coalesce == /\ conn /\ Len(chain') < Bound.calm
            /\ heard' = FALSE /\ UNCHANGED heads

Extend(body) ==
    /\ Len(chain) < Bound.height /\ Len(heads) < Bound.queue
    /\ Adopt(Append(chain, body))
    /\ \/ Announce /\ UNCHANGED <<spent, heard>>
       \/ Spend("silent") /\ Coalesce
    /\ UNCHANGED orphans

\* The last k blocks are replaced by one or two others; a longer replacement
\* goes on with Extend, and is one announcement if all but its last block are
\* coalesced.
Reorg(k, bodies) ==
    /\ Len(heads) < Bound.queue /\ Spend("reorgs")
    /\ k <= Len(chain) - Len(Genesis) /\ k <= Len(chain) - final
    /\ Len(chain) - k + Len(bodies) <= Bound.height
    /\ Len(bodies) < k => MayLower
    /\ MidScan \/ views = {}
    /\ bodies[1] # chain[Len(chain) - k + 1]
    /\ Adopt(BlockAt(chain, Len(chain) - k) \o bodies)
    /\ orphans' = orphans \cup {BlockAt(chain, n) : n \in (Len(chain) - k + 1)..Len(chain)}
    /\ \/ Announce /\ UNCHANGED heard
       \/ Bound.silent > 0 /\ Coalesce

\* A transaction that can still mine is in the mempool, and the session is
\* notified of it (subscription or snapshot).  A notification may be handled
\* late, and more than once.
Gossip(h) ==
    /\ conn /\ h \notin gossip /\ CallLegs[h] # {} /\ Spend("gossips")
    /\ \A g \in OnChain(chain) : SlotOf[g] # SlotOf[h]
    /\ gossip' = gossip \cup {h}
    /\ out' = {}
    /\ UNCHANGED <<world, heads, conn, work, views, memory, disk, history>>

\* Time passes for a pending transaction.
Expire(h) ==
    /\ IsPending(t, h) /\ ~t.txs[h].stale /\ Spend("expiries")
    /\ t' = [t EXCEPT !.txs[h].stale = TRUE]
    /\ out' = {}
    /\ UNCHANGED <<world, gossip, heads, conn, work, views, c, last, restored, fin,
                   disk, history>>

\* The blocks announced, taken or prefetched that are still to be handled.
Unhandled == ToSet(heads) \cup views
             \cup (IF work.pc \in {"extend", "catchup"} THEN {work.head} ELSE {})

\* b is, as far as number n, what the node's chain is.
Agrees(b, n) == \A i \in 1..Len(b) : i <= n => b[i] = chain[i]

\* Finalized blocks never leave the chain.
Finalize ==
    /\ TagMode /\ Spend("finals")
    /\ final' \in (final + 1)..Len(chain)
    /\ FinalAhead \/ \A b \in Unhandled : Agrees(b, final')
    /\ out' = {}
    /\ UNCHANGED <<chain, orphans, gossip, broken, heads, conn, work, views, memory, disk,
                   history>>

\* The database refuses writes for a while.
Break ==
    /\ ~broken /\ Spend("outages") /\ broken' = TRUE
    /\ out' = {}
    /\ UNCHANGED <<chain, orphans, gossip, final, heads, conn, work, views, memory, disk,
                   history>>
Mend ==
    /\ broken /\ broken' = FALSE
    /\ out' = {}
    /\ UNCHANGED <<chain, orphans, gossip, final, spent, heads, conn, work, views, memory,
                   disk, history>>

-----------------------------------------------------------------------------
(* Sessions and processes *)

Idle == [pc |-> "idle"]

\* Points of a handler where no request is under way.
Local == \/ work.pc = "extended"
         \/ work.pc = "fill" /\ (work.n < work.from \/ work.n <= AgeCap)
         \/ work.pc = "rescan" /\ work.n > work.to

(* A request fails: the session ends, what its channels hold is lost, the  *)
(* indexer's own state stays.                                              *)
EndSession ==
    /\ conn' = FALSE /\ heads' = <<>> /\ work' = Idle /\ views' = {}
    /\ heard' = FALSE /\ gossip' = {}

Fail ==
    /\ conn /\ ~Local /\ Len(chain) < Bound.calm /\ Spend("fails") /\ EndSession
    /\ out' = {}
    /\ UNCHANGED <<world, memory, disk, scanned, base>>

\* The node cannot serve a number it no longer has.
NotServed(n) ==
    /\ n > Len(chain) /\ EndSession
    /\ out' = {}
    /\ UNCHANGED <<world, spent, memory, disk, scanned, base>>

\* The first session of a process resolves the finality tag.  Failing to ends
\* the process for good (errFinalityTag), which a Crash before it covers.
Reconnect ==
    /\ ~conn /\ conn' = TRUE
    /\ fin' = IF fin = 0 THEN final ELSE fin
    /\ out' = {}
    /\ UNCHANGED <<node, heads, work, views, t, c, last, restored, disk, history>>

\* The process stops without warning and a new one restores what is stored.
ActiveRows == {h \in Hash : db[h].status \in {"pending", "mined"}}

\* A process starts once its database answers.
restore(state) ==
    /\ fin' = 0 /\ broken' = FALSE
    /\ last' = IF Resume THEN state.last ELSE 0
    /\ c' = IF Resume THEN Rebuilt(state.refs) ELSE newChainState
    /\ t' = Import([h \in Hash |-> IF h \in ActiveRows
                                   THEN [db[h].tx EXCEPT !.state = db[h].status]
                                   ELSE NoTx])
    /\ restored' = {h \in Hash : db[h].status = "pending"}
    /\ IF Resume /\ state.last > 0 THEN UNCHANGED <<scanned, base>>
       ELSE base' = 0 /\ scanned' = {}

Crash ==
    /\ Len(chain) < Bound.calm /\ Spend("crashes") /\ EndSession
    /\ restore(saved)
    /\ out' = {}
    /\ UNCHANGED <<chain, orphans, final, disk>>

\* shutdown saves first.
Stop ==
    /\ work.pc # "extended" /\ Len(chain) < Bound.calm /\ Spend("crashes") /\ EndSession
    /\ saveState(last, c)
    /\ restore(saved')
    /\ out' = {}
    /\ UNCHANGED <<chain, orphans, final, rows>>

-----------------------------------------------------------------------------
(* runSession's select, and onHead *)

\* A pending notification is handled between heads, and between the blocks of
\* a catch-up (drainLive).
Notify(h) ==
    /\ conn /\ work.pc \in {"idle", "fill"} /\ h \in gossip
    /\ Refollows(t, h)
    /\ Install(Calling(Here, LAMBDA x : OnPending(x, h, CallLegs[h])))
    /\ UNCHANGED <<node, heads, conn, work, views, last, restored, fin, saved, history>>

Life(n, floor, next) == [pc |-> "life", head |-> n, floor |-> floor, next |-> next]

\* lastProcessed is what has been scanned: a head that extends the tip but
\* not lastProcessed still hides a gap.
ClassifiedByTip(h) ==     \* mutant: the tip alone decides
    classify(c, [num |-> Number(h), hash |-> h, parent |-> Parent(h)])
Classified(h) ==
    LET kind == classify(c, [num |-> Number(h), hash |-> h, parent |-> Parent(h)])
    IN  IF kind = "extend" /\ last > 0 /\ Number(h) > last + 1 THEN "gap" ELSE kind

WalkFrom(n) == IF c.tip # NoRef /\ c.tip.num < n THEN c.tip.num ELSE n

onHead ==
    /\ conn /\ work.pc = "idle" /\ heads # <<>>
    /\ LET h == Head(heads) IN
       work' = CASE Classified(h) = "stale"  -> Idle
                 [] Classified(h) = "extend" -> [pc |-> "extend", head |-> h]
                 [] Classified(h) = "gap"    ->
                        [pc |-> "catchup", head |-> h, from |-> last + 1]
                 [] Classified(h) = "reorg"  ->
                        [pc |-> "walk", head |-> Number(h),
                         from |-> WalkFrom(Number(h))]
    /\ heads' = Tail(heads)
    /\ out' = {}
    /\ UNCHANGED <<node, conn, views, memory, disk, history>>

Advance(n, ring, next) ==
    /\ last' = n /\ saveState(n, ring) /\ work' = next

\* headExtend: the announced block, by hash.
ExtendBlock ==
    /\ work.pc = "extend"
    /\ Process(work.head, [pc |-> "extended", head |-> Number(work.head)])
    /\ base' = IF base = 0 THEN Number(work.head) ELSE base
    /\ UNCHANGED <<node, heads, conn, views, last, restored, fin, saved, heard>>

Extended ==
    /\ work.pc = "extended"
    /\ Advance(work.head, c, Life(work.head, 0, Idle))
    /\ out' = {}
    /\ UNCHANGED <<node, heads, conn, views, t, c, restored, fin, rows, history>>

-----------------------------------------------------------------------------
(* catchUpScan: the head first, then downwards, live heads in between *)

Fill(n, from, highest) == [pc |-> "fill", n |-> n, from |-> from, highest |-> highest]

CatchUpHead ==
    /\ work.pc = "catchup"
    /\ Process(work.head, Fill(Number(work.head) - 1, work.from, Number(work.head)))
    /\ views' = {chain}
    /\ UNCHANGED <<node, heads, conn, last, restored, fin, saved, base, heard>>

\* drainLive takes every waiting head, skipping those it is already past.
DrainHead ==
    /\ conn /\ work.pc = "fill" /\ ~Local /\ heads # <<>>
    /\ heads' = Tail(heads)
    /\ work' = IF Number(Head(heads)) <= work.highest THEN work
               ELSE [pc |-> "drain", g |-> work.highest + 1,
                     to |-> Number(Head(heads)), past |-> views \ {chain}, fill |-> work]
    /\ out' = {}
    /\ UNCHANGED <<node, conn, views, memory, disk, history>>

\* processGap, by number: a batch read from any chain shown since the head was
\* taken, a block it misses fetched on its own.
DrainBlock ==
    /\ work.pc = "drain"
    /\ \/ NotServed(work.g)
       \/ /\ \E v \in Shown :
               /\ Len(v) >= work.g
               /\ Process(BlockAt(v, work.g),
                          IF work.g = work.to THEN [work.fill EXCEPT !.highest = work.to]
                          ELSE [work EXCEPT !.g = @ + 1])
          /\ UNCHANGED <<node, heads, conn, views, last, restored, fin, saved, base, heard>>

\* A prefetched block: a worker read it from any chain shown since the scan
\* began.
FillBlock ==
    /\ work.pc = "fill" /\ ~Local /\ heads = <<>>
    /\ \E v \in views :
        \/ /\ Len(v) >= work.n
           /\ Process(BlockAt(v, work.n),
                      Life(work.highest, work.n, [work EXCEPT !.n = @ - 1]))
           /\ UNCHANGED <<node, heads, conn, views, last, restored, fin, saved, base, heard>>
        \/ /\ Len(v) < work.n /\ EndSession /\ out' = {}
           /\ UNCHANGED <<world, spent, memory, disk, scanned, base>>

\* The range is done, or the rest of it is too old.
CaughtUp ==
    /\ work.pc = "fill" /\ Local
    /\ Advance(work.highest, c, Life(work.highest, 0, Idle))
    /\ views' = {} /\ out' = {}
    /\ UNCHANGED <<node, heads, conn, t, c, restored, fin, rows, history>>

-----------------------------------------------------------------------------
(* handleReorg *)

RescanLate(n, to) ==      \* mutant: the first replacement block is passed over
    [pc |-> "rescan", n |-> IF n < to THEN n + 1 ELSE n, to |-> to]
Rescan(n, to) == [pc |-> "rescan", n |-> n, to |-> to]

\* OnReorg and lastProcessed once the ancestor is known.
Reverted(ancestor) ==
    /\ Install(Calling(Here, LAMBDA x : OnReorg(x, ancestor)))
    /\ last' = ancestor
    /\ work' = Rescan(ancestor + 1, work.head)
    /\ views' = {chain}
    /\ UNCHANGED <<node, heads, conn, restored, fin, saved, history>>

\* One findAncestor request; deep is the ring's floor.
Walk ==
    /\ work.pc = "walk"
    /\ LET chunk == NextChunk(c, work.from)
           same  == {n \in chunk : n <= Len(chain) /\ at(c, n).hash = BlockAt(chain, n)}
       IN  \/ chunk = {} /\ Reverted(floorOf(c))
           \/ chunk # {} /\ NotServed(Top(chunk))
           \/ /\ chunk # {} /\ Top(chunk) <= Len(chain)
              /\ \/ same # {} /\ Reverted(Top(same))
                 \/ /\ same = {}
                    /\ work' = [work EXCEPT !.from = Bottom(chunk) - 1]
                    /\ out' = {}
                    /\ UNCHANGED <<node, heads, conn, views, memory, disk,
                                   history>>

\* processRange, ascending, prefetched like a catch-up.
RescanBlock ==
    /\ work.pc = "rescan" /\ ~Local
    /\ \E v \in views :
        \/ /\ Len(v) >= work.n
           /\ Process(BlockAt(v, work.n), [work EXCEPT !.n = @ + 1])
           /\ UNCHANGED <<node, heads, conn, views, last, restored, fin, saved, base, heard>>
        \/ /\ Len(v) < work.n /\ EndSession /\ out' = {}
           /\ UNCHANGED <<world, spent, memory, disk, scanned, base>>

\* processRange saves before handleReorg moves the tip.
Rescanned ==
    /\ work.pc = "rescan" /\ Local
    /\ Advance(work.to, c, Life(work.to, 0, Idle))
    /\ c' = resetTip(c, work.to)
    /\ views' = {} /\ out' = {}
    /\ UNCHANGED <<node, heads, conn, t, restored, fin, rows, history>>

-----------------------------------------------------------------------------
(* updateLifecycles *)

\* finalizedNumber: read again, or the cached one while it is fresh and when
\* the request fails.
finalizedNumberTip == IF TagMode THEN {Len(chain)} ELSE {0}   \* mutant: the head's number
finalizedNumber == IF TagMode THEN fin..final ELSE {0}

\* One candidate against its fresh receipt; f is tagFinalized.
CheckOneTrusting(head, f, h, s) ==       \* mutant: the receipt is not compared
    Calling(s, LAMBDA x : Confirm(x, h, head, {}))
CheckOne(head, f, h, s) ==
    LET found == ReceiptBlocks(h)
        b     == CHOOSE x \in found : TRUE
        d     == Calling(s, LAMBDA x : Demote(x, h))
    IN  IF found = {} THEN d
        ELSE IF b # s.t.txs[h].block
        THEN Calling(d, LAMBDA x : OnMined(x, h, b, Number(b), {}, h \in Failing,
                                           confirmationsFor(c, Number(b)), f, {}))
        ELSE Calling(s, LAMBDA x : Confirm(x, h, head, {}))

Checks(head, floor, f) ==
    {h \in ConfirmCandidates(t, head, f) : t.txs[h].num >= floor}

CheckAll(f, hashes) ==
    LET Check(h, s) == CheckOne(work.head, f, h, s) IN FoldSet(Check, Here, hashes)

Resolve == [pc |-> "recheck", hashes |-> StaleCandidates(t) \cup restored,
            next |-> work.next]

\* Mutants: the restored list is cleared before it is looked up; only stale
\* transactions make the recheck run.
ConfirmationsClear ==
    /\ work.pc = "life"
    /\ \E f \in finalizedNumber :
          fin' = f /\ Install(CheckAll(f, Checks(work.head, work.floor, f)))
    /\ work' = IF StaleCandidates(t) \cup restored = {} THEN work.next ELSE Resolve
    /\ restored' = {}
    /\ UNCHANGED <<node, heads, conn, views, last, saved, history>>
ConfirmationsStaleOnly ==
    /\ work.pc = "life"
    /\ \E f \in finalizedNumber :
          fin' = f /\ Install(CheckAll(f, Checks(work.head, work.floor, f)))
    /\ work' = IF StaleCandidates(t) = {} THEN work.next ELSE Resolve
    /\ UNCHANGED <<node, heads, conn, views, last, restored, saved, history>>

Confirmations ==
    /\ work.pc = "life"
    /\ \E f \in finalizedNumber :
          fin' = f /\ Install(CheckAll(f, Checks(work.head, work.floor, f)))
    /\ work' = IF StaleCandidates(t) \cup restored = {} THEN work.next ELSE Resolve
    /\ UNCHANGED <<node, heads, conn, views, last, restored, saved, history>>

\* An error for one transaction of a batch ends the session; those before it
\* have been dealt with.
Interrupted(s) ==
    /\ Len(chain) < Bound.calm /\ Spend("fails") /\ EndSession
    /\ Install(s)
    /\ UNCHANGED <<world, last, restored, saved, scanned, base>>

PartOf(hashes) == SUBSET hashes \ {{}, hashes}

ConfirmationsCut ==
    /\ work.pc = "life"
    /\ \E f \in finalizedNumber : \E done \in PartOf(Checks(work.head, work.floor, f)) :
          fin' = f /\ Interrupted(CheckAll(f, done))

\* recheckPendingTxs: a receipt promotes; whatever has none is looked up.
promotePendingTx(h, s) ==
    LET b == CHOOSE x \in ReceiptBlocks(h) : TRUE
        logs == IF h \in Failing THEN {} ELSE FoundLegs[h] \ {"native"}
    IN  Calling(s, LAMBDA x : OnMined(x, h, b, Number(b), NativeLegs(x, h) \cup logs,
                                      h \in Failing, confirmationsFor(c, Number(b)), fin, {}))

Mined(hashes) == {h \in hashes : ReceiptBlocks(h) # {}}

Recheck ==
    /\ work.pc = "recheck"
    /\ LET unmined == work.hashes \ Mined(work.hashes)
       IN  /\ Install(FoldSet(promotePendingTx, Here, Mined(work.hashes)))
           /\ IF unmined = {} THEN restored' = {} /\ work' = work.next
              ELSE /\ work' = [work EXCEPT !.pc = "lookup", !.hashes = unmined]
                   /\ UNCHANGED restored
    /\ UNCHANGED <<node, heads, conn, views, last, fin, saved, history>>

RecheckCut ==
    /\ work.pc = "recheck"
    /\ \E done \in PartOf(work.hashes) :
          Interrupted(FoldSet(promotePendingTx, Here, Mined(done)))
    /\ UNCHANGED fin

\* The second request: what the node does not know any more is dropped.  It
\* knows what has mined since the first.
DropUnknown(hashes, known) ==
    LET Drop(h, a) == Calling(a, LAMBDA x : OnDropStale(x, h, h \in known, {}))
    IN  FoldSet(Drop, Here, hashes)

Lookup ==
    /\ work.pc = "lookup"
    /\ \E known \in SUBSET work.hashes :
         Mined(work.hashes) \subseteq known /\ Install(DropUnknown(work.hashes, known))
    /\ restored' = {}
    /\ work' = work.next
    /\ UNCHANGED <<node, heads, conn, views, last, fin, saved, history>>

LookupCut ==
    /\ work.pc = "lookup"
    /\ \E done \in PartOf(work.hashes) : \E known \in SUBSET done :
         Mined(done) \subseteq known /\ Interrupted(DropUnknown(done, known))
    /\ UNCHANGED fin

-----------------------------------------------------------------------------
NodeStep == \/ \E body \in Body : Extend(body)
            \/ \E k \in 1..Bound.height, b1 \in Body : Reorg(k, <<b1>>)
            \/ \E k \in 1..Bound.height, b1, b2 \in Body : Reorg(k, <<b1, b2>>)
            \/ \E h \in Hash : Gossip(h) \/ Expire(h)
            \/ Finalize \/ Break \/ Mend

HandlerStep ==
    \/ ExtendBlock \/ Extended
    \/ CatchUpHead \/ DrainHead \/ DrainBlock \/ FillBlock \/ CaughtUp
    \/ Walk \/ RescanBlock \/ Rescanned
    \/ Confirmations \/ Recheck \/ Lookup

Next == NodeStep \/ Fail \/ ConfirmationsCut \/ RecheckCut \/ LookupCut
        \/ Reconnect \/ Crash \/ Stop
        \/ (\E h \in Hash : Notify(h)) \/ onHead \/ HandlerStep

Spec == Init /\ [][Next]_vars

(***************************************************************************)
(* The dispatch goroutine runs, Run reconnects after its backoff, and the  *)
(* chain grows.  No failure is promised to end, only bounded by Bound.     *)
(***************************************************************************)
Dispatch == HandlerStep \/ onHead \/ Reconnect

Fairness == WF_vars(Dispatch) /\ WF_vars(\E body \in Body : Extend(body))

LiveSpec == Spec /\ Fairness

-----------------------------------------------------------------------------
\* The records and maps keep their types.
TypeOK ==
    /\ chain \in Block /\ ValidChain(chain)
    /\ t \in TrackerState
    /\ fin \in 0..final /\ final <= Len(chain)
    /\ last \in 0..Bound.height /\ base \in 0..Bound.height
    /\ work.pc \in {"idle", "extend", "extended", "catchup", "fill", "drain",
                    "walk", "rescan", "life", "recheck", "lookup"}
    /\ conn \in BOOLEAN /\ (~conn => work = Idle /\ heads = <<>>)

(***************************************************************************)
(* lastProcessed is the ground truth of what has been scanned (onHead):    *)
(* no number between the first block followed and lastProcessed was passed *)
(* over, whatever catch-up was interrupted on the way.                     *)
(***************************************************************************)
NoSkippedHeight ==
    base > 0 => \A n \in base..last : \E b \in scanned : Number(b) = n

\* Nothing under way, nothing waiting.
Quiet == conn /\ work = Idle /\ heads = <<>>

\* ... and the indexer stands where the node does.
Settled == Quiet /\ c.tip # NoRef /\ c.tip.hash = chain /\ last = Len(chain)

(***************************************************************************)
(* The block scan is the source of truth: once the indexer stands at the   *)
(* node's head, every payment on the canonical chain since the first block *)
(* followed is in the database, as confirmed or as mined in the very block *)
(* that holds it, unless the database refused the latest write of its row. *)
(***************************************************************************)
PaymentsRecorded ==
    Settled => \A n \in base..last : \A h \in TxsIn[chain[n]] \ (Failing \cup missed) :
        FoundLegs[h] # {} =>
            \/ db[h].status = "confirmed"
            \/ db[h].status = "mined" /\ db[h].tx.block = BlockAt(chain, n)

(***************************************************************************)
(* After every announced head is handled the indexer stands at the node's  *)
(* head, also when a reorg led to a lower one: an orphaned tip is never    *)
(* left behind (resetTip).                                                 *)
(***************************************************************************)
ReachesHead == Quiet /\ heard /\ last > 0 => Settled

(***************************************************************************)
(* The headers held between lastProcessed and the ring's floor link up     *)
(* whenever no handler is at work: comparing them with the node's, from    *)
(* the top, then finds the fork point (findAncestor).                      *)
(***************************************************************************)
RingLinked ==
    Quiet /\ heard => \A n \in (floorOf(c) + 1)..last :
        Held(c, n) /\ Held(c, n - 1) => Parent(at(c, n).hash) = at(c, n - 1).hash

(***************************************************************************)
(* `confirmed' means the configured depth was reached on the node's chain  *)
(* or, by tag, that the node has finalized that number, whichever of the   *)
(* cached and the fresh finality number was used.                          *)
(***************************************************************************)
DepthReached ==
    \A e \in out : e.typ = "confirmed" =>
        IF TagMode THEN e.num <= final ELSE Len(chain) + 1 >= e.num + Depth

(***************************************************************************)
(* ... and that the block was still on that chain when it was emitted.     *)
(***************************************************************************)
ConfirmedOnChain == \A e \in out : e.typ = "confirmed" => Canonical(e.block)

(***************************************************************************)
(* A payment confirmed by the finality tag can never leave the chain: it   *)
(* stands in a finalized block, whatever cached number or block confirmed  *)
(* it, and in whichever process.                                           *)
(***************************************************************************)
FinalKept ==
    TagMode => \A h \in Hash :
        db[h].status = "confirmed" => h \in OnChain(BlockAt(chain, final))

(***************************************************************************)
(* Whatever is followed is stored with the same status and block, between  *)
(* any two steps: a crash loses no followed payment.  A refused write      *)
(* spoils only its own row, and only until the next one.                   *)
(***************************************************************************)
TrackedIsStored ==
    \A h \in Hash \ missed : Tracked(t, h) =>
        /\ db[h].status = t.txs[h].state
        /\ db[h].tx = [ExportTx(t, h) EXCEPT !.stale = db[h].tx.stale]

(***************************************************************************)
(* The rows in flight are the transactions followed.                       *)
(***************************************************************************)
InFlightIsTracked ==
    \A h \in Hash : db[h].status \in {"pending", "mined"} => Tracked(t, h)

(***************************************************************************)
(* A confirmed row carries the block that holds the payment.               *)
(***************************************************************************)
ConfirmedRowHasBlock ==
    \A h \in Hash : db[h].status = "confirmed" =>
        db[h].tx.num > 0 /\ db[h].tx.firstSeenBlock > 0

(***************************************************************************)
(* When a block is processed, no transaction known to hold the slot one of *)
(* its transactions consumed is left pending.                              *)
(***************************************************************************)
LeftPending(known) ==
    \E b \in scanned' \ scanned : \E g \in TxsOf(b) : \E h \in Hash \ {g} :
        /\ SlotOf[g] = SlotOf[h] /\ IsPending(t', h)
        /\ known => t'.txs[h].hasNonce

KnownSlotsReplaced == [][~LeftPending(TRUE)]_vars
AllReplaced == [][~LeftPending(FALSE)]_vars

(***************************************************************************)
(* A restored pending transaction leaves the list only once it is resolved *)
(* or the node, asked for its receipt and then for it, still has it in the *)
(* pool; a failed request in between does not lose it (updateLifecycles).  *)
(***************************************************************************)
RestoredResolved ==
    [][\A h \in restored \ restored' :
         IsPending(t', h) /\ spent'.crashes = spent.crashes =>
             work.pc = "lookup" /\ h \in work.hashes /\ ~t'.txs[h].stale]_vars

(***************************************************************************)
(* A payment in a followed block is confirmed once the chain has outgrown  *)
(* it by the configured depth and outages have ended, whatever was missed  *)
(* before: catch-up reaches it or the live scan already had.               *)
(***************************************************************************)
PaymentsConfirmed ==
    Len(chain) = Bound.height ~>
        (base > 0 => \A n \in base..(Len(chain) + 1 - Depth) :
            \A h \in TxsIn[chain[n]] \ Failing :
                FoundLegs[h] # {} => db[h].status = "confirmed")

\* Restored pending transactions are looked up on a head that follows.
RestoredEventually == restored # {} ~> restored = {}

=============================================================================
