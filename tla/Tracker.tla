------------------------------- MODULE Tracker -------------------------------
(***************************************************************************)
(* The tracker under every caller the indexer has: block scans, mempool    *)
(* notifications, lifecycle updates at a head, reorgs and restarts, in any *)
(* order.  The node's answers are left open here; Indexer.tla supplies     *)
(* them from a chain.                                                      *)
(***************************************************************************)
EXTENDS TrackerOps

CONSTANTS
    NumOf,          \* the number of each block
    Number,         \* block numbers and depths a caller may pass
    PendingLegs,    \* leg sets a mempool notification may carry
    BlockLegs       \* leg sets a block scan may find

ASSUME NumberAssumption == Number \subseteq Nat /\ NumOf \in [Block -> Nat \ {0}]
ASSUME LegsAssumption == /\ PendingLegs \subseteq (SUBSET LegKind) \ {{}}
                         /\ BlockLegs \subseteq SUBSET LegKind

VARIABLES
    t,      \* the Tracker
    evs     \* the events returned by the latest step, as <<hash, type>>

vars == <<t, evs>>

Told(E) == {<<e.hash, e.typ>> : e \in E}

Becomes(r) == t' = r.t /\ evs' = Told(r.evs)

\* The finality number a caller passes: 0 outside tag mode.
Finalized == IF TagMode THEN Number ELSE {0}

Init == t = NewTracker /\ evs = {}

\* runSession: a batch of pending matches arrived.
Pending(h) == \E matches \in PendingLegs : Becomes(OnPending(t, h, matches))

\* processBlock, or the promotion of a pending transaction whose receipt was
\* found: h is in block b.
Mined(h, b) ==
    \E transfers \in BlockLegs \cup {{}}, failed \in BOOLEAN,
       conf \in Number, fin \in Finalized,
       E \in Evictions(t.tombstones, {h}) :
        Becomes(OnMined(t, h, b, NumOf[b], transfers, failed, conf, fin, E))

\* processBlock: a mined transaction, tracked or not, consumed slot s.
NonceUsed(s) ==
    \E by \in Hash \cup {NoBlock} :
      \E E \in Evictions(t.tombstones, ReplacedOccupants(t, s, by)) :
        Becomes(OnNonceUsed(t, s, by, E))

\* updateLifecycles: a candidate of OnHead whose receipt is in its block,
Verified(h) ==
    \E head \in Number, fin \in Finalized : \E E \in Evictions(t.tombstones, {h}) :
        /\ h \in ConfirmCandidates(t, head, fin)
        /\ Becomes(Confirm(t, h, head, E))

\* gone from the chain,
Vanished(h) ==
    \E head \in Number, fin \in Finalized :
        /\ h \in ConfirmCandidates(t, head, fin)
        /\ Becomes(Demote(t, h))

\* or in another block.
Moved(h, b) ==
    \E head \in Number, fin \in Finalized, failed \in BOOLEAN, conf \in Number :
      \E E \in Evictions(t.tombstones, {h}) :
        /\ h \in ConfirmCandidates(t, head, fin)
        /\ b # t.txs[h].block
        /\ LET d == Demote(t, h)
               m == OnMined(d.t, h, b, NumOf[b], {}, failed, conf, fin, E)
           IN  t' = m.t /\ evs' = Told(d.evs) \cup Told(m.evs)

\* recheckPendingTxs: a stale (or restored) h without a receipt.
Recheck(h, stillKnown) ==
    \E E \in Evictions(t.tombstones, {h}) :
        Becomes(OnDropStale(t, h, stillKnown, E))

\* handleReorg
Reorg(ancestor) == Becomes(OnReorg(t, ancestor))

\* Time passes.
Expire(h) == /\ IsPending(t, h)
             /\ t' = [t EXCEPT !.txs[h].stale = TRUE]
             /\ evs' = {}

(* The process restarts: the active rows come back, the memory of endings  *)
(* does not.  A stored timer may be older than the live one (a recheck     *)
(* that resets it emits nothing, so nothing is saved).                     *)
Restart ==
    \E old \in SUBSET {h \in Hash : IsPending(t, h)} :
        /\ t' = Import([h \in Hash |->
                    [ExportTx(t, h) EXCEPT !.stale = @ \/ h \in old]])
        /\ evs' = {}

Next ==
    \/ \E h \in Hash : \/ Pending(h)
                       \/ Verified(h)
                       \/ Vanished(h)
                       \/ Expire(h)
                       \/ \E known \in BOOLEAN : Recheck(h, known)
                       \/ \E b \in Block : Mined(h, b) \/ Moved(h, b)
    \/ \E s \in Slot : NonceUsed(s)
    \/ \E ancestor \in Number : Reorg(ancestor)
    \/ Restart

Spec == Init /\ [][Next]_vars

-----------------------------------------------------------------------------
\* Every field of the tracker's maps has its type.
TypeOK == t \in TrackerState /\ evs \subseteq Hash \X EventType

(***************************************************************************)
(* byNonce lists exactly the pending transactions whose slot is known,     *)
(* each once and in its own slot: an entry too many would be a leak that   *)
(* OnNonceUsed can only skip, an entry too few a replacement never         *)
(* reported.  Every transition into and out of "pending" must keep it.     *)
(***************************************************************************)
NonceIndexExact ==
    \A s \in Slot, h \in Hash :
        t.byNonce[s][h] =
            IF IsPending(t, h) /\ t.txs[h].hasNonce /\ SlotOf[h] = s THEN 1 ELSE 0

(***************************************************************************)
(* A hash that is both followed and remembered as ended was dropped and    *)
(* came back through the mempool; any other ending is revoked before the   *)
(* hash is followed again.                                                 *)
(***************************************************************************)
TrackedOrBuried ==
    \A h \in Hash : Tracked(t, h) /\ t.tombstones[h] # "none" =>
        IsPending(t, h) /\ t.tombstones[h] = "dropped"

(***************************************************************************)
(* Only transfers seen in a block's logs or receipts make a transaction    *)
(* count as mined, and it keeps a leg to report: no status is silently     *)
(* reached on the strength of a mempool guess.                             *)
(***************************************************************************)
MinedIsFounded ==
    \A h \in Hash : /\ Tracked(t, h) => t.txs[h].legs # {}
                    /\ IsMined(t, h) => /\ t.txs[h].auth
                                        /\ t.txs[h].block # NoBlock
                                        /\ t.txs[h].firstSeenBlock > 0

(***************************************************************************)
(* Each step is a legal move of the life cycle, for every transaction it   *)
(* touches, and announces exactly that move.                               *)
(***************************************************************************)
StatusOf(h) == IF Tracked(t, h) THEN t.txs[h].state
               ELSE IF t.tombstones[h] # "none" THEN t.tombstones[h]
               ELSE "unknown"

LC == INSTANCE Lifecycle WITH status <- [h \in Hash |-> StatusOf(h)],
                              announced <- evs

LifecycleSpec == LC!Spec

(***************************************************************************)
(* FirstSeenBlock is immutable once set for as long as the transaction is  *)
(* followed, across reorgs, re-mining in another block and restarts.       *)
(***************************************************************************)
FirstSeenBlockKept ==
    [][\A h \in Hash :
        t.txs[h].firstSeenBlock > 0 /\ Tracked(t', h) =>
            t'.txs[h].firstSeenBlock = t.txs[h].firstSeenBlock]_vars

=============================================================================
