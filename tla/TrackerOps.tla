----------------------------- MODULE TrackerOps -----------------------------
(***************************************************************************)
(* The methods of Tracker (internal/indexer/tracker.go) as operators.  The *)
(* tracker is a pure state machine driven from one goroutine: each method  *)
(* takes its state t and returns [t |-> the new state, evs |-> the events  *)
(* to emit].                                                               *)
(*                                                                         *)
(* Abstractions.  A transaction's transfer legs are the set of kinds it    *)
(* has: "native" (ETH value), "calldata" (an ERC20 transfer guessed from a *)
(* call's input), "log" (an ERC20 Transfer log).  The events of one call,  *)
(* one per leg, are one element per transaction, carrying the trackedTx    *)
(* snapshot they are built from; a transaction without legs has none.  The *)
(* clock is the flag `stale': pendingSince is further back than the        *)
(* pending timeout.                                                        *)
(***************************************************************************)
EXTENDS TerminalMemory

CONSTANTS
    Block,      \* block hashes
    NoBlock,    \* the zero block hash
    Slot,       \* (sender, nonce) pairs
    SlotOf,     \* the slot a signed transaction consumes
    Depth,      \* confirmations.Depth
    TagMode     \* confirmations.Tag # "": finality comes from the node

ASSUME BlockAssumption == NoBlock \notin Block
ASSUME SlotAssumption == SlotOf \in [Hash -> Slot]
ASSUME ThresholdAssumption == Depth \in Nat \ {0} /\ TagMode \in BOOLEAN

EventType == Terminal \cup {"pending", "mined", "reorged"}

LegKind == {"native", "calldata", "log"}

Tx == [state : {"none", "pending", "mined"},
       block : Block \cup {NoBlock}, num : Nat,
       legs : SUBSET LegKind, auth : BOOLEAN, hasNonce : BOOLEAN,
       firstSeenBlock : Nat, stale : BOOLEAN]

\* The map entry that is not there.
NoTx == [state |-> "none", block |-> NoBlock, num |-> 0,
         legs |-> {}, auth |-> FALSE, hasNonce |-> FALSE,
         firstSeenBlock |-> 0, stale |-> FALSE]

\* byNonce[s][h]: how often h occurs in the list of slot s.
TrackerState == [txs : [Hash -> Tx], byNonce : [Slot -> [Hash -> Nat]],
                 tombstones : Memory]

NewTracker == [txs |-> [h \in Hash |-> NoTx],
               byNonce |-> [s \in Slot |-> [h \in Hash |-> 0]],
               tombstones |-> NoMemory]

Tracked(t, h) == t.txs[h].state # "none"
IsPending(t, h) == t.txs[h].state = "pending"
IsMined(t, h) == t.txs[h].state = "mined"

NativeLegs(t, h) == t.txs[h].legs \cap {"native"}

-----------------------------------------------------------------------------
\* indexNonce for every transaction of R, each at the end of its slot's list.
indexNonceNot(byNonce, txs, R) == byNonce     \* mutant: not indexed
indexNonce(byNonce, txs, R) ==
    [s \in Slot |-> [h \in Hash |->
        IF h \in R /\ txs[h].hasNonce /\ SlotOf[h] = s
        THEN byNonce[s][h] + 1 ELSE byNonce[s][h]]]

\* unindexNonce for every transaction of R: its first occurrence goes.
unindexNonceNot(byNonce, txs, R) == byNonce   \* mutant: never removed
unindexNonceForced(byNonce, txs, R) ==        \* mutant: removed unseen
    [s \in Slot |-> [h \in Hash |->
        IF h \in R /\ SlotOf[h] = s THEN byNonce[s][h] - 1 ELSE byNonce[s][h]]]
unindexNonce(byNonce, txs, R) ==
    [s \in Slot |-> [h \in Hash |->
        IF h \in R /\ txs[h].hasNonce /\ SlotOf[h] = s /\ byNonce[s][h] > 0
        THEN byNonce[s][h] - 1 ELSE byNonce[s][h]]]

\* events: one element per transaction of R that has a leg to report; by
\* holds the winning hash of a replacement.
events(txs, R, typ, conf, by) ==
    {[typ |-> typ, hash |-> h, tx |-> txs[h], conf |-> conf, by |-> by] :
        h \in {r \in R : txs[r].legs # {}}}

Unheard(t) == [t |-> t, evs |-> {}]

-----------------------------------------------------------------------------
(* OnPending: a mempool notification.  A hash already tracked, or that     *)
(* ended other than by being dropped, is not followed (again).             *)
RefollowsAny(t, h) == ~Tracked(t, h)          \* mutant: endings are ignored
Refollows(t, h) == ~Tracked(t, h) /\ t.tombstones[h] \in {"none", "dropped"}

PendingTx(matches) ==
    [NoTx EXCEPT !.state = "pending", !.legs = matches, !.hasNonce = TRUE]

OnPending(t, h, matches) ==
    IF matches = {} \/ ~Refollows(t, h)
    THEN Unheard(t)
    ELSE LET txs == [t.txs EXCEPT ![h] = PendingTx(matches)]
         IN  [t |-> [t EXCEPT !.txs = txs,
                              !.byNonce = indexNonce(@, txs, {h})],
              evs |-> events(txs, {h}, "pending", 0, {})]

-----------------------------------------------------------------------------
confirmedAtNext(n, conf, fin) ==     \* mutant: one block too early
    IF TagMode THEN fin > 0 /\ n <= fin + 1 ELSE conf >= Depth
confirmedAt(n, conf, fin) ==
    IF TagMode THEN fin > 0 /\ n <= fin ELSE conf >= Depth

\* tx as found in block b; an unknown transaction starts as a pending one.
\* The pending timer means nothing to a mined transaction and is cleared.
MinedTxAnew(tx, b, n, transfers) ==            \* mutant: first seen now
    [tx EXCEPT !.state = "mined", !.block = b, !.num = n,
               !.legs = IF transfers # {} THEN transfers ELSE @,
               !.auth = @ \/ transfers # {}, !.firstSeenBlock = n, !.stale = FALSE]
MinedTx(tx, b, n, transfers) ==
    [state |-> "mined", block |-> b, num |-> n,
     legs |-> IF transfers # {} THEN transfers ELSE tx.legs,
     auth |-> tx.auth \/ transfers # {}, hasNonce |-> tx.hasNonce,
     firstSeenBlock |-> IF tx.firstSeenBlock = 0 THEN n ELSE tx.firstSeenBlock,
     stale |-> FALSE]

\* What becomes of a transaction just found in a block.
VerdictTrusting(tx, failed, conf, fin) ==      \* mutant: guesses are believed
    IF failed THEN "failed"
    ELSE IF confirmedAt(tx.num, conf, fin) THEN "confirmed" ELSE "mined"
Verdict(tx, failed, conf, fin) ==
    IF failed THEN "failed"
    ELSE IF ~tx.auth THEN "unfounded"
    ELSE IF confirmedAt(tx.num, conf, fin) THEN "confirmed" ELSE "mined"

\* Forget R, whose transactions ended as typ.
Forget(txs, R) == [h \in Hash |-> IF h \in R THEN NoTx ELSE txs[h]]

(* OnMined: h is in canonical block b at number n, with the transfers the  *)
(* block's logs and receipts show.  Only `confirmed' is final; any other   *)
(* ending is revoked.  E is what burying h pushes out of the memory.       *)
OnMined(t, h, b, n, transfers, failed, conf, fin, E) ==
    LET memory  == Exhume(t.tombstones, h)
        tx      == MinedTx(t.txs[h], b, n, transfers)
        txs     == [t.txs EXCEPT ![h] = tx]
        byNonce == IF IsMined(t, h) THEN t.byNonce
                   ELSE unindexNonce(t.byNonce, t.txs, {h})
        depth   == IF conf = 0 THEN 1 ELSE conf
        verdict == Verdict(tx, failed, depth, fin)
    IN  IF t.tombstones[h] = "confirmed"
        THEN Unheard(t)
        ELSE IF IsMined(t, h) /\ t.txs[h].block = b
        THEN Unheard([t EXCEPT !.tombstones = memory])
        ELSE IF verdict = "mined"
        THEN [t |-> [txs |-> txs, byNonce |-> byNonce, tombstones |-> memory],
              evs |-> events(txs, {h}, "mined", depth, {})]
        ELSE [t |-> [txs |-> Forget(txs, {h}), byNonce |-> byNonce,
                     tombstones |->
                        Bury(memory, {h},
                             IF verdict = "confirmed" THEN verdict ELSE "failed",
                             E)],
              evs |-> IF verdict = "unfounded" THEN {}
                      ELSE events(txs, {h}, verdict, depth, {})]

-----------------------------------------------------------------------------
\* OnHead: the mined transactions past the threshold at head, and the
\* pending ones past the timeout.
DepthAtOver(head, n) == IF head >= n THEN head - n + 2 ELSE 0   \* mutants
DepthAtUnder(head, n) == IF head >= n THEN head - n ELSE 0
DepthAt(head, n) == IF head >= n THEN head - n + 1 ELSE 0

ConfirmCandidates(t, head, fin) ==
    {h \in Hash : IsMined(t, h)
                  /\ confirmedAt(t.txs[h].num, DepthAt(head, t.txs[h].num), fin)}

StaleCandidates(t) == {h \in Hash : IsPending(t, h) /\ t.txs[h].stale}

\* Confirm: h's inclusion was just verified.
ConfirmUnburied(t, h, head, E) ==             \* mutant: the ending is forgotten
    IF ~IsMined(t, h) \/ head < t.txs[h].num
    THEN Unheard(t)
    ELSE [t |-> [t EXCEPT !.txs = Forget(@, {h})],
          evs |-> events(t.txs, {h}, "confirmed", DepthAt(head, t.txs[h].num), {})]
Confirm(t, h, head, E) ==
    IF ~IsMined(t, h) \/ head < t.txs[h].num
    THEN Unheard(t)
    ELSE [t |-> [t EXCEPT !.txs = Forget(@, {h}),
                          !.tombstones = Bury(@, {h}, "confirmed", E)],
          evs |-> events(t.txs, {h}, "confirmed", DepthAt(head, t.txs[h].num), {})]

\* OnDropStale: the node was asked about a pending h past its timeout.
OnDropStale(t, h, stillKnown, E) ==
    IF ~IsPending(t, h) THEN Unheard(t)
    ELSE IF stillKnown
    THEN Unheard([t EXCEPT !.txs[h].stale = FALSE])
    ELSE [t |-> [txs |-> Forget(t.txs, {h}),
                 byNonce |-> unindexNonce(t.byNonce, t.txs, {h}),
                 tombstones |-> Bury(t.tombstones, {h}, "dropped", E)],
          evs |-> events(t.txs, {h}, "dropped", 0, {})]

-----------------------------------------------------------------------------
\* The pending occupants of slot s that a mined `by' outlives.
ReplacedOccupants(t, s, by) ==
    {h \in Hash : t.byNonce[s][h] > 0 /\ h # by /\ IsPending(t, h)}

OnNonceUsed(t, s, by, E) ==
    LET R == ReplacedOccupants(t, s, by)
    IN  [t |-> [txs |-> Forget(t.txs, R),
                byNonce |-> unindexNonce(t.byNonce, t.txs, R),
                tombstones |-> Bury(t.tombstones, R, "replaced", E)],
         evs |-> events(t.txs, R, "replaced", 0, {by})]

-----------------------------------------------------------------------------
\* A mined transaction whose block is gone is pending again, with a fresh
\* timer; its legs, provenance and firstSeenBlock stay.
DemotedTx(tx) == [tx EXCEPT !.state = "pending", !.block = NoBlock, !.num = 0,
                            !.stale = FALSE]

DemoteAll(t, R) ==
    LET txs == [h \in Hash |-> IF h \in R THEN DemotedTx(t.txs[h]) ELSE t.txs[h]]
    IN  [t |-> [t EXCEPT !.txs = txs, !.byNonce = indexNonce(@, txs, R)],
         evs |-> events(t.txs, R, "reorged", 0, {})]

AboveAncestor(t, ancestor) ==
    {h \in Hash : IsMined(t, h) /\ t.txs[h].num > ancestor}

OnReorg(t, ancestor) == DemoteAll(t, AboveAncestor(t, ancestor))

Demote(t, h) == IF IsMined(t, h) THEN DemoteAll(t, {h}) ELSE Unheard(t)

-----------------------------------------------------------------------------
\* ExportTx: the row of a tracked transaction.  The block hash of a pending
\* one is blank.
ExportTx(t, h) == IF IsPending(t, h) THEN [t.txs[h] EXCEPT !.block = NoBlock]
                  ELSE t.txs[h]

\* Import into an empty tracker: rows[h].state = "none" where there is none.
Import(rows) ==
    [txs |-> rows,
     byNonce |-> indexNonce(NewTracker.byNonce, rows,
                            {h \in Hash : rows[h].state = "pending"}),
     tombstones |-> NewTracker.tombstones]

=============================================================================
