-------------------------- MODULE TrackerOpsProofs --------------------------
(***************************************************************************)
(* Lemmas about the tracker's methods, for any transactions, blocks,       *)
(* slots, memory size and confirmation threshold: each takes a Good state  *)
(* to a Good state.  Both the tracker alone (TrackerProofs) and the        *)
(* indexer around it (IndexerProofs) are proved with them.                 *)
(*                                                                         *)
(* Good is the invariants the runs check, as predicates of a state, made   *)
(* inductive by one more: the map entry of a transaction that is not       *)
(* followed is blank (Absent), so that a later block finds no leg,         *)
(* authority or slot of an earlier life in it.                             *)
(***************************************************************************)
EXTENDS TrackerOps, TLAPS

\* The invariants of Tracker as predicates of the state's parts.
Exact(txs, byNonce) ==
    \A s \in Slot, h \in Hash :
        byNonce[s][h] =
            IF txs[h].state = "pending" /\ txs[h].hasNonce /\ SlotOf[h] = s
            THEN 1 ELSE 0

Absent(txs) == \A h \in Hash : txs[h].state = "none" => txs[h] = NoTx

Founded(txs) ==
    \A h \in Hash : /\ txs[h].state # "none" => txs[h].legs # {}
                    /\ txs[h].state = "mined" => /\ txs[h].auth
                                                 /\ txs[h].block # NoBlock
                                                 /\ txs[h].firstSeenBlock > 0

Apart(txs, m) ==
    \A h \in Hash : txs[h].state # "none" /\ m[h] # "none" =>
        txs[h].state = "pending" /\ m[h] = "dropped"

Good(st) == /\ st \in TrackerState
            /\ Exact(st.txs, st.byNonce)
            /\ Absent(st.txs)
            /\ Founded(st.txs)
            /\ Apart(st.txs, st.tombstones)

Named(E) == \A e \in E : e.hash \in Hash /\ e.typ \in EventType

\* What every method promises of its result.
Sound(r) == Good(r.t) /\ Named(r.evs)

-----------------------------------------------------------------------------
\* indexNonce and unindexNonce return an index.
LEMMA IndexType ==
    ASSUME NEW bn \in [Slot -> [Hash -> Nat]], NEW txs \in [Hash -> Tx], NEW R
    PROVE  /\ indexNonce(bn, txs, R) \in [Slot -> [Hash -> Nat]]
           /\ unindexNonce(bn, txs, R) \in [Slot -> [Hash -> Nat]]
<1>1. \A s \in Slot, h \in Hash : bn[s][h] \in Nat
  OBVIOUS
<1>2. \A s \in Slot, h \in Hash :
        (IF h \in R /\ txs[h].hasNonce /\ SlotOf[h] = s
         THEN bn[s][h] + 1 ELSE bn[s][h]) \in Nat
  BY <1>1
<1>3. \A s \in Slot, h \in Hash :
        (IF h \in R /\ txs[h].hasNonce /\ SlotOf[h] = s /\ bn[s][h] > 0
         THEN bn[s][h] - 1 ELSE bn[s][h]) \in Nat
  BY <1>1
<1> QED
  BY <1>2, <1>3 DEF indexNonce, unindexNonce

\* Transactions that become pending are indexed by indexNonce.
LEMMA IndexKeepsExact ==
    ASSUME NEW bn \in [Slot -> [Hash -> Nat]],
           NEW old \in [Hash -> Tx], NEW new \in [Hash -> Tx], NEW R \in SUBSET Hash,
           Exact(old, bn),
           \A h \in R : old[h].state # "pending" /\ new[h].state = "pending",
           \A h \in Hash \ R : new[h] = old[h]
    PROVE  Exact(new, indexNonce(bn, new, R))
<1> SUFFICES ASSUME NEW s \in Slot, NEW h \in Hash
             PROVE  indexNonce(bn, new, R)[s][h] =
                      IF new[h].state = "pending" /\ new[h].hasNonce /\ SlotOf[h] = s
                      THEN 1 ELSE 0
  BY DEF Exact
<1>1. bn[s][h] = IF old[h].state = "pending" /\ old[h].hasNonce /\ SlotOf[h] = s
                 THEN 1 ELSE 0
  BY DEF Exact
<1>2. indexNonce(bn, new, R)[s][h] =
        IF h \in R /\ new[h].hasNonce /\ SlotOf[h] = s
        THEN bn[s][h] + 1 ELSE bn[s][h]
  BY DEF indexNonce
<1>3. CASE h \in R
  BY <1>1, <1>2, <1>3
<1>4. CASE h \notin R
  BY <1>1, <1>2, <1>4
<1> QED
  BY <1>3, <1>4

\* Transactions that stop being pending leave the index by unindexNonce.
LEMMA UnindexKeepsExact ==
    ASSUME NEW bn \in [Slot -> [Hash -> Nat]],
           NEW old \in [Hash -> Tx], NEW new \in [Hash -> Tx], NEW R \in SUBSET Hash,
           Exact(old, bn),
           \A h \in R : new[h].state # "pending",
           \A h \in Hash \ R : new[h] = old[h]
    PROVE  Exact(new, unindexNonce(bn, old, R))
<1> SUFFICES ASSUME NEW s \in Slot, NEW h \in Hash
             PROVE  unindexNonce(bn, old, R)[s][h] =
                      IF new[h].state = "pending" /\ new[h].hasNonce /\ SlotOf[h] = s
                      THEN 1 ELSE 0
  BY DEF Exact
<1>1. bn[s][h] = IF old[h].state = "pending" /\ old[h].hasNonce /\ SlotOf[h] = s
                 THEN 1 ELSE 0
  BY DEF Exact
<1>2. unindexNonce(bn, old, R)[s][h] =
        IF h \in R /\ old[h].hasNonce /\ SlotOf[h] = s /\ bn[s][h] > 0
        THEN bn[s][h] - 1 ELSE bn[s][h]
  BY DEF unindexNonce
<1>3. CASE h \in R
  BY <1>1, <1>2, <1>3
<1>4. CASE h \notin R
  BY <1>1, <1>2, <1>4
<1> QED
  BY <1>3, <1>4

\* Burials keep the memory's type and name every member of R but the evicted.
LEMMA BuryType ==
    ASSUME NEW m \in Memory, NEW R, NEW typ \in Terminal, NEW E
    PROVE  Bury(m, R, typ, E) \in Memory
BY DEF Bury, Memory

\* Revoking an ending keeps the memory's type.
LEMMA ExhumeType ==
    ASSUME NEW m \in Memory, NEW h \in Hash
    PROVE  Exhume(m, h) \in Memory
BY DEF Exhume, Memory

\* Events carry a hash of the set they were asked for, and the given type.
LEMMA EventsNamed ==
    ASSUME NEW txs, NEW R \in SUBSET Hash, NEW typ \in EventType, NEW conf, NEW by
    PROVE  Named(events(txs, R, typ, conf, by))
BY DEF Named, events

\* The absent entry is a transaction record.
LEMMA NoTxType == NoTx \in Tx
BY DEF NoTx, Tx

\* Forgetting R leaves the rest of the map alone.
LEMMA ForgetKeeps ==
    ASSUME NEW txs \in [Hash -> Tx], NEW R
    PROVE  /\ Forget(txs, R) \in [Hash -> Tx]
           /\ Absent(txs) => Absent(Forget(txs, R))
           /\ Founded(txs) => Founded(Forget(txs, R))
           /\ \A h \in R \cap Hash : Forget(txs, R)[h] = NoTx
           /\ \A h \in Hash \ R : Forget(txs, R)[h] = txs[h]
<1>1. Forget(txs, R) \in [Hash -> Tx]
  BY NoTxType DEF Forget
<1>2. /\ \A h \in R \cap Hash : Forget(txs, R)[h] = NoTx
      /\ \A h \in Hash \ R : Forget(txs, R)[h] = txs[h]
  BY DEF Forget
<1>3. NoTx.state = "none"
  BY DEF NoTx
<1> QED
  BY <1>1, <1>2, <1>3 DEF Absent, Founded

(***************************************************************************)
(* Ending the transactions of R: they leave the map and the index, and     *)
(* their ending is remembered.                                             *)
(***************************************************************************)
End(st, R, typ, E) ==
    [txs |-> Forget(st.txs, R),
     byNonce |-> unindexNonce(st.byNonce, st.txs, R),
     tombstones |-> Bury(st.tombstones, R, typ, E)]

\* Ending transactions keeps the invariants.
LEMMA EndGood ==
    ASSUME NEW st, Good(st), NEW R \in SUBSET Hash, NEW typ \in Terminal, NEW E
    PROVE  Good(End(st, R, typ, E))
<1> DEFINE new == Forget(st.txs, R)
           bn  == unindexNonce(st.byNonce, st.txs, R)
           m   == Bury(st.tombstones, R, typ, E)
<1>1. /\ st.txs \in [Hash -> Tx]
      /\ st.byNonce \in [Slot -> [Hash -> Nat]]
      /\ st.tombstones \in Memory
  BY DEF Good, TrackerState
<1>2. /\ new \in [Hash -> Tx] /\ Absent(new) /\ Founded(new)
      /\ \A h \in R : new[h] = NoTx
      /\ \A h \in Hash \ R : new[h] = st.txs[h]
  BY <1>1, ForgetKeeps DEF Good
<1>3. bn \in [Slot -> [Hash -> Nat]]
  BY <1>1, IndexType
<1>4. m \in Memory
  BY <1>1, BuryType
<1>5. \A h \in R : new[h].state = "none"
  BY <1>2 DEF NoTx
<1>6. Exact(new, bn)
  BY <1>1, <1>2, <1>5, UnindexKeepsExact DEF Good
<1>7. Apart(new, m)
  <2> SUFFICES ASSUME NEW h \in Hash, new[h].state # "none", m[h] # "none"
               PROVE  new[h].state = "pending" /\ m[h] = "dropped"
    BY DEF Apart
  <2>1. h \notin R
    BY <1>5
  <2>2. m[h] = st.tombstones[h]
    BY <2>1 DEF Bury
  <2> QED
    BY <1>2, <2>1, <2>2 DEF Good, Apart
<1> HIDE DEF new, bn, m
<1>8. Good([txs |-> new, byNonce |-> bn, tombstones |-> m])
  BY <1>2, <1>3, <1>4, <1>6, <1>7 DEF Good, TrackerState
<1> QED
  BY <1>8 DEF End, new, bn, m

-----------------------------------------------------------------------------
(* The methods *)

\* OnPending starts following a transaction with at least one leg.
LEMMA OnPendingSound ==
    ASSUME NEW st, Good(st), NEW h \in Hash, NEW matches \in SUBSET LegKind
    PROVE  Sound(OnPending(st, h, matches))
<1> DEFINE txs == [st.txs EXCEPT ![h] = PendingTx(matches)]
           bn  == indexNonce(st.byNonce, txs, {h})
<1>1. CASE matches = {} \/ ~Refollows(st, h)
  BY <1>1 DEF OnPending, Unheard, Sound, Named
<1>2. CASE matches # {} /\ Refollows(st, h)
  <2>1. /\ st.txs \in [Hash -> Tx]
        /\ st.byNonce \in [Slot -> [Hash -> Nat]]
        /\ st.tombstones \in Memory
    BY DEF Good, TrackerState
  <2>2. /\ PendingTx(matches) \in Tx
        /\ PendingTx(matches).state = "pending"
        /\ PendingTx(matches).legs = matches
    BY DEF PendingTx, Tx, NoTx
  <2>3. /\ txs \in [Hash -> Tx] /\ txs[h] = PendingTx(matches)
        /\ \A g \in Hash \ {h} : txs[g] = st.txs[g]
    BY <2>1, <2>2
  <2>4. st.txs[h].state = "none" /\ st.tombstones[h] \in {"none", "dropped"}
    BY <1>2 DEF Refollows, Tracked
  <2>5. bn \in [Slot -> [Hash -> Nat]]
    BY <2>1, <2>3, IndexType
  <2> HIDE DEF txs
  <2>6. Exact(txs, bn)
    BY <2>1, <2>2, <2>3, <2>4, IndexKeepsExact DEF Good
  <2> HIDE DEF bn
  <2>7. Absent(txs) /\ Founded(txs)
    BY <1>2, <2>2, <2>3 DEF Absent, Founded, Good
  <2>8. Apart(txs, st.tombstones)
    BY <2>2, <2>3, <2>4 DEF Apart, Good
  <2>9. OnPending(st, h, matches) =
          [t |-> [st EXCEPT !.txs = txs, !.byNonce = bn],
           evs |-> events(txs, {h}, "pending", 0, {})]
    BY <1>2 DEF OnPending, txs, bn, Good, TrackerState
  <2>10. Good([st EXCEPT !.txs = txs, !.byNonce = bn])
    BY <2>1, <2>3, <2>5, <2>6, <2>7, <2>8 DEF Good, TrackerState
  <2>11. Named(events(txs, {h}, "pending", 0, {}))
    BY EventsNamed DEF EventType, Terminal
  <2> QED
    BY <2>9, <2>10, <2>11 DEF Sound
<1> QED
  BY <1>1, <1>2

\* OnNonceUsed ends the pending occupants of a slot as replaced.
LEMMA OnNonceUsedSound ==
    ASSUME NEW st, Good(st), NEW s \in Slot, NEW by, NEW E
    PROVE  Sound(OnNonceUsed(st, s, by, E))
<1> DEFINE R == ReplacedOccupants(st, s, by)
<1>1. R \in SUBSET Hash
  BY DEF ReplacedOccupants
<1>2. OnNonceUsed(st, s, by, E) = [t |-> End(st, R, "replaced", E),
                                   evs |-> events(st.txs, R, "replaced", 0, {by})]
  BY DEF OnNonceUsed, End
<1> HIDE DEF R
<1>3. Good(End(st, R, "replaced", E))
  BY <1>1, EndGood DEF Terminal
<1>4. Named(events(st.txs, R, "replaced", 0, {by}))
  BY <1>1, EventsNamed DEF EventType, Terminal
<1> QED
  BY <1>2, <1>3, <1>4 DEF Sound

\* OnDropStale resets the timer or ends a pending transaction as dropped.
LEMMA OnDropStaleSound ==
    ASSUME NEW st, Good(st), NEW h \in Hash, NEW known \in BOOLEAN, NEW E
    PROVE  Sound(OnDropStale(st, h, known, E))
<1>1. CASE ~IsPending(st, h)
  BY <1>1 DEF OnDropStale, Unheard, Sound, Named
<1>2. CASE IsPending(st, h) /\ known
  <2> DEFINE txs == [st.txs EXCEPT ![h].stale = FALSE]
  <2>1. /\ st.txs \in [Hash -> Tx]
        /\ st.byNonce \in [Slot -> [Hash -> Nat]]
        /\ st.tombstones \in Memory
    BY DEF Good, TrackerState
  <2>2. /\ txs \in [Hash -> Tx]
        /\ \A g \in Hash : /\ txs[g].state = st.txs[g].state
                           /\ txs[g].hasNonce = st.txs[g].hasNonce
                           /\ txs[g].legs = st.txs[g].legs
                           /\ txs[g].auth = st.txs[g].auth
                           /\ txs[g].block = st.txs[g].block
                           /\ txs[g].firstSeenBlock = st.txs[g].firstSeenBlock
        /\ \A g \in Hash : txs[g].state = "none" => txs[g] = st.txs[g]
    BY ZenonT(40), <1>2, <2>1 DEF Tx, IsPending
  <2> HIDE DEF txs
  <2>3. Exact(txs, st.byNonce) /\ Absent(txs) /\ Founded(txs) /\ Apart(txs, st.tombstones)
    BY <2>2 DEF Good, Exact, Absent, Founded, Apart
  <2>4. OnDropStale(st, h, known, E) = [t |-> [st EXCEPT !.txs = txs], evs |-> {}]
    BY <1>2 DEF OnDropStale, Unheard, txs, Good, TrackerState
  <2> QED
    BY <2>1, <2>2, <2>3, <2>4 DEF Good, TrackerState, Sound, Named
<1>3. CASE IsPending(st, h) /\ ~known
  <2>1. OnDropStale(st, h, known, E) =
          [t |-> End(st, {h}, "dropped", E), evs |-> events(st.txs, {h}, "dropped", 0, {})]
    BY <1>3 DEF OnDropStale, End
  <2>2. Good(End(st, {h}, "dropped", E))
    BY EndGood DEF Terminal
  <2>3. Named(events(st.txs, {h}, "dropped", 0, {}))
    BY EventsNamed DEF EventType, Terminal
  <2> QED
    BY <2>1, <2>2, <2>3 DEF Sound
<1> QED
  BY <1>1, <1>2, <1>3

\* Demotion makes mined transactions pending again.
LEMMA DemoteAllSound ==
    ASSUME NEW st, Good(st), NEW R \in SUBSET Hash, \A h \in R : IsMined(st, h)
    PROVE  Sound(DemoteAll(st, R))
<1> DEFINE txs == [h \in Hash |-> IF h \in R THEN DemotedTx(st.txs[h]) ELSE st.txs[h]]
           bn  == indexNonce(st.byNonce, txs, R)
<1>1. /\ st.txs \in [Hash -> Tx]
      /\ st.byNonce \in [Slot -> [Hash -> Nat]]
      /\ st.tombstones \in Memory
  BY DEF Good, TrackerState
<1>2. \A h \in Hash : /\ DemotedTx(st.txs[h]) \in Tx
                      /\ DemotedTx(st.txs[h]).state = "pending"
                      /\ DemotedTx(st.txs[h]).legs = st.txs[h].legs
  <2> SUFFICES ASSUME NEW h \in Hash
               PROVE  /\ DemotedTx(st.txs[h]) \in Tx
                      /\ DemotedTx(st.txs[h]).state = "pending"
                      /\ DemotedTx(st.txs[h]).legs = st.txs[h].legs
    OBVIOUS
  <2>1. st.txs[h] \in Tx
    BY <1>1
  <2> QED
    BY <2>1 DEF DemotedTx, Tx
<1>3. /\ txs \in [Hash -> Tx]
      /\ \A h \in R : txs[h] = DemotedTx(st.txs[h])
      /\ \A h \in Hash \ R : txs[h] = st.txs[h]
  BY <1>1, <1>2
<1>4. bn \in [Slot -> [Hash -> Nat]]
  BY <1>1, <1>3, IndexType
<1> HIDE DEF txs
<1>5. \A h \in R : st.txs[h].state = "mined" /\ txs[h].state = "pending"
                   /\ txs[h].legs = st.txs[h].legs
  BY <1>2, <1>3 DEF IsMined
<1>6. Exact(txs, bn)
  BY <1>1, <1>3, <1>5, IndexKeepsExact DEF Good
<1> HIDE DEF bn
<1>7. Absent(txs) /\ Founded(txs)
  BY <1>3, <1>5 DEF Absent, Founded, Good
<1>8. Apart(txs, st.tombstones)
  BY <1>3, <1>5 DEF Apart, Good
<1>9. DemoteAll(st, R) = [t |-> [st EXCEPT !.txs = txs, !.byNonce = bn],
                          evs |-> events(st.txs, R, "reorged", 0, {})]
  BY DEF DemoteAll, txs, bn, Good, TrackerState
<1>10. Good([st EXCEPT !.txs = txs, !.byNonce = bn])
  BY <1>1, <1>3, <1>4, <1>6, <1>7, <1>8 DEF Good, TrackerState
<1>11. Named(events(st.txs, R, "reorged", 0, {}))
  BY EventsNamed DEF EventType, Terminal
<1> QED
  BY <1>9, <1>10, <1>11 DEF Sound

\* OnReorg demotes what was mined above the ancestor.
LEMMA OnReorgSound ==
    ASSUME NEW st, Good(st), NEW ancestor
    PROVE  Sound(OnReorg(st, ancestor))
BY DemoteAllSound DEF OnReorg, AboveAncestor

\* Demote demotes one transaction, or does nothing.
LEMMA DemoteSound ==
    ASSUME NEW st, Good(st), NEW h \in Hash
    PROVE  Sound(Demote(st, h))
<1>1. CASE IsMined(st, h)
  BY <1>1, DemoteAllSound DEF Demote
<1>2. CASE ~IsMined(st, h)
  BY <1>2 DEF Demote, Unheard, Sound, Named
<1> QED
  BY <1>1, <1>2

\* Confirm ends a mined transaction, which is in no slot's list.
LEMMA ConfirmSound ==
    ASSUME NEW st, Good(st), NEW h \in Hash, NEW head, NEW E
    PROVE  Sound(Confirm(st, h, head, E))
<1>1. CASE ~IsMined(st, h) \/ head < st.txs[h].num
  BY <1>1 DEF Confirm, Unheard, Sound, Named
<1>2. CASE IsMined(st, h) /\ ~(head < st.txs[h].num)
  <2> DEFINE bn == unindexNonce(st.byNonce, st.txs, {h})
  <2>1. /\ st.txs \in [Hash -> Tx]
        /\ st.byNonce \in [Slot -> [Hash -> Nat]]
        /\ st.tombstones \in Memory
    BY DEF Good, TrackerState
  <2>2. \A s \in Slot : st.byNonce[s][h] = 0
    BY <1>2 DEF Good, Exact, IsMined
  <2>3. bn = st.byNonce
    <3>1. \A s \in Slot, g \in Hash : bn[s][g] = st.byNonce[s][g]
      BY <2>1, <2>2 DEF unindexNonce
    <3>2. bn \in [Slot -> [Hash -> Nat]]
      BY <2>1, IndexType
    <3> HIDE DEF bn
    <3> QED
      BY <2>1, <3>1, <3>2
  <2>4. Confirm(st, h, head, E).t = End(st, {h}, "confirmed", E)
    BY <1>2, <2>3 DEF Confirm, End, Good, TrackerState
  <2>5. Good(End(st, {h}, "confirmed", E))
    BY EndGood DEF Terminal
  <2>6. Confirm(st, h, head, E).evs =
          events(st.txs, {h}, "confirmed", DepthAt(head, st.txs[h].num), {})
    BY <1>2 DEF Confirm
  <2>7. Named(Confirm(st, h, head, E).evs)
    BY <2>6, EventsNamed DEF EventType, Terminal
  <2> QED
    BY <2>4, <2>5, <2>7 DEF Sound
<1> QED
  BY <1>1, <1>2

\* A transaction found in a block, before its verdict.
LEMMA MinedTxFields ==
    ASSUME NEW tx \in Tx, NEW b \in Block, NEW n \in Nat \ {0},
           NEW transfers \in SUBSET LegKind
    PROVE  /\ MinedTx(tx, b, n, transfers) \in Tx
           /\ MinedTx(tx, b, n, transfers).state = "mined"
           /\ MinedTx(tx, b, n, transfers).block = b
           /\ MinedTx(tx, b, n, transfers).firstSeenBlock > 0
           /\ MinedTx(tx, b, n, transfers).auth = (tx.auth \/ transfers # {})
           /\ MinedTx(tx, b, n, transfers).legs =
                IF transfers # {} THEN transfers ELSE tx.legs
<1> DEFINE auth == tx.auth \/ transfers # {}
           legs == IF transfers # {} THEN transfers ELSE tx.legs
           seen == IF tx.firstSeenBlock = 0 THEN n ELSE tx.firstSeenBlock
<1>1. MinedTx(tx, b, n, transfers) =
        [state |-> "mined", block |-> b, num |-> n, legs |-> legs, auth |-> auth,
         hasNonce |-> tx.hasNonce, firstSeenBlock |-> seen, stale |-> FALSE]
  BY DEF MinedTx
<1>2. auth \in BOOLEAN /\ legs \in SUBSET LegKind /\ seen \in Nat \ {0}
      /\ tx.hasNonce \in BOOLEAN
  BY DEF Tx
<1> HIDE DEF auth, legs, seen
<1>3. MinedTx(tx, b, n, transfers) \in Tx
  BY <1>1, <1>2 DEF Tx
<1>4. /\ MinedTx(tx, b, n, transfers).state = "mined"
      /\ MinedTx(tx, b, n, transfers).block = b
      /\ MinedTx(tx, b, n, transfers).firstSeenBlock = seen
      /\ MinedTx(tx, b, n, transfers).legs = legs
      /\ MinedTx(tx, b, n, transfers).auth = auth
  BY <1>1
<1>5. seen > 0
  BY <1>2
<1> QED
  BY <1>3, <1>4, <1>5, Zenon DEF auth, legs

\* OnMined revokes an ending, moves the transaction into its block and, by
\* the verdict, keeps following it or ends it.
LEMMA OnMinedSound ==
    ASSUME NEW st, Good(st), NEW h \in Hash, NEW b \in Block, NEW n \in Nat \ {0},
           NEW transfers \in SUBSET LegKind, NEW failed \in BOOLEAN,
           NEW conf, NEW fin, NEW E
    PROVE  Sound(OnMined(st, h, b, n, transfers, failed, conf, fin, E))
<1> DEFINE memory  == Exhume(st.tombstones, h)
           tx      == MinedTx(st.txs[h], b, n, transfers)
           txs     == [st.txs EXCEPT ![h] = tx]
           bn      == IF IsMined(st, h) THEN st.byNonce
                      ELSE unindexNonce(st.byNonce, st.txs, {h})
           depth   == IF conf = 0 THEN 1 ELSE conf
           verdict == Verdict(tx, failed, depth, fin)
           r       == OnMined(st, h, b, n, transfers, failed, conf, fin, E)
<1>1. /\ st.txs \in [Hash -> Tx]
      /\ st.byNonce \in [Slot -> [Hash -> Nat]]
      /\ st.tombstones \in Memory
  BY DEF Good, TrackerState
<1>2. /\ memory \in Memory /\ memory[h] = "none"
      /\ \A g \in Hash \ {h} : memory[g] = st.tombstones[g]
  BY <1>1, ExhumeType DEF Exhume, Memory
<1>3. /\ tx \in Tx /\ tx.state = "mined" /\ tx.block = b /\ tx.firstSeenBlock > 0
      /\ tx.auth = (st.txs[h].auth \/ transfers # {})
      /\ tx.legs = IF transfers # {} THEN transfers ELSE st.txs[h].legs
  <2>1. st.txs[h] \in Tx
    BY <1>1
  <2> DEFINE old == st.txs[h]
  <2>2. old \in Tx
    BY <2>1
  <2> HIDE DEF old
  <2>3. /\ MinedTx(old, b, n, transfers) \in Tx
        /\ MinedTx(old, b, n, transfers).state = "mined"
        /\ MinedTx(old, b, n, transfers).block = b
        /\ MinedTx(old, b, n, transfers).firstSeenBlock > 0
    BY <2>2, MinedTxFields
  <2>4. MinedTx(old, b, n, transfers).auth = (old.auth \/ transfers # {})
    BY <2>2, MinedTxFields
  <2>5. MinedTx(old, b, n, transfers).legs =
            IF transfers # {} THEN transfers ELSE old.legs
    BY <2>2, MinedTxFields
  <2> QED
    BY <2>3, <2>4, <2>5 DEF old
<1>4. st.txs[h].auth => st.txs[h].legs # {}
  <2>1. CASE st.txs[h].state = "none"
    BY <2>1 DEF Good, Absent, NoTx
  <2>2. CASE st.txs[h].state # "none"
    BY <2>2 DEF Good, Founded
  <2> QED
    BY <2>1, <2>2
<1>5. tx.auth => tx.legs # {}
  BY <1>3, <1>4
<1> HIDE DEF tx
<1>6. /\ txs \in [Hash -> Tx] /\ txs[h] = tx
      /\ \A g \in Hash \ {h} : txs[g] = st.txs[g]
  BY <1>1, <1>3
<1>7. bn \in [Slot -> [Hash -> Nat]]
  BY <1>1, IndexType
<1>8. \A new \in [Hash -> Tx] :
        new[h].state # "pending" /\ (\A g \in Hash \ {h} : new[g] = st.txs[g])
          => Exact(new, bn)
  <2> SUFFICES ASSUME NEW new \in [Hash -> Tx], new[h].state # "pending",
                      \A g \in Hash \ {h} : new[g] = st.txs[g]
               PROVE  Exact(new, bn)
    OBVIOUS
  <2>1. CASE IsMined(st, h)
    BY <1>1, <2>1 DEF Good, Exact, IsMined
  <2>2. CASE ~IsMined(st, h)
    BY <1>1, <2>2, UnindexKeepsExact DEF Good
  <2> QED
    BY <2>1, <2>2
<1> HIDE DEF txs, bn, memory
<1>9. CASE st.tombstones[h] = "confirmed"
  BY <1>9 DEF OnMined, Unheard, Sound, Named
<1>10. CASE /\ st.tombstones[h] # "confirmed"
            /\ IsMined(st, h) /\ st.txs[h].block = b
  <2>1. r = [t |-> [st EXCEPT !.tombstones = memory], evs |-> {}]
    BY <1>10 DEF OnMined, Unheard, memory
  <2>2. Apart(st.txs, memory)
    BY <1>2 DEF Apart, Good
  <2> QED
    BY <1>1, <1>2, <2>1, <2>2 DEF Good, TrackerState, Sound, Named
<1>11. CASE /\ st.tombstones[h] # "confirmed"
            /\ ~(IsMined(st, h) /\ st.txs[h].block = b)
            /\ verdict = "mined"
  <2>1. r = [t |-> [txs |-> txs, byNonce |-> bn, tombstones |-> memory],
             evs |-> events(txs, {h}, "mined", depth, {})]
    BY <1>11 DEF OnMined, memory, tx, txs, bn
  <2>2. tx.auth
    BY <1>11 DEF Verdict
  <2>3. Exact(txs, bn)
    BY <1>3, <1>6, <1>8
  <2>4. Absent(txs) /\ Founded(txs)
    BY <1>3, <1>5, <1>6, <2>2, BlockAssumption DEF Absent, Founded, Good
  <2>5. Apart(txs, memory)
    BY <1>2, <1>3, <1>6 DEF Apart, Good
  <2>6. Named(events(txs, {h}, "mined", depth, {}))
    BY EventsNamed DEF EventType, Terminal
  <2> QED
    BY <1>2, <1>6, <1>7, <2>1, <2>3, <2>4, <2>5, <2>6 DEF Good, TrackerState, Sound
<1>12. CASE /\ st.tombstones[h] # "confirmed"
            /\ ~(IsMined(st, h) /\ st.txs[h].block = b)
            /\ verdict # "mined"
  <2> DEFINE typ == IF verdict = "confirmed" THEN verdict ELSE "failed"
             new == Forget(txs, {h})
             m   == Bury(memory, {h}, typ, E)
             told == IF verdict = "unfounded" THEN {}
                     ELSE events(txs, {h}, verdict, depth, {})
  <2>1. r = [t |-> [txs |-> new, byNonce |-> bn, tombstones |-> m], evs |-> told]
    BY <1>12 DEF OnMined, memory, tx, txs, bn
  <2>2. /\ new \in [Hash -> Tx] /\ new[h] = NoTx
        /\ \A g \in Hash \ {h} : new[g] = st.txs[g]
    BY <1>6, ForgetKeeps
  <2>3. NoTx.state = "none"
    BY DEF NoTx
  <2>4. m \in Memory
    BY <1>2, BuryType DEF Terminal
  <2>5. \A g \in Hash \ {h} : m[g] \in {"none", st.tombstones[g]}
    BY <1>2 DEF Bury
  <2>6. verdict \in {"failed", "unfounded", "confirmed"}
    BY <1>12 DEF Verdict
  <2>7. Named(told)
    BY <2>6, EventsNamed DEF Named, EventType, Terminal
  <2> HIDE DEF new, m, told
  <2>8. Exact(new, bn)
    BY <1>8, <2>2, <2>3
  <2>9. Absent(new) /\ Founded(new)
    BY <2>2, <2>3 DEF Absent, Founded, Good
  <2>10. Apart(new, m)
    BY <2>2, <2>3, <2>5 DEF Apart, Good
  <2> QED
    BY <1>7, <2>1, <2>2, <2>4, <2>7, <2>8, <2>9, <2>10 DEF Good, TrackerState, Sound
<1> QED
  BY <1>9, <1>10, <1>11, <1>12

\* Setting the timer flag of followed transactions disturbs nothing else.
LEMMA TimerGood ==
    ASSUME NEW st, Good(st), NEW txs \in [Hash -> Tx],
           \A h \in Hash : /\ txs[h].state = st.txs[h].state
                           /\ txs[h].hasNonce = st.txs[h].hasNonce
                           /\ txs[h].legs = st.txs[h].legs
                           /\ txs[h].auth = st.txs[h].auth
                           /\ st.txs[h].state = "mined" => txs[h].block = st.txs[h].block
                           /\ txs[h].firstSeenBlock = st.txs[h].firstSeenBlock
                           /\ st.txs[h].state = "none" => txs[h] = st.txs[h]
    PROVE  Exact(txs, st.byNonce) /\ Absent(txs) /\ Founded(txs)
           /\ Apart(txs, st.tombstones)
BY DEF Good, Exact, Absent, Founded, Apart

\* The row of a transaction as a restart reads it back; the timers of `old'
\* have run out.
RowOf(st, old, h) == [ExportTx(st, h) EXCEPT !.stale = @ \/ h \in old]

\* A row keeps all of a followed transaction but the timer, and the block of a
\* mined one.
LEMMA RowFields ==
    ASSUME NEW st, Good(st), NEW old \in SUBSET {g \in Hash : IsPending(st, g)},
           NEW h \in Hash
    PROVE  /\ RowOf(st, old, h) \in Tx
           /\ RowOf(st, old, h).state = st.txs[h].state
           /\ RowOf(st, old, h).legs = st.txs[h].legs
           /\ RowOf(st, old, h).auth = st.txs[h].auth
           /\ RowOf(st, old, h).firstSeenBlock = st.txs[h].firstSeenBlock
           /\ st.txs[h].state = "mined" => RowOf(st, old, h).block = st.txs[h].block
           /\ st.txs[h].state = "none" => RowOf(st, old, h) = st.txs[h]
<1> DEFINE row == RowOf(st, old, h)
<1>1. st.txs[h] \in Tx
  BY DEF Good, TrackerState
<1>2. ExportTx(st, h) =
        [st.txs[h] EXCEPT !.block = IF IsPending(st, h) THEN NoBlock ELSE @]
  BY <1>1 DEF ExportTx, Tx
<1>3. row = [ExportTx(st, h) EXCEPT !.stale = @ \/ h \in old]
  BY DEF RowOf
<1> HIDE DEF row
<1>4. ExportTx(st, h) \in Tx
  BY <1>1, <1>2 DEF Tx
<1>5. (ExportTx(st, h).stale \/ h \in old) \in BOOLEAN
  OBVIOUS
<1>6. row \in Tx
  BY <1>3, <1>4, <1>5 DEF Tx
<1>7. /\ row.state = ExportTx(st, h).state
      /\ row.legs = ExportTx(st, h).legs
      /\ row.auth = ExportTx(st, h).auth
      /\ row.hasNonce = ExportTx(st, h).hasNonce
      /\ row.firstSeenBlock = ExportTx(st, h).firstSeenBlock
      /\ row.block = ExportTx(st, h).block
      /\ row.num = ExportTx(st, h).num
  BY <1>3, <1>4 DEF Tx
<1>8. /\ ExportTx(st, h).state = st.txs[h].state
      /\ ExportTx(st, h).legs = st.txs[h].legs
      /\ ExportTx(st, h).auth = st.txs[h].auth
      /\ ExportTx(st, h).hasNonce = st.txs[h].hasNonce
      /\ ExportTx(st, h).firstSeenBlock = st.txs[h].firstSeenBlock
      /\ st.txs[h].state # "pending" => ExportTx(st, h) = st.txs[h]
  BY <1>1, <1>2 DEF Tx, IsPending, ExportTx
<1>9. st.txs[h].state = "none" => row = st.txs[h]
  <2> SUFFICES ASSUME st.txs[h].state = "none" PROVE row = st.txs[h]
    OBVIOUS
  <2>1. h \notin old
    BY DEF IsPending
  <2>2. ExportTx(st, h) = st.txs[h] /\ st.txs[h].stale = FALSE
    BY <1>8 DEF Good, Absent, NoTx
  <2>3. row = [st.txs[h] EXCEPT !.stale = FALSE]
    BY <1>3, <2>1, <2>2
  <2> QED
    BY <1>1, <2>2, <2>3 DEF Tx
<1> QED
  BY <1>6, <1>7, <1>8, <1>9 DEF row

\* A new process imports the rows of the old one's followed transactions.
LEMMA ImportGood ==
    ASSUME NEW rows \in [Hash -> Tx], Absent(rows), Founded(rows)
    PROVE  Good(Import(rows))
<1> DEFINE R  == {h \in Hash : rows[h].state = "pending"}
           zero == [s \in Slot |-> [h \in Hash |-> 0]]
           blank == [h \in Hash |-> IF h \in R THEN NoTx ELSE rows[h]]
           bn == indexNonce(zero, rows, R)
<1>1. zero \in [Slot -> [Hash -> Nat]] /\ NoMemory \in Memory
  BY DEF NoMemory, Memory
<1>2. blank \in [Hash -> Tx]
  BY NoTxType
<1>3. Exact(blank, zero)
  BY DEF Exact, NoTx
<1>4. /\ R \in SUBSET Hash
      /\ \A h \in R : blank[h].state # "pending" /\ rows[h].state = "pending"
      /\ \A h \in Hash \ R : rows[h] = blank[h]
  BY DEF NoTx
<1>5. bn \in [Slot -> [Hash -> Nat]]
  BY <1>1, IndexType
<1> HIDE DEF R, zero, blank
<1>6. Exact(rows, bn)
  BY <1>1, <1>2, <1>3, <1>4, IndexKeepsExact
<1>7. Apart(rows, NoMemory)
  BY DEF Apart, NoMemory
<1>8. Import(rows) = [txs |-> rows, byNonce |-> bn, tombstones |-> NoMemory]
  BY DEF Import, NewTracker, R, zero
<1> HIDE DEF bn
<1> QED
  BY <1>1, <1>5, <1>6, <1>7, <1>8 DEF Good, TrackerState

=============================================================================
