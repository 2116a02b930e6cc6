---------------------------- MODULE IndexerProofs ----------------------------
(***************************************************************************)
(* Proofs about the indexer, for any transactions, bodies, chains, ring,   *)
(* thresholds, switches and bounds, in depth and in tag mode.              *)
(*                                                                         *)
(* TrackedIsStored is not inductive.  A crash rebuilds the tracker from    *)
(* the rows, so the rows in flight must be ones a tracker can start from   *)
(* (SaneRows); a method reports whatever it changes only in a tracker whose*)
(* indexes are right (Good); a report is stored only if the legs fit the   *)
(* rows' key (Clear, RowsClear); and a row that is not in step is listed   *)
(* in `missed'.  The types say where a handler may be, so that the block   *)
(* it processes exists.                                                    *)
(*                                                                         *)
(* A handler reports method by method in loops over sets.  Handled is what *)
(* such a loop keeps: the state under way differs from the rows the step   *)
(* began with only in transactions it has reported, and every one of these *)
(* and of those in step before is in step.  The loops are folds:           *)
(* QueueLemmas has their induction, a lemma ...Within the body of each.    *)
(*                                                                         *)
(* Five theorems hold of some nodes only and need more.  DepthReached, by  *)
(* depth, needs a head that is never lower than before: Low says that the  *)
(* ring, the saved headers, the announced heads and the handlers' numbers  *)
(* are all at or below it.  NoSkippedHeight needs a chain that only grows: *)
(* HInv says that whatever is held is of the node's chain, that announced  *)
(* heads rise above whatever was taken, and how much of its range each     *)
(* handler has scanned.  FinalKept needs finality that decides against no  *)
(* block still to be handled: FInv says that these agree with the chain as *)
(* far as it is final, that mined rows carry their block's number, and     *)
(* that confirmed ones are of the final part.  RingLinked and ReachesHead, *)
(* of a chain that reorgs above the ring's floor: RInv says that the       *)
(* headers up to the tip are ancestors of one block, or, in a rescan, how  *)
(* far up they are the node's; that every head that waits is at most one   *)
(* above the one before it and not of its chain, and the last the node's;  *)
(* and that the tip is the node's head, or the next head is not of its     *)
(* chain, or a head is to come that follows it.                            *)
(***************************************************************************)
EXTENDS Indexer, TrackerOpsProofs, QueueLemmas

-----------------------------------------------------------------------------
(* The inductive invariant *)

Heights == 1..Bound.height

HeaderRef == [num : Heights, hash : Block]
Ring == [refs : [0..(RingSize - 1) -> HeaderRef \cup {NoRef}], tip : HeaderRef \cup {NoRef}]

RowType == [status : EventType \cup {"none"}, tx : Tx]

\* Where a handler may be.
FillWork == [pc : {"fill"}, n : 0..Bound.height, from : 1..(Bound.height + 1),
             highest : Heights]
AfterLife == {Idle} \cup FillWork
Work ==
    AfterLife
    \cup [pc : {"extend"}, head : Block]
    \cup [pc : {"extended"}, head : Heights]
    \cup [pc : {"catchup"}, head : Block, from : 1..(Bound.height + 1)]
    \cup {w \in [pc : {"drain"}, g : Heights, to : Heights, past : SUBSET Block, fill : FillWork] :
             w.g <= w.to}
    \cup [pc : {"walk"}, head : Heights, from : 0..Bound.height]
    \cup [pc : {"rescan"}, n : 1..(Bound.height + 1), to : Heights]
    \cup [pc : {"life"}, head : Heights, floor : 0..Bound.height, next : AfterLife]
    \cup [pc : {"recheck", "lookup"}, hashes : SUBSET Hash, next : AfterLife]

ChainType == /\ chain \in Block /\ ValidChain(chain)
             /\ final \in Nat /\ fin \in 0..final /\ final <= Len(chain)
QueueType == heads \in Seq(Block) /\ views \in SUBSET Block
WorkType == work \in Work /\ conn \in BOOLEAN /\ (~conn => work = Idle /\ heads = <<>>)
MemoryType == /\ c \in Ring /\ restored \in SUBSET Hash
              /\ last \in 0..Bound.height /\ base \in 0..Bound.height
SavedType == saved \in [last : 0..Bound.height, refs : SUBSET HeaderRef]

Types == ChainType /\ QueueType /\ WorkType /\ MemoryType /\ SavedType

\* A row in flight is one a tracker can start from.
Sane(r) ==
    r.status \in {"pending", "mined"} =>
        /\ r.tx.state = r.status /\ r.tx.legs # {}
        /\ r.status = "pending" => r.tx.block = NoBlock
        /\ r.status = "mined" => r.tx.auth /\ r.tx.block # NoBlock /\ r.tx.firstSeenBlock > 0

SaneRows(rs) == rs \in [Hash -> RowType] /\ \A h \in Hash : Sane(rs[h])

\* No transaction has both legs that are stored without a log index.
Keyed == \A h \in Hash : Storable(CallLegs[h])
Clear(st) == \A h \in Hash : Storable(st.txs[h].legs)
RowsClear(rs) == \A h \in Hash : rs[h].status \in {"pending", "mined"} => Storable(rs[h].tx.legs)

Row(st, h, r) == /\ r.status = st.txs[h].state
                 /\ r.tx = [ExportTx(st, h) EXCEPT !.stale = r.tx.stale]

Stored == /\ Good(t) /\ SaneRows(db)
          /\ Keyed => Clear(t) /\ RowsClear(db) /\ TrackedIsStored

IInv == Types /\ Stored

-----------------------------------------------------------------------------
(* What a method reports *)

SameTx(x, y) == x = [y EXCEPT !.stale = x.stale]
About(E, h) == \E e \in E : e.hash = h

\* Whatever changes, but for a timer, is reported, and only endings are
\* reported of what is no longer followed.
Reports(st, r) ==
    /\ \A e \in r.evs : /\ e.typ \in EventType /\ e.hash \in Hash /\ e.tx \in Tx
                        /\ ~Tracked(r.t, e.hash) => e.typ \in Terminal
    /\ \A h \in Hash : Tracked(r.t, h) /\ ~About(r.evs, h) => SameTx(r.t.txs[h], st.txs[h])
    /\ Keyed /\ Clear(st) => Clear(r.t)

\* Nothing happened to what is followed.
LEMMA UnheardReports ==
    ASSUME NEW st, Good(st), NEW r, r.evs = {}, r.t.txs = st.txs
    PROVE  Reports(st, r)
<1>1. \A h \in Hash : st.txs[h] \in Tx
  BY DEF Good, TrackerState
<1>2. \A h \in Hash : SameTx(st.txs[h], st.txs[h])
  BY <1>1 DEF SameTx, Tx
<1> QED
  BY <1>2 DEF Reports, Clear

\* The transactions of R changed, which events of type typ report from `of'.
Changed(st, r, R, of, typ) ==
    /\ \A h \in Hash \ R : r.t.txs[h] = st.txs[h]
    /\ \A h \in R : IF Tracked(r.t, h) THEN of[h].legs # {} ELSE typ \in Terminal
    /\ \A h \in R : Keyed /\ Clear(st) => Storable(r.t.txs[h].legs)

\* Such a change is reported.
LEMMA SetReports ==
    ASSUME NEW st, Good(st), NEW r, NEW R \in SUBSET Hash, NEW of \in [Hash -> Tx],
           NEW typ \in EventType, NEW conf, NEW by,
           r.evs = events(of, R, typ, conf, by), Changed(st, r, R, of, typ)
    PROVE  Reports(st, r)
<1>1. \A h \in Hash : st.txs[h] \in Tx
  BY DEF Good, TrackerState
<1>2. \A h \in Hash : SameTx(st.txs[h], st.txs[h])
  BY <1>1 DEF SameTx, Tx
<1>3. \A e \in r.evs : e.hash \in R /\ e.typ = typ /\ e.tx = of[e.hash]
  BY DEF events
<1>4. \A h \in R : of[h].legs # {} => About(r.evs, h)
  <2> SUFFICES ASSUME NEW h \in R, of[h].legs # {} PROVE \E e \in r.evs : e.hash = h
    BY DEF About
  <2>1. [typ |-> typ, hash |-> h, tx |-> of[h], conf |-> conf, by |-> by] \in r.evs
    BY DEF events
  <2> QED
    BY <2>1
<1>5. \A e \in r.evs : /\ e.typ \in EventType /\ e.hash \in Hash /\ e.tx \in Tx
                       /\ ~Tracked(r.t, e.hash) => e.typ \in Terminal
  BY <1>3 DEF Changed
<1>6. \A h \in Hash : Tracked(r.t, h) /\ ~About(r.evs, h) => SameTx(r.t.txs[h], st.txs[h])
  BY <1>2, <1>4 DEF Changed
<1>7. Keyed /\ Clear(st) => Clear(r.t)
  BY DEF Clear, Changed
<1> QED
  BY <1>5, <1>6, <1>7 DEF Reports

\* The absent transaction has no leg to store.
LEMMA NoTxStorable == Storable(NoTx.legs) /\ NoTx.state = "none"
BY DEF NoTx, Storable

\* A mempool notification is reported as pending.
LEMMA OnPendingReports ==
    ASSUME NEW st, Good(st), NEW h \in Hash, NEW matches \in SUBSET LegKind,
           Keyed => Storable(matches)
    PROVE  Reports(st, OnPending(st, h, matches))
<1> DEFINE txs == [st.txs EXCEPT ![h] = PendingTx(matches)]
           r == OnPending(st, h, matches)
<1>1. st.txs \in [Hash -> Tx]
  BY DEF Good, TrackerState
<1>2. CASE matches = {} \/ ~Refollows(st, h)
  <2>1. r = Unheard(st)
    BY <1>2 DEF OnPending
  <2> QED
    BY <2>1, UnheardReports DEF Unheard
<1>3. CASE matches # {} /\ Refollows(st, h)
  <2>1. /\ PendingTx(matches) \in Tx
        /\ PendingTx(matches).legs = matches
    BY DEF PendingTx, Tx, NoTx
  <2>2. /\ txs \in [Hash -> Tx] /\ txs[h] = PendingTx(matches)
        /\ \A g \in Hash \ {h} : txs[g] = st.txs[g]
    BY <1>1, <2>1
  <2>3. r.t.txs = txs /\ r.evs = events(txs, {h}, "pending", 0, {})
    BY <1>3 DEF OnPending, Good, TrackerState
  <2>4. "pending" \in EventType /\ {h} \in SUBSET Hash
    BY DEF EventType
  <2> HIDE DEF txs, r
  <2>5. txs[h].legs # {} /\ (Keyed => Storable(txs[h].legs)) /\ Tracked(r.t, h)
    BY <1>3, <2>1, <2>2, <2>3 DEF Tracked, PendingTx, NoTx
  <2>6. Changed(st, r, {h}, txs, "pending")
    BY <2>2, <2>3, <2>5 DEF Changed
  <2>7. Reports(st, r)
    BY <2>2, <2>3, <2>4, <2>6, SetReports
  <2> QED
    BY <2>7 DEF r
<1> QED
  BY <1>2, <1>3

\* Endings are reported as such.
LEMMA EndReports ==
    ASSUME NEW st, Good(st), NEW r, NEW R \in SUBSET Hash, NEW typ \in Terminal,
           NEW conf, NEW by,
           r.t.txs = Forget(st.txs, R), r.evs = events(st.txs, R, typ, conf, by)
    PROVE  Reports(st, r)
<1>1. st.txs \in [Hash -> Tx] /\ typ \in EventType
  BY DEF Good, TrackerState, EventType
<1>2. /\ \A h \in R : r.t.txs[h] = NoTx
      /\ \A h \in Hash \ R : r.t.txs[h] = st.txs[h]
  BY <1>1, ForgetKeeps
<1>3. Changed(st, r, R, st.txs, typ)
  BY <1>2, NoTxStorable DEF Tracked, Changed
<1> QED
  BY <1>1, <1>3, SetReports

\* So are those of a slot's other occupants,
LEMMA OnNonceUsedReports ==
    ASSUME NEW st, Good(st), NEW s, NEW by, NEW E
    PROVE  Reports(st, OnNonceUsed(st, s, by, E))
<1> DEFINE R == ReplacedOccupants(st, s, by)
           r == OnNonceUsed(st, s, by, E)
<1>1. R \in SUBSET Hash /\ "replaced" \in Terminal
  BY DEF ReplacedOccupants, Terminal
<1>2. r.t.txs = Forget(st.txs, R) /\ r.evs = events(st.txs, R, "replaced", 0, {by})
  BY DEF OnNonceUsed
<1> HIDE DEF R, r
<1>3. Reports(st, r)
  BY <1>1, <1>2, EndReports
<1> QED
  BY <1>3 DEF r

\* of a transaction the node does not know any more,
LEMMA OnDropStaleReports ==
    ASSUME NEW st, Good(st), NEW h \in Hash, NEW stillKnown, NEW E
    PROVE  Reports(st, OnDropStale(st, h, stillKnown, E))
<1> DEFINE r == OnDropStale(st, h, stillKnown, E)
<1>1. st.txs \in [Hash -> Tx] /\ st \in TrackerState
  BY DEF Good, TrackerState
<1>2. CASE ~IsPending(st, h)
  BY <1>2, UnheardReports DEF OnDropStale, Unheard
<1>3. CASE IsPending(st, h) /\ stillKnown
  <2>1. r.evs = {} /\ r.t.txs = [st.txs EXCEPT ![h].stale = FALSE]
    BY <1>1, <1>3 DEF OnDropStale, Unheard, TrackerState
  <2>2. \A g \in Hash : st.txs[g] \in Tx
    BY <1>1
  <2>3. \A g \in Hash : r.t.txs[g] = [st.txs[g] EXCEPT !.stale = IF g = h THEN FALSE ELSE @]
    BY <1>1, <2>1, <2>2 DEF Tx
  <2> HIDE DEF r
  <2>4. ASSUME NEW g \in Hash
        PROVE  SameTx(r.t.txs[g], st.txs[g]) /\ r.t.txs[g].legs = st.txs[g].legs
    BY <2>2, <2>3 DEF SameTx, Tx
  <2>5. Reports(st, r)
    BY <2>1, <2>4 DEF Reports, Clear
  <2> QED
    BY <2>5 DEF r
<1>4. CASE IsPending(st, h) /\ ~stillKnown
  <2>1. r.t.txs = Forget(st.txs, {h}) /\ r.evs = events(st.txs, {h}, "dropped", 0, {})
    BY <1>4 DEF OnDropStale
  <2>2. {h} \in SUBSET Hash /\ "dropped" \in Terminal
    BY DEF Terminal
  <2> HIDE DEF r
  <2>3. Reports(st, r)
    BY <2>1, <2>2, EndReports
  <2> QED
    BY <2>3 DEF r
<1> QED
  BY <1>2, <1>3, <1>4

\* and of one confirmed.
LEMMA ConfirmReports ==
    ASSUME NEW st, Good(st), NEW h \in Hash, NEW head, NEW E
    PROVE  Reports(st, Confirm(st, h, head, E))
<1> DEFINE r == Confirm(st, h, head, E)
<1>1. CASE ~IsMined(st, h) \/ head < st.txs[h].num
  BY <1>1, UnheardReports DEF Confirm, Unheard
<1>2. CASE ~(~IsMined(st, h) \/ head < st.txs[h].num)
  <2>1. /\ r.t.txs = Forget(st.txs, {h})
        /\ r.evs = events(st.txs, {h}, "confirmed", DepthAt(head, st.txs[h].num), {})
    BY <1>2 DEF Confirm, Good, TrackerState
  <2>2. {h} \in SUBSET Hash /\ "confirmed" \in Terminal
    BY DEF Terminal
  <2> HIDE DEF r
  <2>3. Reports(st, r)
    BY <2>1, <2>2, EndReports
  <2> QED
    BY <2>3 DEF r
<1> QED
  BY <1>1, <1>2

\* Transactions whose block is gone are reported as reorged.
LEMMA DemoteAllReports ==
    ASSUME NEW st, Good(st), NEW R \in SUBSET Hash, \A h \in R : IsMined(st, h)
    PROVE  Reports(st, DemoteAll(st, R))
<1> DEFINE txs == [h \in Hash |-> IF h \in R THEN DemotedTx(st.txs[h]) ELSE st.txs[h]]
           r == DemoteAll(st, R)
<1>1. st.txs \in [Hash -> Tx] /\ "reorged" \in EventType
  BY DEF Good, TrackerState, EventType
<1>2. r.t.txs = txs /\ r.evs = events(st.txs, R, "reorged", 0, {})
  BY DEF DemoteAll, Good, TrackerState
<1>3. \A h \in R : /\ st.txs[h].legs # {}
                  /\ DemotedTx(st.txs[h]).legs = st.txs[h].legs
                  /\ DemotedTx(st.txs[h]).state = "pending"
  BY <1>1 DEF DemotedTx, IsMined, Good, Founded, Tx
<1>4. /\ \A h \in R : txs[h] = DemotedTx(st.txs[h])
      /\ \A h \in Hash \ R : txs[h] = st.txs[h]
  OBVIOUS
<1> HIDE DEF txs, r
<1>5. Changed(st, r, R, st.txs, "reorged")
  BY <1>2, <1>3, <1>4 DEF Tracked, Clear, Changed
<1>6. Reports(st, r)
  BY <1>1, <1>2, <1>5, SetReports
<1> QED
  BY <1>6 DEF r

\* A transaction found in a block is reported as mined, as ended, or forgotten.
LEMMA OnMinedReports ==
    ASSUME NEW st, Good(st), NEW h \in Hash, NEW b \in Block, NEW n \in Nat \ {0},
           NEW transfers \in SUBSET LegKind, NEW failed \in BOOLEAN, NEW conf, NEW f, NEW E,
           Storable(transfers) \/ failed
    PROVE  Reports(st, OnMined(st, h, b, n, transfers, failed, conf, f, E))
<1> DEFINE tx      == MinedTx(st.txs[h], b, n, transfers)
           txs     == [st.txs EXCEPT ![h] = tx]
           depth   == IF conf = 0 THEN 1 ELSE conf
           verdict == Verdict(tx, failed, depth, f)
           r == OnMined(st, h, b, n, transfers, failed, conf, f, E)
<1>1. st \in TrackerState /\ st.txs \in [Hash -> Tx] /\ st.txs[h] \in Tx
  BY DEF Good, TrackerState
<1>2. /\ tx \in Tx /\ tx.state = "mined" /\ tx.auth = (st.txs[h].auth \/ transfers # {})
      /\ tx.legs = IF transfers # {} THEN transfers ELSE st.txs[h].legs
  BY <1>1, MinedTxFields
<1>3. st.txs[h].auth => st.txs[h].legs # {}
  <2>1. CASE st.txs[h].state = "none"
    BY <2>1 DEF Good, Absent, NoTx
  <2>2. CASE st.txs[h].state # "none"
    BY <2>2 DEF Good, Founded
  <2> QED
    BY <2>1, <2>2
<1>4. /\ txs \in [Hash -> Tx] /\ txs[h] = tx
      /\ \A g \in Hash \ {h} : txs[g] = st.txs[g]
  BY <1>1, <1>2
<1>5. /\ verdict \in {"failed", "unfounded", "confirmed", "mined"}
      /\ verdict = "mined" => ~failed /\ tx.auth
  BY DEF Verdict
<1>6. {h} \in SUBSET Hash /\ {"mined", "confirmed", "failed"} \subseteq EventType
      /\ {"confirmed", "failed"} \subseteq Terminal
  BY DEF EventType, Terminal
<1>7. CASE st.tombstones[h] = "confirmed"
  BY <1>7, UnheardReports DEF OnMined, Unheard
<1>8. CASE st.tombstones[h] # "confirmed" /\ IsMined(st, h) /\ st.txs[h].block = b
  <2>1. r = Unheard([st EXCEPT !.tombstones = Exhume(st.tombstones, h)])
    BY <1>8 DEF OnMined
  <2>2. r.evs = {} /\ r.t.txs = st.txs
    BY <1>1, <2>1 DEF Unheard, TrackerState
  <2> HIDE DEF r
  <2>3. Reports(st, r)
    BY <2>2, UnheardReports
  <2> QED
    BY <2>3 DEF r
<1>9. CASE /\ st.tombstones[h] # "confirmed" /\ ~(IsMined(st, h) /\ st.txs[h].block = b)
           /\ verdict = "mined"
  <2>1. r.t.txs = txs /\ r.evs = events(txs, {h}, "mined", depth, {})
    BY <1>9 DEF OnMined
  <2> HIDE DEF r, txs, tx, verdict, depth
  <2>2. tx.legs # {} /\ (Clear(st) => Storable(tx.legs))
    BY <1>2, <1>3, <1>5, <1>9 DEF Clear
  <2>3. Changed(st, r, {h}, txs, "mined") /\ "mined" \in EventType
    BY <1>2, <1>4, <1>6, <2>1, <2>2 DEF Tracked, Changed
  <2>4. Reports(st, r)
    BY <1>4, <1>6, <2>1, <2>3, SetReports
  <2> QED
    BY <2>4 DEF r
<1>10. CASE /\ st.tombstones[h] # "confirmed" /\ ~(IsMined(st, h) /\ st.txs[h].block = b)
            /\ verdict # "mined"
  <2>1. /\ r.t.txs = Forget(txs, {h})
        /\ r.evs = IF verdict = "unfounded" THEN {} ELSE events(txs, {h}, verdict, depth, {})
    BY <1>10 DEF OnMined
  <2>2. verdict \in {"failed", "unfounded", "confirmed"}
    BY <1>5, <1>10
  <2> HIDE DEF r, txs, tx, verdict, depth
  <2>3. r.t.txs[h] = NoTx /\ \A g \in Hash \ {h} : r.t.txs[g] = st.txs[g]
    BY <1>4, <2>1, ForgetKeeps
  <2>4. ~Tracked(r.t, h) /\ Storable(r.t.txs[h].legs)
    BY <2>3, NoTxStorable DEF Tracked
  <2>5. CASE verdict = "unfounded"
    <3>1. r.evs = {}
      BY <2>1, <2>5
    <3>2. \A g \in Hash : SameTx(st.txs[g], st.txs[g])
      BY <1>1 DEF SameTx, Tx
    <3>3. Reports(st, r)
      BY <2>3, <2>4, <3>1, <3>2 DEF Reports, Clear
    <3> QED
      BY <3>3 DEF r
  <2>6. CASE verdict # "unfounded"
    <3>1. r.evs = events(txs, {h}, verdict, depth, {}) /\ verdict \in Terminal
          /\ verdict \in EventType
      BY <1>6, <2>1, <2>2, <2>6
    <3>2. Changed(st, r, {h}, txs, verdict)
      BY <2>3, <2>4, <3>1 DEF Changed
    <3>3. Reports(st, r)
      BY <1>4, <1>6, <3>1, <3>2, SetReports
    <3> QED
      BY <3>3 DEF r
  <2> QED
    BY <2>5, <2>6
<1> QED
  BY <1>7, <1>8, <1>9, <1>10

-----------------------------------------------------------------------------
(* What emitAll stores *)

\* One row, given one of its transaction's events.
Persisted(old, st, h, e) ==
    LET row == IF Tracked(st, h) THEN [status |-> st.txs[h].state, tx |-> ExportTx(st, h)]
               ELSE RowFromEvent(e)
    IN  IF ~Tracked(st, h) /\ old # NoRow THEN [old EXCEPT !.status = e.typ]
        ELSE IF Storable(row.tx.legs) THEN row ELSE old

\* Rows are written one by one, and only those an event is about.
LEMMA PersistedRows ==
    ASSUME NEW rs, NEW st, NEW E, NEW h \in Hash
    PROVE  /\ ~About(E, h) => persistEvents(rs, st, E)[h] = rs[h]
           /\ About(E, h) =>
                \E e \in E : e.hash = h /\ persistEvents(rs, st, E)[h] = Persisted(rs[h], st, h, e)
<1> DEFINE mine == {e \in E : e.hash = h}
           e    == CHOOSE x \in mine : TRUE
           row  == IF Tracked(st, h) THEN [status |-> st.txs[h].state, tx |-> ExportTx(st, h)]
                   ELSE RowFromEvent(e)
<1>1. persistEvents(rs, st, E)[h] =
        IF mine = {} THEN rs[h]
        ELSE IF ~Tracked(st, h) /\ rs[h] # NoRow THEN [rs[h] EXCEPT !.status = e.typ]
        ELSE IF Storable(row.tx.legs) THEN row ELSE rs[h]
  BY DEF persistEvents
<1>2. mine = {} <=> ~About(E, h)
  BY DEF About
<1>3. mine # {} => e \in mine
  OBVIOUS
<1>4. mine # {} => persistEvents(rs, st, E)[h] = Persisted(rs[h], st, h, e)
  BY <1>1 DEF Persisted
<1> HIDE DEF e, row
<1> QED
  BY <1>1, <1>2, <1>3, <1>4

\* The snapshot of a followed transaction.
LEMMA Exported ==
    ASSUME NEW st, Good(st), NEW h \in Hash
    PROVE  /\ ExportTx(st, h) \in Tx
           /\ ExportTx(st, h) = [st.txs[h] EXCEPT !.block = IF IsPending(st, h) THEN NoBlock ELSE @]
           /\ ExportTx(st, h).legs = st.txs[h].legs
           /\ st.txs[h].state \in {"pending", "mined"} =>
                Sane([status |-> st.txs[h].state, tx |-> ExportTx(st, h)])
<1>1. st.txs[h] \in Tx
  BY DEF Good, TrackerState
<1>2. ExportTx(st, h) = [st.txs[h] EXCEPT !.block = IF IsPending(st, h) THEN NoBlock ELSE @]
  BY <1>1 DEF ExportTx, Tx
<1>3. ExportTx(st, h) \in Tx
  BY <1>1, <1>2 DEF Tx
<1>4. /\ ExportTx(st, h).state = st.txs[h].state
      /\ ExportTx(st, h).legs = st.txs[h].legs
      /\ ExportTx(st, h).auth = st.txs[h].auth
      /\ ExportTx(st, h).firstSeenBlock = st.txs[h].firstSeenBlock
      /\ ExportTx(st, h).block = IF IsPending(st, h) THEN NoBlock ELSE st.txs[h].block
  BY <1>1, <1>2 DEF Tx
<1>5. /\ st.txs[h].state # "none" => st.txs[h].legs # {}
      /\ st.txs[h].state = "mined" => /\ st.txs[h].auth /\ st.txs[h].block # NoBlock
                                      /\ st.txs[h].firstSeenBlock > 0
  BY DEF Good, Founded
<1>6. st.txs[h].state \in {"pending", "mined"} =>
        Sane([status |-> st.txs[h].state, tx |-> ExportTx(st, h)])
  BY <1>4, <1>5 DEF Sane, IsPending
<1> QED
  BY <1>2, <1>3, <1>4, <1>6

\* A row written is sane, and a followed transaction's is its snapshot.
LEMMA PersistedSane ==
    ASSUME NEW st, Good(st), NEW h \in Hash, NEW old \in RowType, Sane(old),
           NEW e, e.typ \in EventType, e.tx \in Tx, ~Tracked(st, h) => e.typ \in Terminal
    PROVE  /\ Persisted(old, st, h, e) \in RowType /\ Sane(Persisted(old, st, h, e))
           /\ Tracked(st, h) /\ Storable(st.txs[h].legs) =>
                Persisted(old, st, h, e) = [status |-> st.txs[h].state, tx |-> ExportTx(st, h)]
           /\ Persisted(old, st, h, e).status \in {"pending", "mined"} =>
                \/ Persisted(old, st, h, e) = old
                \/ Storable(Persisted(old, st, h, e).tx.legs)
<1> DEFINE new == Persisted(old, st, h, e)
<1>1. /\ st.txs[h] \in Tx /\ ExportTx(st, h) \in Tx
      /\ st.txs[h].state \in {"none", "pending", "mined"}
      /\ ExportTx(st, h).legs = st.txs[h].legs
  <2>1. ExportTx(st, h) \in Tx /\ ExportTx(st, h).legs = st.txs[h].legs
    BY Exported
  <2>2. st.txs[h] \in Tx
    BY DEF Good, TrackerState
  <2> QED
    BY <2>1, <2>2 DEF Tx
<1>2. CASE Tracked(st, h)
  <2> DEFINE row == [status |-> st.txs[h].state, tx |-> ExportTx(st, h)]
  <2>1. new = IF Storable(st.txs[h].legs) THEN row ELSE old
    BY <1>1, <1>2 DEF Persisted
  <2>2. row \in RowType /\ Sane(row) /\ row.tx.legs = st.txs[h].legs
    BY <1>1, <1>2, Exported DEF RowType, EventType, Tracked
  <2> HIDE DEF row
  <2> QED
    BY <2>1, <2>2 DEF row
<1>3. CASE ~Tracked(st, h) /\ old # NoRow
  <2>1. new = [old EXCEPT !.status = e.typ]
    BY <1>3 DEF Persisted
  <2>2. new \in RowType /\ new.status = e.typ
    BY <2>1 DEF RowType
  <2>3. e.typ \notin {"pending", "mined"}
    BY <1>3 DEF Terminal
  <2> QED
    BY <1>3, <2>2, <2>3 DEF Sane
<1>4. CASE ~Tracked(st, h) /\ old = NoRow
  <2>1. new = RowFromEvent(e) \/ new = old
    BY <1>4 DEF Persisted
  <2>2. [e.tx EXCEPT !.auth = TRUE, !.hasNonce = FALSE] \in Tx
    BY DEF Tx
  <2>3. RowFromEvent(e) \in RowType /\ RowFromEvent(e).status = e.typ
    BY <2>2 DEF RowFromEvent, RowType
  <2>4. e.typ \notin {"pending", "mined"}
    BY <1>4 DEF Terminal
  <2>5. Sane(RowFromEvent(e))
    BY <2>3, <2>4 DEF Sane
  <2> QED
    BY <1>4, <2>1, <2>3, <2>4, <2>5
<1> QED
  BY <1>2, <1>3, <1>4

\* The states a handler may work on: a tracker's invariants, sane rows, of
\* which those no event was about are still the database's, and for every
\* followed transaction but those missed before, its snapshot.
OutEvent == [typ : EventType, hash : Hash, block : Block \cup {NoBlock}, num : Nat]
HandlerState == [t : TrackerState, c : Ring, db : [Hash -> RowType], out : SUBSET OutEvent]

Touched(s) == {e.hash : e \in s.out}
Untouched(s) == \A h \in Hash : h \notin Touched(s) => s.db[h] = db[h]
Follows(s) ==
    \A h \in Hash : Tracked(s.t, h) /\ (h \in Touched(s) \/ h \notin missed) => Row(s.t, h, s.db[h])
AllKeyed(s) == Keyed => Clear(s.t) /\ RowsClear(s.db) /\ Follows(s)

Handled == {s \in HandlerState : Good(s.t) /\ SaneRows(s.db) /\ Untouched(s) /\ AllKeyed(s)}

\* A handler starts on such a state.
LEMMA HereHandled == IInv => Here \in Handled /\ Here.c = c
<1> SUFFICES ASSUME IInv PROVE Here \in Handled
  BY DEF Here
<1>1. /\ Here.t = t /\ Here.c = c /\ Here.db = db /\ Here.out = {}
  BY DEF Here
<1>2. Here \in HandlerState
  BY DEF Here, HandlerState, IInv, Stored, Good, Types, MemoryType, SaneRows
<1>3. Untouched(Here)
  BY <1>1 DEF Untouched
<1>4. AllKeyed(Here)
  <2>1. Keyed => \A h \in Hash \ missed : Tracked(t, h) => Row(t, h, db[h])
    BY DEF IInv, Stored, TrackedIsStored, Row
  <2>2. Touched(Here) = {}
    BY <1>1 DEF Touched
  <2> QED
    BY <1>1, <2>1, <2>2 DEF AllKeyed, Follows, IInv, Stored
<1> QED
  BY <1>1, <1>2, <1>3, <1>4 DEF Handled, IInv, Stored

\* emitAll takes such a state to such a state when the method it applies is
\* sound and reports what it does.
LEMMA EmitHandled ==
    ASSUME NEW s \in Handled, NEW r, Sound(r), Reports(s.t, r)
    PROVE  emitAll(s, r) \in Handled /\ emitAll(s, r).c = s.c /\ emitAll(s, r).t = r.t
<1> DEFINE u == emitAll(s, r)
           rs == persistEvents(s.db, r.t, r.evs)
           told == {[typ |-> e.typ, hash |-> e.hash, block |-> e.tx.block, num |-> e.tx.num] :
                      e \in r.evs}
<1>1. /\ s \in HandlerState /\ Good(s.t) /\ SaneRows(s.db) /\ Untouched(s) /\ AllKeyed(s)
      /\ Good(r.t)
  BY DEF Handled, Sound
<1>2. /\ u.t = r.t /\ u.c = s.c /\ u.db = rs /\ u.out = s.out \cup told
      /\ u = [t |-> r.t, c |-> s.c, db |-> rs, out |-> s.out \cup told]
  <2>1. u = [s EXCEPT !.t = r.t, !.db = rs, !.out = @ \cup told]
    BY DEF emitAll
  <2> HIDE DEF u, rs, told
  <2>2. s = [t |-> s.t, c |-> s.c, db |-> s.db, out |-> s.out]
    BY <1>1 DEF HandlerState
  <2> QED
    BY <2>1, <2>2
<1>3. \A e \in r.evs : /\ e.typ \in EventType /\ e.hash \in Hash /\ e.tx \in Tx
                       /\ ~Tracked(r.t, e.hash) => e.typ \in Terminal
  BY DEF Reports
<1>4. told \in SUBSET OutEvent
  <2> SUFFICES ASSUME NEW e \in r.evs
               PROVE  [typ |-> e.typ, hash |-> e.hash, block |-> e.tx.block, num |-> e.tx.num]
                        \in OutEvent
    OBVIOUS
  <2>1. e.typ \in EventType /\ e.hash \in Hash /\ e.tx \in Tx
    BY <1>3
  <2>2. e.tx.block \in Block \cup {NoBlock} /\ e.tx.num \in Nat
    BY <2>1 DEF Tx
  <2> QED
    BY <2>1, <2>2 DEF OutEvent
<1>5. \A h \in Hash : h \in Touched(u) <=> h \in Touched(s) \/ About(r.evs, h)
  <2>1. \A x \in told : \E e \in r.evs : x.hash = e.hash
    OBVIOUS
  <2>2. ASSUME NEW e \in r.evs PROVE \E x \in told : x.hash = e.hash
    <3> DEFINE x == [typ |-> e.typ, hash |-> e.hash, block |-> e.tx.block, num |-> e.tx.num]
    <3>1. x \in told /\ x.hash = e.hash
      OBVIOUS
    <3> HIDE DEF x
    <3> QED
      BY <3>1
  <2> HIDE DEF told, u
  <2> QED
    BY <1>2, <2>1, <2>2 DEF Touched, About
<1> HIDE DEF told, u, rs
<1>6. ASSUME NEW h \in Hash
      PROVE  /\ rs[h] \in RowType /\ Sane(rs[h])
             /\ ~About(r.evs, h) => rs[h] = s.db[h]
             /\ About(r.evs, h) /\ Tracked(r.t, h) /\ Storable(r.t.txs[h].legs) =>
                  rs[h] = [status |-> r.t.txs[h].state, tx |-> ExportTx(r.t, h)]
             /\ rs[h].status \in {"pending", "mined"} =>
                  rs[h] = s.db[h] \/ Storable(rs[h].tx.legs)
  <2>1. s.db[h] \in RowType /\ Sane(s.db[h])
    BY <1>1 DEF SaneRows
  <2>2. CASE ~About(r.evs, h)
    BY <2>1, <2>2, PersistedRows DEF rs
  <2>3. CASE About(r.evs, h)
    <3>1. PICK e \in r.evs : e.hash = h /\ rs[h] = Persisted(s.db[h], r.t, h, e)
      BY <2>3, PersistedRows DEF rs
    <3>2. e.typ \in EventType /\ e.tx \in Tx /\ (~Tracked(r.t, h) => e.typ \in Terminal)
      <4>1. /\ e.typ \in EventType /\ e.tx \in Tx
            /\ ~Tracked(r.t, e.hash) => e.typ \in Terminal
        BY <1>3
      <4> QED
        BY <3>1, <4>1
    <3> QED
      BY <1>1, <2>1, <2>3, <3>1, <3>2, PersistedSane
  <2> QED
    BY <2>2, <2>3
<1>7. SaneRows(rs)
  <2>1. rs = [h \in Hash |-> rs[h]]
    BY DEF rs, persistEvents
  <2>2. rs \in [Hash -> RowType]
    BY <1>6, <2>1
  <2> QED
    BY <1>6, <2>2 DEF SaneRows
<1>8. u \in HandlerState
  BY <1>1, <1>2, <1>4, <1>7 DEF HandlerState, SaneRows, Good
<1>9. Untouched(u)
  BY <1>1, <1>2, <1>5, <1>6 DEF Untouched
<1>10. AllKeyed(u)
  <2> SUFFICES ASSUME Keyed PROVE Clear(r.t) /\ RowsClear(rs) /\ Follows(u)
    BY <1>2 DEF AllKeyed
  <2>1. Clear(s.t) /\ RowsClear(s.db) /\ Follows(s)
    BY <1>1 DEF AllKeyed
  <2>2. Clear(r.t)
    BY <2>1 DEF Reports
  <2>3. RowsClear(rs)
    BY <1>6, <2>1 DEF RowsClear
  <2>4. ASSUME NEW h \in Hash, Tracked(r.t, h), h \in Touched(u) \/ h \notin missed
        PROVE  Row(r.t, h, rs[h])
    <3>1. CASE About(r.evs, h)
      <4>1. rs[h] = [status |-> r.t.txs[h].state, tx |-> ExportTx(r.t, h)]
        BY <1>6, <2>2, <2>4, <3>1 DEF Clear
      <4>2. ExportTx(r.t, h) \in Tx
        BY <1>1, Exported
      <4>3. ExportTx(r.t, h) = [ExportTx(r.t, h) EXCEPT !.stale = ExportTx(r.t, h).stale]
        BY <4>2 DEF Tx
      <4> QED
        BY <4>1, <4>3 DEF Row
    <3>2. CASE ~About(r.evs, h)
      <4>1. SameTx(r.t.txs[h], s.t.txs[h]) /\ rs[h] = s.db[h]
        BY <1>6, <2>4, <3>2 DEF Reports
      <4>2. h \in Touched(s) \/ h \notin missed
        BY <1>5, <2>4, <3>2
      <4>3. s.t.txs[h] \in Tx /\ r.t.txs[h] \in Tx
        BY <1>1 DEF Good, TrackerState
      <4>4. Tracked(s.t, h) /\ r.t.txs[h].state = s.t.txs[h].state
        BY <2>4, <4>1, <4>3 DEF SameTx, Tracked, Tx
      <4>5. Row(s.t, h, s.db[h])
        BY <2>1, <4>2, <4>4 DEF Follows
      <4>6. /\ ExportTx(r.t, h) = [r.t.txs[h] EXCEPT !.block = IF IsPending(r.t, h) THEN NoBlock ELSE @]
            /\ ExportTx(s.t, h) = [s.t.txs[h] EXCEPT !.block = IF IsPending(s.t, h) THEN NoBlock ELSE @]
        BY <1>1, Exported
      <4>7. IsPending(r.t, h) = IsPending(s.t, h)
        BY <4>4 DEF IsPending
      <4> DEFINE x == r.t.txs[h]  y == s.t.txs[h]  k == IsPending(s.t, h)  v == rs[h].tx.stale
                 xe == ExportTx(r.t, h)  ye == ExportTx(s.t, h)
      <4>8. [xe EXCEPT !.stale = v] = [ye EXCEPT !.stale = v]
        <5>1. x \in Tx /\ y \in Tx /\ SameTx(x, y)
          BY <4>1, <4>3
        <5>2. /\ xe = [x EXCEPT !.block = IF k THEN NoBlock ELSE @]
              /\ ye = [y EXCEPT !.block = IF k THEN NoBlock ELSE @]
          BY <4>6, <4>7
        <5> HIDE DEF x, y, k, v, xe, ye
        <5>3. [[x EXCEPT !.block = IF k THEN NoBlock ELSE @] EXCEPT !.stale = v] =
                [[y EXCEPT !.block = IF k THEN NoBlock ELSE @] EXCEPT !.stale = v]
          BY <5>1 DEF SameTx, Tx
        <5> QED
          BY <5>2, <5>3
      <4> QED
        BY <4>1, <4>4, <4>5, <4>8 DEF Row
    <3> QED
      BY <3>1, <3>2
  <2>5. Follows(u)
    BY <1>2, <2>4 DEF Follows
  <2> QED
    BY <2>2, <2>3, <2>5
<1>11. u \in Handled
  BY <1>1, <1>2, <1>7, <1>8, <1>9, <1>10 DEF Handled
<1> QED
  BY <1>2, <1>11 DEF u

-----------------------------------------------------------------------------
(* The steps of a handler's loops *)

MineStep(h, a, b, legs, conf, f) ==
    emitAll(a, OnMined(a.t, h, b, Number(b), legs, h \in Failing, conf, f, {}))
UseStep(h, a) == emitAll(a, OnNonceUsed(a.t, SlotOf[h], h, {}))
DropStep(h, a, known) == emitAll(a, OnDropStale(a.t, h, h \in known, {}))

\* What a step of a loop keeps, ring aside.
Within(ring) == {s \in Handled : s.c = ring}

\* A block has a positive number.
LEMMA BlockNumber ==
    ASSUME NEW b \in Block PROVE Number(b) \in Nat \ {0} /\ Number(b) \in Heights
BY IndexerAssumption DEF Number, Heights

\* A transaction found in a block,
LEMMA MineStepWithin ==
    ASSUME NEW ring, NEW a \in Within(ring), NEW h \in Hash, NEW b \in Block,
           NEW legs \in SUBSET LegKind, Storable(legs) \/ h \in Failing, NEW conf, NEW f
    PROVE  MineStep(h, a, b, legs, conf, f) \in Within(ring)
<1> DEFINE r == OnMined(a.t, h, b, Number(b), legs, h \in Failing, conf, f, {})
<1>1. a \in Handled /\ a.c = ring /\ Good(a.t)
  BY DEF Within, Handled
<1>2. Number(b) \in Nat \ {0} /\ (h \in Failing) \in BOOLEAN
  BY BlockNumber
<1>3. Sound(r)
  BY <1>1, <1>2, OnMinedSound
<1>4. Reports(a.t, r)
  BY <1>1, <1>2, OnMinedReports
<1> HIDE DEF r
<1>5. emitAll(a, r) \in Handled /\ emitAll(a, r).c = ring
  BY <1>1, <1>3, <1>4, EmitHandled
<1> QED
  BY <1>5 DEF MineStep, Within, r

\* one whose slot is used,
LEMMA UseStepWithin ==
    ASSUME NEW ring, NEW a \in Within(ring), NEW h \in Hash
    PROVE  UseStep(h, a) \in Within(ring)
<1> DEFINE r == OnNonceUsed(a.t, SlotOf[h], h, {})
<1>1. a \in Handled /\ a.c = ring /\ Good(a.t) /\ SlotOf[h] \in Slot
  BY SlotAssumption DEF Within, Handled
<1>3. Sound(r)
  BY <1>1, OnNonceUsedSound
<1>4. Reports(a.t, r)
  BY <1>1, OnNonceUsedReports
<1> HIDE DEF r
<1>5. emitAll(a, r) \in Handled /\ emitAll(a, r).c = ring
  BY <1>1, <1>3, <1>4, EmitHandled
<1> QED
  BY <1>5 DEF UseStep, Within, r

\* one the node was asked about,
LEMMA DropStepWithin ==
    ASSUME NEW ring, NEW a \in Within(ring), NEW h \in Hash, NEW known
    PROVE  DropStep(h, a, known) \in Within(ring)
<1> DEFINE r == OnDropStale(a.t, h, h \in known, {})
<1>1. a \in Handled /\ a.c = ring /\ Good(a.t) /\ (h \in known) \in BOOLEAN
  BY DEF Within, Handled
<1>3. Sound(r)
  BY <1>1, OnDropStaleSound
<1>4. Reports(a.t, r)
  BY <1>1, OnDropStaleReports
<1> HIDE DEF r
<1>5. emitAll(a, r) \in Handled /\ emitAll(a, r).c = ring
  BY <1>1, <1>3, <1>4, EmitHandled
<1> QED
  BY <1>5 DEF DropStep, Within, r

\* one demoted,
LEMMA DemoteWithin ==
    ASSUME NEW ring, NEW a \in Within(ring), NEW h \in Hash
    PROVE  emitAll(a, Demote(a.t, h)) \in Within(ring)
<1> DEFINE r == Demote(a.t, h)
<1>1. a \in Handled /\ a.c = ring /\ Good(a.t)
  BY DEF Within, Handled
<1>3. Sound(r)
  BY <1>1, DemoteSound
<1>4. Reports(a.t, r)
  <2>1. CASE IsMined(a.t, h)
    <3>1. {h} \in SUBSET Hash /\ \A g \in {h} : IsMined(a.t, g)
      BY <2>1
    <3>2. Reports(a.t, DemoteAll(a.t, {h}))
      BY <1>1, <3>1, DemoteAllReports
    <3> QED
      BY <2>1, <3>2 DEF Demote
  <2>2. CASE ~IsMined(a.t, h)
    BY <1>1, <2>2, UnheardReports DEF Demote, Unheard
  <2> QED
    BY <2>1, <2>2
<1> HIDE DEF r
<1>5. emitAll(a, r) \in Handled /\ emitAll(a, r).c = ring
  BY <1>1, <1>3, <1>4, EmitHandled
<1> QED
  BY <1>5 DEF Within, r

\* and one confirmed.
LEMMA ConfirmWithin ==
    ASSUME NEW ring, NEW a \in Within(ring), NEW h \in Hash, NEW head
    PROVE  emitAll(a, Confirm(a.t, h, head, {})) \in Within(ring)
<1> DEFINE r == Confirm(a.t, h, head, {})
<1>1. a \in Handled /\ a.c = ring /\ Good(a.t)
  BY DEF Within, Handled
<1>3. Sound(r)
  BY <1>1, ConfirmSound
<1>4. Reports(a.t, r)
  BY <1>1, ConfirmReports
<1> HIDE DEF r
<1>5. emitAll(a, r) \in Handled /\ emitAll(a, r).c = ring
  BY <1>1, <1>3, <1>4, EmitHandled
<1> QED
  BY <1>5 DEF Within, r

\* Blocks are the sequences of bodies of a length within the bound,
LEMMA BlockIsSeq ==
    ASSUME NEW b PROVE b \in Block <=> b \in Seq(Body) /\ Len(b) \in Heights
<1>1. ASSUME b \in Block PROVE b \in Seq(Body) /\ Len(b) \in Heights
  <2>1. PICK k \in 1..Bound.height : b \in [1..k -> Body]
    BY <1>1, IndexerAssumption
  <2> QED
    BY <2>1, IndexerAssumption DEF Heights
<1>2. ASSUME b \in Seq(Body), Len(b) \in Heights PROVE b \in Block
  <2>1. b \in [1..Len(b) -> Body] /\ Len(b) \in 1..Bound.height
    BY <1>2 DEF Heights
  <2> QED
    BY <2>1, IndexerAssumption
<1> QED
  BY <1>1, <1>2

\* and every prefix of one is one.
LEMMA PrefixBlock ==
    ASSUME NEW b \in Block, NEW n \in 1..Len(b)
    PROVE  BlockAt(b, n) \in Block /\ Len(BlockAt(b, n)) = n
<1>1. b \in Seq(Body) /\ Len(b) \in Heights /\ n \in Int /\ 1 \in Int
  BY BlockIsSeq
<1>2. \A i \in 1..n : b[i] \in Body
  BY <1>1 DEF Heights
<1>3. BlockAt(b, n) \in Seq(Body) /\ Len(BlockAt(b, n)) = n
  <2>1. /\ SubSeq(b, 1, n) \in Seq(Body)
        /\ Len(SubSeq(b, 1, n)) = IF 1 <= n THEN n - 1 + 1 ELSE 0
    BY <1>1, <1>2, SubSeqProperties
  <2> QED
    BY <2>1 DEF BlockAt
<1>4. n \in Heights
  BY <1>1, IndexerAssumption DEF Heights
<1> QED
  BY <1>3, <1>4, BlockIsSeq

\* The block of a receipt is one of the node's chain.
LEMMA ReceiptBlock ==
    ASSUME NEW h \in Hash, chain \in Block
    PROVE  ReceiptBlocks(h) \subseteq Block
BY PrefixBlock DEF ReceiptBlocks

\* One candidate is checked.
LEMMA CheckOneWithin ==
    ASSUME NEW ring, NEW a \in Within(ring), NEW h \in Hash, NEW head, NEW f, chain \in Block
    PROVE  CheckOne(head, f, h, a) \in Within(ring)
<1> DEFINE found == ReceiptBlocks(h)
           b == CHOOSE x \in found : TRUE
           d == emitAll(a, Demote(a.t, h))
           conf == confirmationsFor(c, Number(b))
<1>1. CheckOne(head, f, h, a) =
        IF found = {} THEN d
        ELSE IF b # a.t.txs[h].block THEN MineStep(h, d, b, {}, conf, f)
        ELSE emitAll(a, Confirm(a.t, h, head, {}))
  BY DEF CheckOne, Calling, MineStep
<1>2. found # {} => b \in Block
  BY ReceiptBlock
<1>3. d \in Within(ring)
  BY DemoteWithin
<1>4. {} \in SUBSET LegKind /\ Storable({})
  BY DEF Storable
<1> HIDE DEF found, b, d, conf
<1>5. found # {} => MineStep(h, d, b, {}, conf, f) \in Within(ring)
  BY <1>2, <1>3, <1>4, MineStepWithin
<1>6. emitAll(a, Confirm(a.t, h, head, {})) \in Within(ring)
  BY ConfirmWithin
<1> QED
  BY <1>1, <1>3, <1>5, <1>6

\* A pending transaction with a receipt is promoted.
LEMMA PromoteWithin ==
    ASSUME NEW ring, NEW a \in Within(ring), NEW h \in Hash, chain \in Block,
           ReceiptBlocks(h) # {}
    PROVE  promotePendingTx(h, a) \in Within(ring)
<1> DEFINE b == CHOOSE x \in ReceiptBlocks(h) : TRUE
           logs == IF h \in Failing THEN {} ELSE FoundLegs[h] \ {"native"}
           legs == NativeLegs(a.t, h) \cup logs
           conf == confirmationsFor(c, Number(b))
<1>1. promotePendingTx(h, a) = MineStep(h, a, b, legs, conf, fin)
  BY DEF promotePendingTx, Calling, MineStep
<1>2. b \in Block
  BY ReceiptBlock
<1>3. FoundLegs[h] \in SUBSET {"native", "log"}
  BY IndexerAssumption
<1>4. legs \in SUBSET LegKind /\ "calldata" \notin legs
  BY <1>3 DEF NativeLegs, LegKind
<1>5. Storable(legs)
  BY <1>4 DEF Storable
<1> HIDE DEF b, legs, conf
<1> QED
  BY <1>1, <1>2, <1>4, <1>5, MineStepWithin

-----------------------------------------------------------------------------
(* What is confirmed *)

\* Number n is as deep as configured, or final.
Reached(n) == IF TagMode THEN n <= final ELSE Len(chain) + 1 >= n + Depth

\* Only such numbers are reported as confirmed, so far and by a method.
Deep(s) == \A e \in s.out : e.typ = "confirmed" => Reached(e.num)
Proper(r) == \A e \in r.evs : e.typ = "confirmed" => Reached(e.tx.num)

\* conf and f confirm number n only if it is.
Justified(n, conf, f) == confirmedAt(n, IF conf = 0 THEN 1 ELSE conf, f) => Reached(n)

\* The ring and f confirm numbers of the node's chain only if they are.
Fair(f) == \A n \in 1..Len(chain) : Justified(n, confirmationsFor(c, n), f)

\* A receipt's block is one of them.
LEMMA ReceiptNumber ==
    ASSUME NEW h, chain \in Block, NEW b \in ReceiptBlocks(h)
    PROVE  Number(b) \in 1..Len(chain)
BY PrefixBlock DEF ReceiptBlocks, Number

\* Whatever is reported, is reported properly.
LEMMA EmitDeep ==
    ASSUME NEW s \in HandlerState, Deep(s), NEW r, Proper(r)
    PROVE  Deep(emitAll(s, r))
<1> DEFINE told == {[typ |-> e.typ, hash |-> e.hash, block |-> e.tx.block, num |-> e.tx.num] :
                      e \in r.evs}
<1>1. emitAll(s, r).out = s.out \cup told
  BY DEF emitAll, HandlerState
<1>2. \A e \in told : e.typ = "confirmed" => Reached(e.num)
  BY DEF Proper
<1> HIDE DEF told
<1> QED
  BY <1>1, <1>2 DEF Deep

\* A transaction found in a block,
LEMMA OnMinedProper ==
    ASSUME NEW st, NEW h \in Hash, NEW b, NEW n, NEW transfers, NEW failed, NEW conf, NEW f,
           NEW E, st.txs \in [Hash -> Tx], Justified(n, conf, f)
    PROVE  Proper(OnMined(st, h, b, n, transfers, failed, conf, f, E))
<1> DEFINE tx  == MinedTx(st.txs[h], b, n, transfers)
           txs == [st.txs EXCEPT ![h] = tx]
           depth == IF conf = 0 THEN 1 ELSE conf
           verdict == Verdict(tx, failed, depth, f)
           r == OnMined(st, h, b, n, transfers, failed, conf, f, E)
<1>1. r.evs = {} \/ r.evs = events(txs, {h}, verdict, depth, {})
  BY DEF OnMined, Unheard
<1>2. txs[h] = tx /\ tx.num = n
  BY DEF MinedTx
<1>3. verdict = "confirmed" => Reached(n)
  BY <1>2 DEF Verdict, Justified
<1> HIDE DEF r, tx, txs, depth, verdict
<1>4. \A e \in events(txs, {h}, verdict, depth, {}) : e.typ = verdict /\ e.tx = txs[h]
  BY DEF events
<1>5. \A e \in r.evs : e.typ = verdict /\ e.tx.num = n
  BY <1>1, <1>2, <1>4
<1> QED
  BY <1>3, <1>5 DEF Proper, r

\* and one whose inclusion was verified.
LEMMA ConfirmProper ==
    ASSUME NEW st, NEW h \in Hash, NEW head, NEW E, Reached(st.txs[h].num)
    PROVE  Proper(Confirm(st, h, head, E))
BY DEF Confirm, Unheard, events, Proper

\* The other methods confirm nothing.
LEMMA OthersProper ==
    ASSUME NEW st, NEW h, NEW x, NEW E
    PROVE  /\ Proper(OnPending(st, h, x)) /\ Proper(OnDropStale(st, h, x, E))
           /\ Proper(OnNonceUsed(st, x, h, E)) /\ Proper(OnReorg(st, x)) /\ Proper(Demote(st, h))
<1>1. Proper(OnPending(st, h, x))
  BY DEF OnPending, Unheard, events, Proper
<1>2. Proper(OnDropStale(st, h, x, E))
  BY DEF OnDropStale, Unheard, events, Proper
<1>3. Proper(OnNonceUsed(st, x, h, E))
  BY DEF OnNonceUsed, events, Proper
<1>4. ASSUME NEW R PROVE Proper(DemoteAll(st, R))
  BY DEF DemoteAll, events, Proper
<1>5. Proper(Unheard(st))
  BY DEF Unheard, Proper
<1> QED
  BY <1>1, <1>2, <1>3, <1>4, <1>5 DEF OnReorg, Demote

\* A block's transaction,
LEMMA MineStepDeep ==
    ASSUME NEW ring, NEW a \in Within(ring), Deep(a), NEW h \in Hash, NEW b, NEW legs, NEW conf,
           NEW f, Justified(Number(b), conf, f)
    PROVE  Deep(MineStep(h, a, b, legs, conf, f))
<1> DEFINE r == OnMined(a.t, h, b, Number(b), legs, h \in Failing, conf, f, {})
<1>1. a \in HandlerState /\ a.t.txs \in [Hash -> Tx]
  BY DEF Within, Handled, Good, TrackerState
<1>2. Proper(r)
  BY <1>1, OnMinedProper
<1> HIDE DEF r
<1>3. Deep(emitAll(a, r))
  BY <1>1, <1>2, EmitDeep
<1> QED
  BY <1>3 DEF MineStep, r

\* a slot used, a transaction looked up,
LEMMA QuietStepsDeep ==
    ASSUME NEW ring, NEW a \in Within(ring), Deep(a), NEW h \in Hash, NEW known
    PROVE  Deep(UseStep(h, a)) /\ Deep(DropStep(h, a, known)) /\ Deep(emitAll(a, Demote(a.t, h)))
<1>1. a \in HandlerState
  BY DEF Within, Handled
<1>2. /\ Proper(OnNonceUsed(a.t, SlotOf[h], h, {})) /\ Proper(OnDropStale(a.t, h, h \in known, {}))
      /\ Proper(Demote(a.t, h))
  BY OthersProper
<1> QED
  BY <1>1, <1>2, EmitDeep DEF UseStep, DropStep

\* and one promoted.
LEMMA PromoteDeep ==
    ASSUME NEW ring, NEW a \in Within(ring), Deep(a), NEW h \in Hash, ReceiptBlocks(h) # {},
           chain \in Block, Fair(fin)
    PROVE  Deep(promotePendingTx(h, a))
<1> DEFINE b == CHOOSE x \in ReceiptBlocks(h) : TRUE
           logs == IF h \in Failing THEN {} ELSE FoundLegs[h] \ {"native"}
           legs == NativeLegs(a.t, h) \cup logs
           conf == confirmationsFor(c, Number(b))
<1>1. promotePendingTx(h, a) = MineStep(h, a, b, legs, conf, fin)
  BY DEF promotePendingTx, Calling, MineStep
<1>2. Justified(Number(b), conf, fin)
  BY ReceiptNumber DEF Fair
<1> HIDE DEF b, legs, conf
<1> QED
  BY <1>1, <1>2, MineStepDeep

-----------------------------------------------------------------------------
(* What finality has decided *)

\* The transactions of the finalized part of the node's chain.
Decided == OnChain(BlockAt(chain, final))

\* A mined transaction, and a mined row, carries its block's number; a
\* confirmed row is decided.
Numbered(st) == \A h \in Hash : IsMined(st, h) => st.txs[h].num = Len(st.txs[h].block)
RowsNumbered(rs) == \A h \in Hash : rs[h].status = "mined" => rs[h].tx.num = Len(rs[h].tx.block)
RowsDecided(rs) == \A h \in Hash : rs[h].status = "confirmed" => h \in Decided

Lasting(s) == Numbered(s.t) /\ RowsNumbered(s.db) /\ RowsDecided(s.db)

\* A method confirms only what is.
Earned(r) == \A e \in r.evs : e.typ = "confirmed" => e.hash \in Decided

\* The node's final number, and the indexer's.
Finality == TagMode /\ final \in Nat /\ final <= Len(chain) /\ fin \in 0..final

\* b's transactions are decided, if its number is final.
Decides(b) == Number(b) <= final => TxsOf(b) \subseteq Decided

\* A block of the node's chain decides its transactions once it is final,
LEMMA FinalDecides ==
    ASSUME chain \in Block, final \in Nat, final <= Len(chain), NEW n \in 1..final
    PROVE  TxsIn[chain[n]] \subseteq Decided
<1>1. chain \in Seq(Body) /\ Len(chain) \in Nat
  BY BlockIsSeq DEF Heights
<1>2. n \in 1..Len(chain) /\ final \in 1..Len(chain)
  BY <1>1
<1>3. Len(BlockAt(chain, final)) = final
  BY <1>2, PrefixBlock
<1>4. BlockAt(chain, final)[n] = chain[n]
  <2>1. \A i \in 1..final : chain[i] \in Body
    BY <1>1
  <2>2. \A i \in 1..(final - 1 + 1) : SubSeq(chain, 1, final)[i] = chain[1 + i - 1]
    BY <1>1, <1>2, <2>1, SubSeqProperties
  <2> QED
    BY <1>1, <2>2 DEF BlockAt
<1> QED
  BY <1>3, <1>4 DEF Decided, OnChain

\* so that a receipt with a final number does.
LEMMA ReceiptDecides ==
    ASSUME chain \in Block, final \in Nat, final <= Len(chain), NEW h \in Hash,
           NEW b \in ReceiptBlocks(h), Number(b) <= final
    PROVE  h \in Decided
<1>1. PICK n \in 1..Len(chain) : h \in TxsIn[chain[n]] /\ b = BlockAt(chain, n)
  BY DEF ReceiptBlocks
<1>2. Number(b) = n
  BY <1>1, PrefixBlock DEF Number
<1>3. n \in 1..final
  BY <1>2
<1> QED
  BY <1>1, <1>3, FinalDecides

\* A row that is written is numbered, and decided when it is confirmed.
LEMMA PersistedLasting ==
    ASSUME NEW st, Good(st), Numbered(st), NEW h \in Hash, NEW old \in RowType, NEW e,
           e.typ = "confirmed" => h \in Decided, ~Tracked(st, h) => e.typ \in Terminal,
           old.status = "mined" => old.tx.num = Len(old.tx.block),
           old.status = "confirmed" => h \in Decided
    PROVE  /\ Persisted(old, st, h, e).status = "mined" =>
                Persisted(old, st, h, e).tx.num = Len(Persisted(old, st, h, e).tx.block)
           /\ Persisted(old, st, h, e).status = "confirmed" => h \in Decided
<1> DEFINE new == Persisted(old, st, h, e)
           row == [status |-> st.txs[h].state, tx |-> ExportTx(st, h)]
<1>1. st.txs[h] \in Tx
  BY DEF Good, TrackerState
<1>2. CASE Tracked(st, h)
  <2>1. new = row \/ new = old
    BY <1>2 DEF Persisted
  <2>2. row.status # "confirmed"
    BY <1>1 DEF Tx
  <2>3. row.status = "mined" => row.tx.num = Len(row.tx.block)
    BY DEF ExportTx, Numbered, IsMined, IsPending
  <2> HIDE DEF new, row
  <2> QED
    BY <2>1, <2>2, <2>3 DEF new
<1>3. CASE ~Tracked(st, h)
  <2>1. new = old \/ new = [old EXCEPT !.status = e.typ] \/ new = RowFromEvent(e)
    BY <1>3 DEF Persisted
  <2>2. new = old \/ new.status = e.typ
    BY <2>1 DEF RowType, RowFromEvent
  <2>3. e.typ # "mined"
    BY <1>3 DEF Terminal
  <2> HIDE DEF new
  <2> QED
    BY <2>2, <2>3 DEF new
<1> QED
  BY <1>2, <1>3

\* emitAll keeps that of every row.
LEMMA EmitLasting ==
    ASSUME NEW s \in Handled, Lasting(s), NEW r, Sound(r), Reports(s.t, r), Numbered(r.t), Earned(r)
    PROVE  Lasting(emitAll(s, r))
<1> DEFINE rs == persistEvents(s.db, r.t, r.evs)
<1>1. s \in HandlerState /\ SaneRows(s.db) /\ Good(r.t)
  BY DEF Handled, Sound
<1>2. emitAll(s, r).t = r.t /\ emitAll(s, r).db = rs
  BY <1>1 DEF emitAll, HandlerState
<1>3. ASSUME NEW h \in Hash
      PROVE  /\ rs[h].status = "mined" => rs[h].tx.num = Len(rs[h].tx.block)
             /\ rs[h].status = "confirmed" => h \in Decided
  <2>1. /\ s.db[h] \in RowType
        /\ s.db[h].status = "mined" => s.db[h].tx.num = Len(s.db[h].tx.block)
        /\ s.db[h].status = "confirmed" => h \in Decided
    BY <1>1 DEF SaneRows, Lasting, RowsNumbered, RowsDecided
  <2>2. CASE ~About(r.evs, h)
    BY <2>1, <2>2, PersistedRows
  <2>3. CASE About(r.evs, h)
    <3>1. PICK e \in r.evs : e.hash = h /\ rs[h] = Persisted(s.db[h], r.t, h, e)
      BY <2>3, PersistedRows
    <3>2. /\ e.typ = "confirmed" => h \in Decided
          /\ ~Tracked(r.t, h) => e.typ \in Terminal
      BY <3>1 DEF Earned, Reports
    <3> HIDE DEF rs
    <3> QED
      BY <1>1, <2>1, <3>1, <3>2, PersistedLasting
  <2> QED
    BY <2>2, <2>3
<1> HIDE DEF rs
<1> QED
  BY <1>2, <1>3 DEF Lasting, RowsNumbered, RowsDecided

\* Methods that end or demote transactions leave the mined ones they do not
\* touch alone.
LEMMA EndedOrDemoted ==
    ASSUME NEW st, NEW R, NEW txs,
           \/ txs = Forget(st.txs, R)
           \/ txs = [h \in Hash |-> IF h \in R THEN DemotedTx(st.txs[h]) ELSE st.txs[h]],
           st.txs \in [Hash -> Tx], NEW g \in Hash
    PROVE  txs[g] = st.txs[g] \/ txs[g].state # "mined"
<1>1. st.txs[g] \in Tx /\ NoTx.state # "mined"
  BY DEF NoTx
<1>2. DemotedTx(st.txs[g]).state = "pending"
  <2>1. ASSUME NEW x \in Tx PROVE DemotedTx(x).state = "pending"
    BY Zenon DEF DemotedTx, Tx
  <2> QED
    BY <1>1, <2>1
<1>3. CASE txs = Forget(st.txs, R)
  <2>1. txs[g] = IF g \in R THEN NoTx ELSE st.txs[g]
    BY <1>3 DEF Forget
  <2> QED
    BY <1>1, <2>1
<1>4. CASE txs = [h \in Hash |-> IF h \in R THEN DemotedTx(st.txs[h]) ELSE st.txs[h]]
  BY <1>2, <1>4
<1> QED
  BY <1>3, <1>4

\* A transaction found in a block is confirmed for that block's number.
LEMMA OnMinedEarned ==
    ASSUME NEW st, NEW h \in Hash, NEW b, NEW transfers, NEW failed, NEW conf, NEW f,
           NEW E, st.txs \in [Hash -> Tx], TagMode, Number(b) <= f => h \in Decided
    PROVE  Earned(OnMined(st, h, b, Number(b), transfers, failed, conf, f, E))
<1> DEFINE n == Number(b)
           tx  == MinedTx(st.txs[h], b, n, transfers)
           txs == [st.txs EXCEPT ![h] = tx]
           depth == IF conf = 0 THEN 1 ELSE conf
           verdict == Verdict(tx, failed, depth, f)
           r == OnMined(st, h, b, n, transfers, failed, conf, f, E)
<1>1. r.evs = {} \/ r.evs = events(txs, {h}, verdict, depth, {})
  BY DEF OnMined, Unheard
<1>2. tx.num = n
  BY DEF MinedTx
<1>3. verdict = "confirmed" => h \in Decided
  BY <1>2 DEF Verdict, confirmedAt
<1> HIDE DEF r, tx, txs, depth, verdict, n
<1>4. \A e \in events(txs, {h}, verdict, depth, {}) : e.typ = verdict /\ e.hash = h
  BY DEF events
<1> QED
  BY <1>1, <1>3, <1>4 DEF Earned, r, n

\* ... and then carries it.
LEMMA OnMinedNumbered ==
    ASSUME NEW st, Good(st), Numbered(st), NEW h \in Hash, NEW b, NEW transfers, NEW failed,
           NEW conf, NEW f, NEW E
    PROVE  Numbered(OnMined(st, h, b, Number(b), transfers, failed, conf, f, E).t)
<1> DEFINE n == Number(b)
           tx  == MinedTx(st.txs[h], b, n, transfers)
           txs == [st.txs EXCEPT ![h] = tx]
           r == OnMined(st, h, b, n, transfers, failed, conf, f, E)
<1>1. st \in TrackerState /\ st.txs \in [Hash -> Tx]
  BY DEF Good, TrackerState
<1>2. r.t.txs = st.txs \/ r.t.txs = txs \/ r.t.txs = Forget(txs, {h})
  BY <1>1 DEF OnMined, Unheard, TrackerState
<1>3. tx.num = n /\ tx.block = b
  BY DEF MinedTx
<1>4. txs[h] = tx /\ \A g \in Hash \ {h} : txs[g] = st.txs[g]
  BY <1>1
<1> HIDE DEF r, tx, txs
<1>5. \A g \in Hash : txs[g].state = "mined" => txs[g].num = Len(txs[g].block)
  BY <1>3, <1>4 DEF Numbered, IsMined, Number
<1>6. \A g \in Hash : Forget(txs, {h})[g] = txs[g] \/ Forget(txs, {h})[g].state # "mined"
  BY DEF Forget, NoTx
<1> QED
  BY <1>2, <1>5, <1>6 DEF Numbered, IsMined, r

\* The other methods keep the numbers, and confirm nothing.
LEMMA OthersNumbered ==
    ASSUME NEW st, Good(st), Numbered(st), NEW h \in Hash, NEW x, NEW E
    PROVE  /\ Numbered(OnPending(st, h, x).t) /\ Numbered(OnDropStale(st, h, x, E).t)
           /\ Numbered(OnNonceUsed(st, x, h, E).t) /\ Numbered(OnReorg(st, x).t)
           /\ Numbered(Demote(st, h).t) /\ Numbered(Confirm(st, h, x, E).t)
<1>1. st.txs \in [Hash -> Tx] /\ st \in TrackerState
  BY DEF Good, TrackerState
<1>2. ASSUME NEW new, NEW R, new.txs = Forget(st.txs, R) PROVE Numbered(new)
  <2>1. \A g \in Hash : new.txs[g] = st.txs[g] \/ new.txs[g].state # "mined"
    BY <1>1, <1>2, EndedOrDemoted
  <2> QED
    BY <2>1 DEF Numbered, IsMined
<1>3. ASSUME NEW R PROVE Numbered(DemoteAll(st, R).t)
  <2>1. DemoteAll(st, R).t.txs =
          [g \in Hash |-> IF g \in R THEN DemotedTx(st.txs[g]) ELSE st.txs[g]]
    BY <1>1 DEF DemoteAll, TrackerState
  <2> DEFINE new == DemoteAll(st, R).t
  <2> HIDE DEF new
  <2>2. \A g \in Hash : new.txs[g] = st.txs[g] \/ new.txs[g].state # "mined"
    BY <1>1, <2>1, EndedOrDemoted DEF new
  <2>3. Numbered(new)
    BY <2>2 DEF Numbered, IsMined
  <2> QED
    BY <2>3 DEF new
<1>4. Numbered(Unheard(st).t)
  BY DEF Unheard
<1>5. Numbered(OnPending(st, h, x).t)
  <2>1. \/ OnPending(st, h, x).t = st
        \/ OnPending(st, h, x).t.txs = [st.txs EXCEPT ![h] = PendingTx(x)]
    BY <1>1 DEF OnPending, Unheard, TrackerState
  <2>2. PendingTx(x).state # "mined"
    BY DEF PendingTx, NoTx
  <2>3. \A g \in Hash : \/ [st.txs EXCEPT ![h] = PendingTx(x)][g] = st.txs[g]
                        \/ [st.txs EXCEPT ![h] = PendingTx(x)][g].state # "mined"
    BY <1>1, <2>2
  <2> DEFINE new == OnPending(st, h, x).t
  <2> HIDE DEF new
  <2>4. new = st \/ \A g \in Hash : new.txs[g] = st.txs[g] \/ new.txs[g].state # "mined"
    BY <2>1, <2>3 DEF new
  <2>5. Numbered(new)
    BY <2>4 DEF Numbered, IsMined
  <2> QED
    BY <2>5 DEF new
<1>6. Numbered(OnDropStale(st, h, x, E).t)
  <2> DEFINE txs == [st.txs EXCEPT ![h].stale = FALSE]
             r == OnDropStale(st, h, x, E)
  <2>1. r.t = st \/ (IsPending(st, h) /\ r.t.txs = txs) \/ r.t.txs = Forget(st.txs, {h})
    BY <1>1 DEF OnDropStale, Unheard, TrackerState
  <2>2. ASSUME IsPending(st, h), NEW g \in Hash PROVE txs[g] = st.txs[g] \/ txs[g].state # "mined"
    <3>1. st.txs[h] \in Tx /\ st.txs[h].state = "pending"
      BY <1>1, <2>2 DEF IsPending
    <3>2. [st.txs[h] EXCEPT !.stale = FALSE].state = "pending"
      BY <3>1 DEF Tx
    <3> QED
      BY <1>1, <3>2
  <2> HIDE DEF r, txs
  <2>3. CASE IsPending(st, h) /\ r.t.txs = txs
    <3>1. \A g \in Hash : r.t.txs[g] = st.txs[g] \/ r.t.txs[g].state # "mined"
      BY <2>2, <2>3
    <3>2. Numbered(r.t)
      BY <3>1 DEF Numbered, IsMined
    <3> QED
      BY <3>2 DEF r
  <2> QED
    BY <1>2, <2>1, <2>3 DEF r
<1>7. Numbered(OnNonceUsed(st, x, h, E).t)
  BY <1>2 DEF OnNonceUsed
<1>8. Numbered(Confirm(st, h, x, E).t)
  <2>1. Confirm(st, h, x, E).t = st \/ Confirm(st, h, x, E).t.txs = Forget(st.txs, {h})
    BY <1>1 DEF Confirm, Unheard, TrackerState
  <2> QED
    BY <1>2, <2>1
<1> QED
  BY <1>3, <1>4, <1>5, <1>6, <1>7, <1>8 DEF OnReorg, Demote

\* They report no confirmation.
LEMMA OthersEarned ==
    ASSUME NEW st, NEW h, NEW x, NEW E
    PROVE  /\ Earned(OnPending(st, h, x)) /\ Earned(OnDropStale(st, h, x, E))
           /\ Earned(OnNonceUsed(st, x, h, E)) /\ Earned(OnReorg(st, x)) /\ Earned(Demote(st, h))
<1>1. Earned(OnPending(st, h, x))
  BY DEF OnPending, Unheard, events, Earned
<1>2. Earned(OnDropStale(st, h, x, E))
  BY DEF OnDropStale, Unheard, events, Earned
<1>3. Earned(OnNonceUsed(st, x, h, E))
  BY DEF OnNonceUsed, events, Earned
<1>4. ASSUME NEW R PROVE Earned(DemoteAll(st, R))
  BY DEF DemoteAll, events, Earned
<1>5. Earned(Unheard(st))
  BY DEF Unheard, Earned
<1> QED
  BY <1>1, <1>2, <1>3, <1>4, <1>5 DEF OnReorg, Demote

\* A block's transaction,
LEMMA MineStepLasting ==
    ASSUME NEW ring, NEW a \in Within(ring), Lasting(a), NEW h \in Hash, NEW b \in Block,
           NEW legs \in SUBSET LegKind, Storable(legs) \/ h \in Failing, NEW conf, NEW f,
           TagMode, Number(b) <= f => h \in Decided
    PROVE  Lasting(MineStep(h, a, b, legs, conf, f))
<1> DEFINE r == OnMined(a.t, h, b, Number(b), legs, h \in Failing, conf, f, {})
<1>1. a \in Handled /\ Good(a.t) /\ a.t.txs \in [Hash -> Tx] /\ Numbered(a.t)
  BY DEF Within, Handled, Good, TrackerState, Lasting
<1>2. Number(b) \in Nat \ {0} /\ (h \in Failing) \in BOOLEAN
  BY BlockNumber
<1>3. Sound(r)
  BY <1>1, <1>2, OnMinedSound
<1>4. Reports(a.t, r)
  BY <1>1, <1>2, OnMinedReports
<1>5. Numbered(r.t)
  BY <1>1, OnMinedNumbered
<1>6. Earned(r)
  BY <1>1, OnMinedEarned
<1> HIDE DEF r
<1>7. Lasting(emitAll(a, r))
  BY <1>1, <1>3, <1>4, <1>5, <1>6, EmitLasting
<1> QED
  BY <1>7 DEF MineStep, r

\* a slot used, a transaction looked up or demoted,
LEMMA QuietStepsLasting ==
    ASSUME NEW ring, NEW a \in Within(ring), Lasting(a), NEW h \in Hash, NEW known
    PROVE  /\ Lasting(UseStep(h, a)) /\ Lasting(DropStep(h, a, known))
           /\ Lasting(emitAll(a, Demote(a.t, h)))
<1> DEFINE u == OnNonceUsed(a.t, SlotOf[h], h, {})
           d == OnDropStale(a.t, h, h \in known, {})
           m == Demote(a.t, h)
<1>1. a \in Handled /\ Good(a.t) /\ Numbered(a.t) /\ SlotOf[h] \in Slot
      /\ (h \in known) \in BOOLEAN
  BY SlotAssumption DEF Within, Handled, Lasting
<1>2. Sound(u) /\ Reports(a.t, u)
  BY <1>1, OnNonceUsedSound, OnNonceUsedReports
<1>3. Sound(d) /\ Reports(a.t, d)
  BY <1>1, OnDropStaleSound, OnDropStaleReports
<1>4. Sound(m) /\ Reports(a.t, m)
  <2>1. Sound(m)
    BY <1>1, DemoteSound
  <2>2. CASE IsMined(a.t, h)
    <3>1. {h} \in SUBSET Hash /\ \A g \in {h} : IsMined(a.t, g)
      BY <2>2
    <3>2. Reports(a.t, DemoteAll(a.t, {h}))
      BY <1>1, <3>1, DemoteAllReports
    <3> QED
      BY <2>1, <2>2, <3>2 DEF Demote
  <2>3. CASE ~IsMined(a.t, h)
    <3>1. m.evs = {} /\ m.t = a.t
      BY <2>3 DEF Demote, Unheard
    <3> HIDE DEF m
    <3> QED
      BY <1>1, <2>1, <3>1, UnheardReports
  <2> QED
    BY <2>2, <2>3
<1>5. Numbered(u.t) /\ Numbered(d.t) /\ Numbered(m.t)
  BY <1>1, OthersNumbered
<1>6. Earned(u) /\ Earned(d) /\ Earned(m)
  BY OthersEarned
<1> HIDE DEF u, d, m
<1>7. Lasting(emitAll(a, u)) /\ Lasting(emitAll(a, d)) /\ Lasting(emitAll(a, m))
  BY <1>1, <1>2, <1>3, <1>4, <1>5, <1>6, EmitLasting
<1> QED
  BY <1>7 DEF UseStep, DropStep, u, d, m

\* one promoted,
LEMMA PromoteLasting ==
    ASSUME NEW ring, NEW a \in Within(ring), Lasting(a), NEW h \in Hash, chain \in Block,
           ReceiptBlocks(h) # {}, TagMode, final \in Nat, final <= Len(chain), fin \in 0..final
    PROVE  Lasting(promotePendingTx(h, a))
<1> DEFINE b == CHOOSE x \in ReceiptBlocks(h) : TRUE
           logs == IF h \in Failing THEN {} ELSE FoundLegs[h] \ {"native"}
           legs == NativeLegs(a.t, h) \cup logs
           conf == confirmationsFor(c, Number(b))
<1>1. promotePendingTx(h, a) = MineStep(h, a, b, legs, conf, fin)
  BY DEF promotePendingTx, Calling, MineStep
<1>2. b \in Block /\ b \in ReceiptBlocks(h)
  BY ReceiptBlock
<1>3. FoundLegs[h] \in SUBSET {"native", "log"}
  BY IndexerAssumption
<1>4. legs \in SUBSET LegKind /\ "calldata" \notin legs
  BY <1>3 DEF NativeLegs, LegKind
<1>5. Storable(legs)
  BY <1>4 DEF Storable
<1> HIDE DEF b, legs, conf
<1>6. Number(b) <= fin => h \in Decided
  <2>1. Number(b) \in Nat
    BY <1>2, BlockNumber
  <2>2. Number(b) <= fin => Number(b) <= final
    BY <2>1
  <2> QED
    BY <1>2, <2>2, ReceiptDecides
<1> QED
  BY <1>1, <1>2, <1>4, <1>5, <1>6, MineStepLasting

\* and one checked: its receipt says what the tracker does, or it is moved.
LEMMA CheckOneLasting ==
    ASSUME NEW ring, NEW a \in Within(ring), Lasting(a), NEW h \in Hash, NEW head, NEW f,
           chain \in Block, TagMode, final \in Nat, final <= Len(chain), f \in 0..final,
           a.t.txs[h].num <= final
    PROVE  Lasting(CheckOne(head, f, h, a))
<1> DEFINE found == ReceiptBlocks(h)
           b == CHOOSE x \in found : TRUE
           d == emitAll(a, Demote(a.t, h))
           conf == confirmationsFor(c, Number(b))
           q == Confirm(a.t, h, head, {})
<1>1. CheckOne(head, f, h, a) =
        IF found = {} THEN d
        ELSE IF b # a.t.txs[h].block THEN MineStep(h, d, b, {}, conf, f)
        ELSE emitAll(a, q)
  BY DEF CheckOne, Calling, MineStep
<1>2. d \in Within(ring) /\ Lasting(d)
  BY DemoteWithin, QuietStepsLasting
<1>3. found # {} => b \in Block /\ b \in ReceiptBlocks(h) /\ Number(b) \in Nat
  BY ReceiptBlock, BlockNumber
<1>4. {} \in SUBSET LegKind /\ Storable({})
  BY DEF Storable
<1>5. a \in Handled /\ Good(a.t) /\ Numbered(a.t)
  BY DEF Within, Handled, Lasting
<1>6. Sound(q) /\ Reports(a.t, q)
  BY <1>5, ConfirmSound, ConfirmReports
<1>7. Numbered(q.t)
  BY <1>5, OthersNumbered
<1>8. ASSUME found # {}, b = a.t.txs[h].block PROVE Earned(q)
  <2>1. CASE ~IsMined(a.t, h)
    BY <2>1 DEF Confirm, Unheard, Earned
  <2>2. CASE IsMined(a.t, h)
    <3>1. Number(b) = a.t.txs[h].num
      BY <1>5, <1>8, <2>2 DEF Numbered, Number
    <3>2. h \in Decided
      BY <1>3, <1>8, <3>1, ReceiptDecides
    <3>3. \A e \in q.evs : e.hash = h
      BY DEF Confirm, Unheard, events
    <3> QED
      BY <3>2, <3>3 DEF Earned
  <2> QED
    BY <2>1, <2>2
<1> HIDE DEF found, b, d, conf, q
<1>9. found # {} => (Number(b) <= f => h \in Decided)
  <2>1. found # {} /\ Number(b) <= f => Number(b) <= final
    BY <1>3
  <2> QED
    BY <1>3, <2>1, ReceiptDecides
<1>10. found # {} => Lasting(MineStep(h, d, b, {}, conf, f))
  BY <1>2, <1>3, <1>4, <1>9, MineStepLasting
<1>11. found # {} /\ b = a.t.txs[h].block => Lasting(emitAll(a, q))
  BY <1>5, <1>6, <1>7, <1>8, EmitLasting
<1> QED
  BY <1>1, <1>2, <1>10, <1>11

-----------------------------------------------------------------------------
(* What the loops achieve *)

\* No other transaction known to hold a slot one of T used is pending.
SlotsClear(st, T) ==
    \A g \in T : \A h \in Hash \ {g} :
        SlotOf[g] = SlotOf[h] /\ IsPending(st, h) => ~st.txs[h].hasNonce

\* None of T is pending.
NonePending(st, T) == \A h \in T : ~IsPending(st, h)

\* Those of T that are pending have a fresh timer, and none became pending.
Answered(st, T) ==
    /\ \A h \in T : IsPending(st, h) => ~st.txs[h].stale
    /\ \A h \in Hash : IsPending(st, h) => IsPending(t, h)

\* The tracker of a step is its method's.
LEMMA UseStepTracker ==
    ASSUME NEW ring, NEW a \in Within(ring), NEW h \in Hash
    PROVE  UseStep(h, a).t = OnNonceUsed(a.t, SlotOf[h], h, {}).t
<1> DEFINE r == OnNonceUsed(a.t, SlotOf[h], h, {})
<1>1. UseStep(h, a) = emitAll(a, r) /\ a \in HandlerState
  BY DEF UseStep, Within, Handled
<1> HIDE DEF r
<1>2. UseStep(h, a).t = r.t
  BY <1>1 DEF emitAll, HandlerState
<1> QED
  BY <1>2 DEF r

\* A used slot is cleared, and stays clear.
LEMMA UseClears ==
    ASSUME NEW st, Good(st), NEW p \in Hash, NEW T \in SUBSET Hash, SlotsClear(st, T \ {p})
    PROVE  SlotsClear(OnNonceUsed(st, SlotOf[p], p, {}).t, T)
<1> DEFINE R == ReplacedOccupants(st, SlotOf[p], p)
           new == OnNonceUsed(st, SlotOf[p], p, {}).t
<1>1. st.txs \in [Hash -> Tx] /\ SlotOf[p] \in Slot
  BY SlotAssumption DEF Good, TrackerState
<1>2. new.txs = Forget(st.txs, R)
  BY DEF OnNonceUsed
<1>3. \A h \in Hash : h \in R <=> st.byNonce[SlotOf[p]][h] > 0 /\ h # p /\ IsPending(st, h)
  BY DEF ReplacedOccupants
<1> HIDE DEF R, new
<1>4. /\ \A h \in R \cap Hash : new.txs[h] = NoTx
      /\ \A h \in Hash \ R : new.txs[h] = st.txs[h]
  BY <1>1, <1>2, ForgetKeeps
<1>5. SUFFICES ASSUME NEW g \in T, NEW h \in Hash \ {g}, SlotOf[g] = SlotOf[h],
                      IsPending(new, h), new.txs[h].hasNonce
               PROVE  FALSE
  BY DEF SlotsClear, new
<1>6. h \notin R /\ new.txs[h] = st.txs[h] /\ IsPending(st, h) /\ st.txs[h].hasNonce
  BY <1>4, <1>5, NoTxStorable DEF IsPending
<1>7. CASE g = p
  <2>1. st.byNonce[SlotOf[p]][h] = 1
    BY <1>1, <1>5, <1>6, <1>7 DEF Good, Exact, IsPending
  <2> QED
    BY <1>3, <1>5, <1>6, <1>7, <2>1
<1>8. CASE g # p
  BY <1>5, <1>6, <1>8 DEF SlotsClear
<1> QED
  BY <1>7, <1>8

\* h is not pending any more; the others stay.
Settles(old, new, h) == ~IsPending(new, h) /\ \A g \in Hash \ {h} : new.txs[g] = old.txs[g]

\* A transaction found in a block is settled.
LEMMA OnMinedSettles ==
    ASSUME NEW st, Good(st), NEW h \in Hash, NEW b \in Block, NEW n \in Nat \ {0},
           NEW transfers \in SUBSET LegKind, NEW failed \in BOOLEAN, NEW conf, NEW f, NEW E
    PROVE  Settles(st, OnMined(st, h, b, n, transfers, failed, conf, f, E).t, h)
<1> DEFINE tx  == MinedTx(st.txs[h], b, n, transfers)
           txs == [st.txs EXCEPT ![h] = tx]
           r == OnMined(st, h, b, n, transfers, failed, conf, f, E)
<1>1. st \in TrackerState /\ st.txs \in [Hash -> Tx] /\ st.txs[h] \in Tx
  BY DEF Good, TrackerState
<1>2. tx \in Tx /\ tx.state = "mined"
  BY <1>1, MinedTxFields
<1>3. \/ st.tombstones[h] = "confirmed" /\ r.t = st
      \/ IsMined(st, h) /\ r.t = [st EXCEPT !.tombstones = Exhume(st.tombstones, h)]
      \/ r.t.txs = txs
      \/ r.t.txs = Forget(txs, {h})
  BY DEF OnMined, Unheard
<1> HIDE DEF r, tx
<1>4. /\ txs \in [Hash -> Tx] /\ txs[h] = tx
      /\ \A g \in Hash \ {h} : txs[g] = st.txs[g]
  BY <1>1, <1>2
<1> HIDE DEF txs
<1>5. /\ Forget(txs, {h})[h] = NoTx
      /\ \A g \in Hash \ {h} : Forget(txs, {h})[g] = st.txs[g]
  BY <1>4, ForgetKeeps
<1>6. st.tombstones[h] = "confirmed" => ~IsPending(st, h)
  BY DEF Good, Apart, IsPending
<1>7. ~IsPending(r.t, h) /\ \A g \in Hash \ {h} : r.t.txs[g] = st.txs[g]
  <2>1. CASE st.tombstones[h] = "confirmed" /\ r.t = st
    BY <1>6, <2>1
  <2>2. CASE IsMined(st, h) /\ r.t = [st EXCEPT !.tombstones = Exhume(st.tombstones, h)]
    <3>1. r.t.txs = st.txs
      BY <1>1, <2>2 DEF TrackerState
    <3> QED
      BY <2>2, <3>1 DEF IsMined, IsPending
  <2>3. CASE r.t.txs = txs
    BY <1>2, <1>4, <2>3 DEF IsPending
  <2>4. CASE r.t.txs = Forget(txs, {h})
    BY <1>5, <2>4, NoTxStorable DEF IsPending
  <2> QED
    BY <1>3, <2>1, <2>2, <2>3, <2>4
<1> QED
  BY <1>7 DEF r, Settles

\* A promoted transaction is not pending any more.
LEMMA PromoteSettles ==
    ASSUME NEW ring, NEW a \in Within(ring), NEW h \in Hash, chain \in Block,
           ReceiptBlocks(h) # {}, NEW T \in SUBSET Hash, NonePending(a.t, T \ {h})
    PROVE  NonePending(promotePendingTx(h, a).t, T)
<1> DEFINE b == CHOOSE x \in ReceiptBlocks(h) : TRUE
           logs == IF h \in Failing THEN {} ELSE FoundLegs[h] \ {"native"}
           legs == NativeLegs(a.t, h) \cup logs
           conf == confirmationsFor(c, Number(b))
           r == OnMined(a.t, h, b, Number(b), legs, h \in Failing, conf, fin, {})
<1>1. promotePendingTx(h, a).t = r.t
  <2>1. promotePendingTx(h, a) = emitAll(a, r)
    BY DEF promotePendingTx, Calling
  <2>2. a \in HandlerState
    BY DEF Within, Handled
  <2> HIDE DEF r
  <2> QED
    BY <2>1, <2>2 DEF emitAll, HandlerState
<1>2. b \in Block
  BY ReceiptBlock
<1>3. FoundLegs[h] \in SUBSET {"native", "log"}
  BY IndexerAssumption
<1>4. legs \in SUBSET LegKind
  BY <1>3 DEF NativeLegs, LegKind
<1>5. Number(b) \in Nat \ {0} /\ (h \in Failing) \in BOOLEAN /\ Good(a.t)
  BY <1>2, BlockNumber DEF Within, Handled
<1> HIDE DEF b, legs, conf
<1>6. Settles(a.t, r.t, h)
  BY <1>2, <1>4, <1>5, OnMinedSettles
<1> HIDE DEF r
<1> QED
  BY <1>1, <1>6 DEF NonePending, IsPending, Settles

\* One that was looked up is dropped or gets a fresh timer.
LEMMA DropAnswers ==
    ASSUME NEW ring, NEW a \in Within(ring), NEW h \in Hash, NEW known,
           NEW T \in SUBSET Hash, Answered(a.t, T \ {h})
    PROVE  Answered(DropStep(h, a, known).t, T)
<1> DEFINE r == OnDropStale(a.t, h, h \in known, {})
<1>1. a \in HandlerState /\ Good(a.t) /\ a.t \in TrackerState /\ a.t.txs \in [Hash -> Tx]
  BY DEF Within, Handled, Good, TrackerState
<1>2. DropStep(h, a, known).t = r.t
  <2>1. DropStep(h, a, known) = emitAll(a, r)
    BY DEF DropStep
  <2> HIDE DEF r
  <2> QED
    BY <1>1, <2>1 DEF emitAll, HandlerState
<1>3. /\ IsPending(r.t, h) => ~r.t.txs[h].stale /\ IsPending(a.t, h)
      /\ \A g \in Hash \ {h} : r.t.txs[g] = a.t.txs[g]
  <2>1. CASE ~IsPending(a.t, h)
    BY <2>1 DEF OnDropStale, Unheard
  <2>2. CASE IsPending(a.t, h) /\ h \in known
    <3>1. r.t.txs = [a.t.txs EXCEPT ![h].stale = FALSE]
      BY <1>1, <2>2 DEF OnDropStale, Unheard, TrackerState
    <3>2. a.t.txs[h] \in Tx
      BY <1>1
    <3>3. /\ r.t.txs[h] = [a.t.txs[h] EXCEPT !.stale = FALSE]
          /\ \A g \in Hash \ {h} : r.t.txs[g] = a.t.txs[g]
      BY <1>1, <3>1
    <3>4. [a.t.txs[h] EXCEPT !.stale = FALSE].stale = FALSE
      BY <3>2 DEF Tx
    <3> QED
      BY <2>2, <3>3, <3>4
  <2>3. CASE IsPending(a.t, h) /\ h \notin known
    <3>1. r.t.txs = Forget(a.t.txs, {h})
      BY <2>3 DEF OnDropStale
    <3>2. r.t.txs[h] = NoTx /\ \A g \in Hash \ {h} : r.t.txs[g] = a.t.txs[g]
      BY <1>1, <3>1, ForgetKeeps
    <3> QED
      BY <3>2, NoTxStorable DEF IsPending
  <2> QED
    BY <2>1, <2>2, <2>3
<1> HIDE DEF r
<1> QED
  BY <1>2, <1>3 DEF Answered, IsPending

\* A candidate is checked: it is as deep as it was when it was listed, and the
\* others stay.
LEMMA CheckOneDeep ==
    ASSUME NEW ring, NEW a \in Within(ring), Deep(a), NEW h \in Hash, NEW head, NEW f,
           chain \in Block, Fair(f), Reached(a.t.txs[h].num)
    PROVE  Deep(CheckOne(head, f, h, a))
<1> DEFINE found == ReceiptBlocks(h)
           b == CHOOSE x \in found : TRUE
           d == emitAll(a, Demote(a.t, h))
           conf == confirmationsFor(c, Number(b))
<1>1. CheckOne(head, f, h, a) =
        IF found = {} THEN d
        ELSE IF b # a.t.txs[h].block THEN MineStep(h, d, b, {}, conf, f)
        ELSE emitAll(a, Confirm(a.t, h, head, {}))
  BY DEF CheckOne, Calling, MineStep
<1>2. d \in Within(ring) /\ Deep(d) /\ a \in HandlerState
  BY DemoteWithin, QuietStepsDeep DEF Within, Handled
<1>3. found # {} => Justified(Number(b), conf, f)
  BY ReceiptNumber DEF Fair
<1> HIDE DEF found, b, d, conf
<1>4. found # {} => Deep(MineStep(h, d, b, {}, conf, f))
  BY <1>2, <1>3, MineStepDeep
<1>5. Deep(emitAll(a, Confirm(a.t, h, head, {})))
  BY <1>2, ConfirmProper, EmitDeep
<1> QED
  BY <1>1, <1>2, <1>4, <1>5

\* Only h's entry changes; only those of T have changed.
Spares(old, new, h) == \A g \in Hash \ {h} : new.txs[g] = old.txs[g]

SparesAll(new, T) == \A g \in Hash \ T : new.txs[g] = t.txs[g]

\* Every one of hashes is mined as deep as configured.
AllReached(hashes) == \A h \in hashes : Reached(t.txs[h].num)

\* A check changes only the entry of its candidate.
LEMMA CheckOneSpares ==
    ASSUME NEW ring, NEW a \in Within(ring), NEW h \in Hash, NEW head, NEW f, chain \in Block
    PROVE  Spares(a.t, CheckOne(head, f, h, a).t, h)
<1> DEFINE found == ReceiptBlocks(h)
           b == CHOOSE x \in found : TRUE
           d == emitAll(a, Demote(a.t, h))
           conf == confirmationsFor(c, Number(b))
           r == OnMined(d.t, h, b, Number(b), {}, h \in Failing, conf, f, {})
           q == Confirm(a.t, h, head, {})
<1>1. CheckOne(head, f, h, a) = IF found = {} THEN d
                                ELSE IF b # a.t.txs[h].block THEN emitAll(d, r)
                                ELSE emitAll(a, q)
  BY DEF CheckOne, Calling
<1>2. a \in HandlerState /\ a.t \in TrackerState /\ a.t.txs \in [Hash -> Tx]
  BY DEF Within, Handled, Good, TrackerState
<1>3. d \in Within(ring) /\ d.t = Demote(a.t, h).t
  <2> DEFINE m == Demote(a.t, h)
  <2>1. d \in Within(ring)
    BY DemoteWithin
  <2> HIDE DEF m
  <2>2. emitAll(a, m).t = m.t
    BY <1>2 DEF emitAll, HandlerState
  <2> QED
    BY <2>1, <2>2 DEF m
<1>4. d \in HandlerState /\ Good(d.t)
  BY <1>3 DEF Within, Handled
<1>5. Spares(a.t, d.t, h)
  <2>1. CASE IsMined(a.t, h)
    <3>1. Demote(a.t, h).t.txs = [g \in Hash |-> IF g \in {h} THEN DemotedTx(a.t.txs[g])
                                                ELSE a.t.txs[g]]
      BY <1>2, <2>1 DEF Demote, DemoteAll, TrackerState
    <3> HIDE DEF d
    <3> QED
      BY <1>3, <3>1 DEF Spares
  <2>2. CASE ~IsMined(a.t, h)
    <3>1. Demote(a.t, h).t = a.t
      BY <2>2 DEF Demote, Unheard
    <3> HIDE DEF d
    <3> QED
      BY <1>3, <3>1 DEF Spares
  <2> QED
    BY <2>1, <2>2
<1>6. found # {} => b \in Block /\ Number(b) \in Nat \ {0}
  BY ReceiptBlock, BlockNumber
<1>7. {} \in SUBSET LegKind /\ (h \in Failing) \in BOOLEAN
  OBVIOUS
<1> HIDE DEF found, b, d, conf
<1>8. found # {} => Settles(d.t, r.t, h)
  BY <1>4, <1>6, <1>7, OnMinedSettles
<1>9. Spares(a.t, q.t, h)
  <2>1. q.t = a.t \/ q.t.txs = Forget(a.t.txs, {h})
    BY <1>2 DEF Confirm, Unheard, TrackerState
  <2> HIDE DEF q
  <2> QED
    BY <1>2, <2>1, ForgetKeeps DEF Spares
<1> HIDE DEF r, q
<1>10. emitAll(d, r).t = r.t /\ emitAll(a, q).t = q.t
  BY <1>2, <1>4 DEF emitAll, HandlerState
<1> QED
  BY <1>1, <1>5, <1>8, <1>9, <1>10 DEF Settles, Spares

-----------------------------------------------------------------------------
(* The loops *)

Mining(b, mode, conf, h, a) ==
    Calling(a, LAMBDA x : OnMined(x, h, b, Number(b), LegsFound(h, mode), h \in Failing, conf, fin, {}))
MineAll(s, b, mode, conf) ==
    LET Mine(h, a) == Mining(b, mode, conf, h, a) IN FoldSet(Mine, s, Scanned(b, mode))

Closing(b, conf, h, a) ==
    Calling(a, LAMBDA x : OnMined(x, h, b, Number(b), {}, h \in Failing, conf, fin, {}))
CloseAll(s, b, mode, open, conf) ==
    LET Close(h, a) == Closing(b, conf, h, a) IN FoldSet(Close, s, Uncovered(s, b, mode) \ open)

Using(h, a) == Calling(a, LAMBDA x : OnNonceUsed(x, SlotOf[h], h, {}))
UseAll(s, b) == LET Use(h, a) == Using(h, a) IN FoldSet(Use, s, TxsOf(b))

\* A block is processed in three loops.
LEMMA ThreeLoops ==
    ASSUME NEW s, NEW b, NEW mode, NEW open
    PROVE  LET conf == confirmationsFor(s.c, Number(b))
               s3 == UseAll(CloseAll(MineAll(s, b, mode, conf), b, mode, open, conf), b)
           IN  processBlock(s, b, mode, open) = [s3 EXCEPT !.c = record(@, Ref(b))]
BY DEF processBlock, MineAll, CloseAll, UseAll, Mining, Closing, Using, FoldSet, MapThenFoldSet

\* The transactions of a block, and the legs a scan finds, are known ones.
LEMMA TxsOfBlock == ASSUME NEW b \in Block PROVE TxsOf(b) \in SUBSET Hash
<1>1. b \in Seq(Body) /\ Len(b) \in 1..Len(b)
  BY BlockIsSeq DEF Heights
<1>2. b[Len(b)] \in Body
  BY <1>1
<1> QED
  BY <1>2, IndexerAssumption DEF TxsOf

\* Only a failing call shows both legs without a log index.
LEMMA LegsStorable ==
    ASSUME NEW h \in Hash, NEW mode
    PROVE  /\ LegsFound(h, mode) \in SUBSET LegKind
           /\ Storable(LegsFound(h, mode)) \/ h \in Failing
<1>1. CallLegs[h] \in SUBSET LegKind /\ FoundLegs[h] \in SUBSET {"native", "log"}
  BY IndexerAssumption DEF LegKind
<1> QED
  BY <1>1 DEF LegsFound, Storable, LegKind

Dropping(known, h, a) == Calling(a, LAMBDA x : OnDropStale(x, h, h \in known, {}))

\* Every transaction the scan found.
LEMMA MineAllWithin ==
    ASSUME NEW ring, NEW s \in Within(ring), NEW b \in Block, NEW mode, NEW conf
    PROVE  /\ MineAll(s, b, mode, conf) \in Within(ring)
           /\ Deep(s) /\ Justified(Number(b), conf, fin) => Deep(MineAll(s, b, mode, conf))
           /\ Lasting(s) /\ Finality /\ Decides(b) => Lasting(MineAll(s, b, mode, conf))
<1> DEFINE S == Scanned(b, mode)
           U == Within(ring)
           f == [p \in S \X U |-> Mining(b, mode, conf, p[1], p[2])]
           G == CHOOSE g : g = [T \in SUBSET S |-> IF T = {} THEN s
                                ELSE Mining(b, mode, conf, Pick(T), g[T \ {Pick(T)}])]
<1>1. MineAll(s, b, mode, conf) = G[S]
  BY DEF MineAll, FoldSet, MapThenFoldSet, Pick
<1>2. IsFiniteSet(S) /\ S \in SUBSET Hash
  <2>1. S \in SUBSET Hash
    BY TxsOfBlock DEF Scanned
  <2> QED
    BY <2>1, HashAssumption, FS_Subset
<1>3. ASSUME NEW h \in S, NEW x \in U PROVE Mining(b, mode, conf, h, x) \in U
  <2>1. h \in Hash /\ x \in Within(ring)
    BY <1>2
  <2>2. Mining(b, mode, conf, h, x) = MineStep(h, x, b, LegsFound(h, mode), conf, fin)
    BY DEF Mining, Calling, MineStep
  <2>3. LegsFound(h, mode) \in SUBSET LegKind /\ (Storable(LegsFound(h, mode)) \/ h \in Failing)
    BY <2>1, LegsStorable
  <2> HIDE DEF S, U
  <2> QED
    BY <2>1, <2>2, <2>3, MineStepWithin DEF U
<1> HIDE DEF S, U
<1>4. /\ f \in [S \X U -> U]
      /\ \A h \in S, x \in U : f[<<h, x>>] = Mining(b, mode, conf, h, x)
  BY <1>3
<1> HIDE DEF f
<1>5. s \in U
  BY DEF U
<1>6. PICK g \in [SUBSET S -> U] : FoldOf(g, S, s, f)
  BY <1>2, <1>4, <1>5, FoldExists
<1>7. \A T \in SUBSET S : T # {} => Pick(T) \in S /\ T \ {Pick(T)} \in SUBSET S
  BY PickIsIn
<1>8. g = [T \in SUBSET S |-> IF T = {} THEN s
            ELSE Mining(b, mode, conf, Pick(T), g[T \ {Pick(T)}])]
  BY <1>4, <1>6, <1>7 DEF FoldOf
<1>9. G = [T \in SUBSET S |-> IF T = {} THEN s
            ELSE Mining(b, mode, conf, Pick(T), G[T \ {Pick(T)}])]
  BY <1>8
<1> HIDE DEF G
<1>10. Folds(G, S, s, U, f)
  BY <1>4, <1>7, <1>9 DEF Folds
<1> DEFINE K == Deep(s) /\ Justified(Number(b), conf, fin)
           L == Lasting(s) /\ Finality /\ Decides(b)
           P == [T \in SUBSET S |-> {x \in U : (K => Deep(x)) /\ (L => Lasting(x))}]
<1>11. P \in [SUBSET S -> SUBSET U] /\ P[S] = {x \in U : (K => Deep(x)) /\ (L => Lasting(x))}
  OBVIOUS
<1>12. Climbs(P, S, s, f)
  <2>1. ASSUME NEW T \in SUBSET S, T # {}, NEW x \in U, K => Deep(x),
                      L => Lasting(x)
        PROVE  /\ f[<<Pick(T), x>>] \in U /\ (K => Deep(f[<<Pick(T), x>>]))
               /\ L => Lasting(f[<<Pick(T), x>>])
    <3>1. Pick(T) \in S /\ Pick(T) \in Hash /\ x \in Within(ring)
      BY <1>2, <1>7, <2>1 DEF U
    <3>2. /\ f[<<Pick(T), x>>] \in U
          /\ f[<<Pick(T), x>>] = MineStep(Pick(T), x, b, LegsFound(Pick(T), mode), conf, fin)
      BY <1>4, <3>1 DEF Mining, Calling, MineStep
    <3>3. K => Deep(MineStep(Pick(T), x, b, LegsFound(Pick(T), mode), conf, fin))
      BY <2>1, <3>1, MineStepDeep
    <3>4. Pick(T) \in TxsOf(b)
      BY <3>1 DEF S, Scanned
    <3>5. L => (Number(b) <= fin => Pick(T) \in Decided)
      <4>1. Number(b) \in Nat
        BY BlockNumber
      <4> QED
        BY <3>4, <4>1 DEF Finality, Decides
    <3>6. LegsFound(Pick(T), mode) \in SUBSET LegKind /\ (Storable(LegsFound(Pick(T), mode)) \/ Pick(T) \in Failing)
      BY <3>1, LegsStorable
    <3>7. L => Lasting(MineStep(Pick(T), x, b, LegsFound(Pick(T), mode), conf, fin))
      BY <2>1, <3>1, <3>5, <3>6, MineStepLasting DEF Finality
    <3> QED
      BY <3>2, <3>3, <3>7
  <2>2. ASSUME NEW T \in SUBSET S
        PROVE  /\ P[T] = {x \in U : (K => Deep(x)) /\ (L => Lasting(x))}
               /\ P[T \ {Pick(T)}] = {x \in U : (K => Deep(x)) /\ (L => Lasting(x))}
    OBVIOUS
  <2>3. P[{}] = {x \in U : (K => Deep(x)) /\ (L => Lasting(x))}
    OBVIOUS
  <2>4. (K => Deep(s)) /\ (L => Lasting(s))
    OBVIOUS
  <2> HIDE DEF P, K, L
  <2> QED
    BY <1>5, <2>1, <2>2, <2>3, <2>4 DEF Climbs
<1> HIDE DEF P
<1>13. G[S] \in P[S]
  BY <1>2, <1>4, <1>5, <1>10, <1>11, <1>12, FoldReaches
<1> QED
  BY <1>1, <1>11, <1>13 DEF U

\* Every pending one it did not cover.
LEMMA CloseAllWithin ==
    ASSUME NEW ring, NEW s \in Within(ring), NEW b \in Block, NEW mode, NEW open, NEW conf
    PROVE  /\ CloseAll(s, b, mode, open, conf) \in Within(ring)
           /\ Deep(s) /\ Justified(Number(b), conf, fin) => Deep(CloseAll(s, b, mode, open, conf))
           /\ Lasting(s) /\ Finality /\ Decides(b) => Lasting(CloseAll(s, b, mode, open, conf))
<1> DEFINE S == Uncovered(s, b, mode) \ open
           U == Within(ring)
           f == [p \in S \X U |-> Closing(b, conf, p[1], p[2])]
           G == CHOOSE g : g = [T \in SUBSET S |-> IF T = {} THEN s
                                ELSE Closing(b, conf, Pick(T), g[T \ {Pick(T)}])]
<1>1. CloseAll(s, b, mode, open, conf) = G[S]
  BY DEF CloseAll, FoldSet, MapThenFoldSet, Pick
<1>2. IsFiniteSet(S) /\ S \in SUBSET Hash
  <2>1. S \in SUBSET Hash
    BY TxsOfBlock DEF Uncovered
  <2> QED
    BY <2>1, HashAssumption, FS_Subset
<1>3. ASSUME NEW h \in S, NEW x \in U PROVE Closing(b, conf, h, x) \in U
  <2>1. h \in Hash /\ x \in Within(ring)
    BY <1>2
  <2>2. Closing(b, conf, h, x) = MineStep(h, x, b, {}, conf, fin)
    BY DEF Closing, Calling, MineStep
  <2>3. {} \in SUBSET LegKind /\ Storable({})
    BY DEF Storable
  <2> HIDE DEF S, U
  <2> QED
    BY <2>1, <2>2, <2>3, MineStepWithin DEF U
<1> HIDE DEF S, U
<1>4. /\ f \in [S \X U -> U]
      /\ \A h \in S, x \in U : f[<<h, x>>] = Closing(b, conf, h, x)
  BY <1>3
<1> HIDE DEF f
<1>5. s \in U
  BY DEF U
<1>6. PICK g \in [SUBSET S -> U] : FoldOf(g, S, s, f)
  BY <1>2, <1>4, <1>5, FoldExists
<1>7. \A T \in SUBSET S : T # {} => Pick(T) \in S /\ T \ {Pick(T)} \in SUBSET S
  BY PickIsIn
<1>8. g = [T \in SUBSET S |-> IF T = {} THEN s
            ELSE Closing(b, conf, Pick(T), g[T \ {Pick(T)}])]
  BY <1>4, <1>6, <1>7 DEF FoldOf
<1>9. G = [T \in SUBSET S |-> IF T = {} THEN s
            ELSE Closing(b, conf, Pick(T), G[T \ {Pick(T)}])]
  BY <1>8
<1> HIDE DEF G
<1>10. Folds(G, S, s, U, f)
  BY <1>4, <1>7, <1>9 DEF Folds
<1> DEFINE K == Deep(s) /\ Justified(Number(b), conf, fin)
           L == Lasting(s) /\ Finality /\ Decides(b)
           P == [T \in SUBSET S |-> {x \in U : (K => Deep(x)) /\ (L => Lasting(x))}]
<1>11. P \in [SUBSET S -> SUBSET U] /\ P[S] = {x \in U : (K => Deep(x)) /\ (L => Lasting(x))}
  OBVIOUS
<1>12. Climbs(P, S, s, f)
  <2>1. ASSUME NEW T \in SUBSET S, T # {}, NEW x \in U, K => Deep(x),
                      L => Lasting(x)
        PROVE  /\ f[<<Pick(T), x>>] \in U /\ (K => Deep(f[<<Pick(T), x>>]))
               /\ L => Lasting(f[<<Pick(T), x>>])
    <3>1. Pick(T) \in S /\ Pick(T) \in Hash /\ x \in Within(ring)
      BY <1>2, <1>7, <2>1 DEF U
    <3>2. /\ f[<<Pick(T), x>>] \in U
          /\ f[<<Pick(T), x>>] = MineStep(Pick(T), x, b, {}, conf, fin)
      BY <1>4, <3>1 DEF Closing, Calling, MineStep
    <3>3. K => Deep(MineStep(Pick(T), x, b, {}, conf, fin))
      BY <2>1, <3>1, MineStepDeep
    <3>4. Pick(T) \in TxsOf(b)
      BY <3>1 DEF S, Uncovered
    <3>5. L => (Number(b) <= fin => Pick(T) \in Decided)
      <4>1. Number(b) \in Nat
        BY BlockNumber
      <4> QED
        BY <3>4, <4>1 DEF Finality, Decides
    <3>6. {} \in SUBSET LegKind /\ (Storable({}) \/ Pick(T) \in Failing)
      BY <3>1 DEF Storable
    <3>7. L => Lasting(MineStep(Pick(T), x, b, {}, conf, fin))
      BY <2>1, <3>1, <3>5, <3>6, MineStepLasting DEF Finality
    <3> QED
      BY <3>2, <3>3, <3>7
  <2>2. ASSUME NEW T \in SUBSET S
        PROVE  /\ P[T] = {x \in U : (K => Deep(x)) /\ (L => Lasting(x))}
               /\ P[T \ {Pick(T)}] = {x \in U : (K => Deep(x)) /\ (L => Lasting(x))}
    OBVIOUS
  <2>3. P[{}] = {x \in U : (K => Deep(x)) /\ (L => Lasting(x))}
    OBVIOUS
  <2>4. (K => Deep(s)) /\ (L => Lasting(s))
    OBVIOUS
  <2> HIDE DEF P, K, L
  <2> QED
    BY <1>5, <2>1, <2>2, <2>3, <2>4 DEF Climbs
<1> HIDE DEF P
<1>13. G[S] \in P[S]
  BY <1>2, <1>4, <1>5, <1>10, <1>11, <1>12, FoldReaches
<1> QED
  BY <1>1, <1>11, <1>13 DEF U

\* Every slot the block used.
LEMMA UseAllWithin ==
    ASSUME NEW ring, NEW s \in Within(ring), NEW b \in Block
    PROVE  /\ UseAll(s, b) \in Within(ring)
           /\ SlotsClear(UseAll(s, b).t, TxsOf(b))
           /\ Deep(s) => Deep(UseAll(s, b))
           /\ Lasting(s) => Lasting(UseAll(s, b))
<1> DEFINE S == TxsOf(b)
           U == Within(ring)
           f == [p \in S \X U |-> Using(p[1], p[2])]
           G == CHOOSE g : g = [T \in SUBSET S |-> IF T = {} THEN s
                                ELSE Using(Pick(T), g[T \ {Pick(T)}])]
<1>1. UseAll(s, b) = G[S]
  BY DEF UseAll, FoldSet, MapThenFoldSet, Pick
<1>2. IsFiniteSet(S) /\ S \in SUBSET Hash
  <2>1. S \in SUBSET Hash
    BY TxsOfBlock
  <2> QED
    BY <2>1, HashAssumption, FS_Subset
<1>3. ASSUME NEW h \in S, NEW x \in U PROVE Using(h, x) \in U
  <2>1. h \in Hash /\ x \in Within(ring)
    BY <1>2
  <2>2. Using(h, x) = UseStep(h, x)
    BY DEF Using, Calling, UseStep
  <2> HIDE DEF S, U
  <2> QED
    BY <2>1, <2>2, UseStepWithin DEF U
<1> HIDE DEF S, U
<1>4. /\ f \in [S \X U -> U]
      /\ \A h \in S, x \in U : f[<<h, x>>] = Using(h, x)
  BY <1>3
<1> HIDE DEF f
<1>5. s \in U
  BY DEF U
<1>6. PICK g \in [SUBSET S -> U] : FoldOf(g, S, s, f)
  BY <1>2, <1>4, <1>5, FoldExists
<1>7. \A T \in SUBSET S : T # {} => Pick(T) \in S /\ T \ {Pick(T)} \in SUBSET S
  BY PickIsIn
<1>8. g = [T \in SUBSET S |-> IF T = {} THEN s
            ELSE Using(Pick(T), g[T \ {Pick(T)}])]
  BY <1>4, <1>6, <1>7 DEF FoldOf
<1>9. G = [T \in SUBSET S |-> IF T = {} THEN s
            ELSE Using(Pick(T), G[T \ {Pick(T)}])]
  BY <1>8
<1> HIDE DEF G
<1>10. Folds(G, S, s, U, f)
  BY <1>4, <1>7, <1>9 DEF Folds
<1> DEFINE K == Deep(s)
           L == Lasting(s)
           P == [T \in SUBSET S |-> {x \in U : SlotsClear(x.t, T) /\ (K => Deep(x)) /\ (L => Lasting(x))}]
<1>11. P \in [SUBSET S -> SUBSET U] /\ P[S] = {x \in U : SlotsClear(x.t, S) /\ (K => Deep(x)) /\ (L => Lasting(x))}
  OBVIOUS
<1>12. Climbs(P, S, s, f)
  <2>1. SlotsClear(s.t, {}) /\ (K => Deep(s)) /\ (L => Lasting(s))
    BY DEF SlotsClear
  <2>2. ASSUME NEW T \in SUBSET S, T # {}, NEW x \in U, SlotsClear(x.t, T \ {Pick(T)}),
                      K => Deep(x), L => Lasting(x)
        PROVE  /\ f[<<Pick(T), x>>] \in U /\ SlotsClear(f[<<Pick(T), x>>].t, T)
               /\ (K => Deep(f[<<Pick(T), x>>])) /\ (L => Lasting(f[<<Pick(T), x>>]))
    <3>1. Pick(T) \in S /\ Pick(T) \in Hash /\ x \in Within(ring)
      BY <1>2, <1>7, <2>2 DEF U
    <3>2. f[<<Pick(T), x>>] \in U /\ f[<<Pick(T), x>>] = UseStep(Pick(T), x)
      BY <1>4, <3>1 DEF Using, Calling, UseStep
    <3>3. UseStep(Pick(T), x).t = OnNonceUsed(x.t, SlotOf[Pick(T)], Pick(T), {}).t
      BY <3>1, UseStepTracker
    <3>4. Good(x.t)
      BY <3>1 DEF Within, Handled
    <3> HIDE DEF P
    <3>5. SlotsClear(OnNonceUsed(x.t, SlotOf[Pick(T)], Pick(T), {}).t, T)
      BY <1>2, <2>2, <3>1, <3>4, UseClears
    <3>6. K => Deep(UseStep(Pick(T), x))
      BY <2>2, <3>1, QuietStepsDeep
    <3>7. L => Lasting(UseStep(Pick(T), x))
      BY <2>2, <3>1, QuietStepsLasting
    <3> QED
      BY <3>2, <3>3, <3>5, <3>6, <3>7
  <2>3. P[{}] = {x \in U : SlotsClear(x.t, {}) /\ (K => Deep(x)) /\ (L => Lasting(x))}
    OBVIOUS
  <2>4. ASSUME NEW T \in SUBSET S
        PROVE  /\ P[T] = {x \in U : SlotsClear(x.t, T) /\ (K => Deep(x)) /\ (L => Lasting(x))}
               /\ P[T \ {Pick(T)}] = {x \in U : SlotsClear(x.t, T \ {Pick(T)}) /\ (K => Deep(x)) /\ (L => Lasting(x))}
    OBVIOUS
  <2> HIDE DEF P
  <2> QED
    BY <1>5, <2>1, <2>2, <2>3, <2>4 DEF Climbs
<1> HIDE DEF P
<1>13. G[S] \in P[S]
  BY <1>2, <1>4, <1>5, <1>10, <1>11, <1>12, FoldReaches
<1> QED
  BY <1>1, <1>11, <1>13 DEF U, S

\* Every candidate.
LEMMA CheckAllWithin ==
    ASSUME NEW ring, Here \in Within(ring), NEW f0, NEW hashes \in SUBSET Hash, chain \in Block
    PROVE  /\ CheckAll(f0, hashes) \in Within(ring)
           /\ Fair(f0) /\ AllReached(hashes) => Deep(CheckAll(f0, hashes))
           /\ Lasting(Here) /\ Finality /\ AllReached(hashes) /\ f0 \in 0..final =>
                Lasting(CheckAll(f0, hashes))
<1> DEFINE S == hashes
           U == Within(ring)
           f == [p \in S \X U |-> CheckOne(work.head, f0, p[1], p[2])]
           G == CHOOSE g : g = [T \in SUBSET S |-> IF T = {} THEN Here
                                ELSE CheckOne(work.head, f0, Pick(T), g[T \ {Pick(T)}])]
<1>1. CheckAll(f0, hashes) = G[S]
  BY DEF CheckAll, FoldSet, MapThenFoldSet, Pick
<1>2. IsFiniteSet(S) /\ S \in SUBSET Hash
  BY HashAssumption, FS_Subset
<1>3. ASSUME NEW h \in S, NEW x \in U PROVE CheckOne(work.head, f0, h, x) \in U
  <2>1. h \in Hash /\ x \in Within(ring)
    BY <1>2
  <2> HIDE DEF S, U
  <2> QED
    BY <2>1, CheckOneWithin DEF U
<1> HIDE DEF S, U
<1>4. /\ f \in [S \X U -> U]
      /\ \A h \in S, x \in U : f[<<h, x>>] = CheckOne(work.head, f0, h, x)
  BY <1>3
<1> HIDE DEF f
<1>5. Here \in U
  BY DEF U
<1>6. PICK g \in [SUBSET S -> U] : FoldOf(g, S, Here, f)
  BY <1>2, <1>4, <1>5, FoldExists
<1>7. \A T \in SUBSET S : T # {} => Pick(T) \in S /\ T \ {Pick(T)} \in SUBSET S
  BY PickIsIn
<1>8. g = [T \in SUBSET S |-> IF T = {} THEN Here
            ELSE CheckOne(work.head, f0, Pick(T), g[T \ {Pick(T)}])]
  BY <1>4, <1>6, <1>7 DEF FoldOf
<1>9. G = [T \in SUBSET S |-> IF T = {} THEN Here
            ELSE CheckOne(work.head, f0, Pick(T), G[T \ {Pick(T)}])]
  BY <1>8
<1> HIDE DEF G
<1>10. Folds(G, S, Here, U, f)
  BY <1>4, <1>7, <1>9 DEF Folds
<1> DEFINE K == Fair(f0) /\ AllReached(hashes)
           L == Lasting(Here) /\ Finality /\ AllReached(hashes) /\ f0 \in 0..final
           P == [T \in SUBSET S |-> {x \in U : SparesAll(x.t, T) /\ (K => Deep(x)) /\ (L => Lasting(x))}]
<1>11. P \in [SUBSET S -> SUBSET U] /\ P[S] = {x \in U : SparesAll(x.t, S) /\ (K => Deep(x)) /\ (L => Lasting(x))}
  OBVIOUS
<1>12. Climbs(P, S, Here, f)
  <2>1. SparesAll(Here.t, {}) /\ (K => Deep(Here)) /\ (L => Lasting(Here))
    BY DEF SparesAll, Here, Deep
  <2>2. ASSUME NEW T \in SUBSET S, T # {}, NEW x \in U, SparesAll(x.t, T \ {Pick(T)}),
                      K => Deep(x), L => Lasting(x)
        PROVE  /\ f[<<Pick(T), x>>] \in U /\ SparesAll(f[<<Pick(T), x>>].t, T)
               /\ (K => Deep(f[<<Pick(T), x>>])) /\ (L => Lasting(f[<<Pick(T), x>>]))
    <3>1. Pick(T) \in S /\ Pick(T) \in T /\ Pick(T) \in Hash /\ x \in Within(ring)
      BY <1>2, <1>7, <2>2, PickIsIn DEF U
    <3>2. /\ f[<<Pick(T), x>>] \in U
          /\ f[<<Pick(T), x>>] = CheckOne(work.head, f0, Pick(T), x)
      BY <1>4, <3>1
    <3> HIDE DEF P
    <3>3. Spares(x.t, CheckOne(work.head, f0, Pick(T), x).t, Pick(T))
      BY <3>1, CheckOneSpares
    <3>4. SparesAll(CheckOne(work.head, f0, Pick(T), x).t, T)
      BY <2>2, <3>1, <3>3 DEF Spares, SparesAll
    <3>5. K => Reached(x.t.txs[Pick(T)].num)
      BY <2>2, <3>1 DEF SparesAll, AllReached, S
    <3>6. K => Deep(CheckOne(work.head, f0, Pick(T), x))
      BY <2>2, <3>1, <3>5, CheckOneDeep
    <3>7. L => x.t.txs[Pick(T)].num <= final
      BY <2>2, <3>1 DEF SparesAll, AllReached, Reached, Finality, S
    <3>8. L => Lasting(CheckOne(work.head, f0, Pick(T), x))
      BY <2>2, <3>1, <3>7, CheckOneLasting DEF Finality
    <3> QED
      BY <3>2, <3>4, <3>6, <3>8
  <2>3. P[{}] = {x \in U : SparesAll(x.t, {}) /\ (K => Deep(x)) /\ (L => Lasting(x))}
    OBVIOUS
  <2>4. ASSUME NEW T \in SUBSET S
        PROVE  /\ P[T] = {x \in U : SparesAll(x.t, T) /\ (K => Deep(x)) /\ (L => Lasting(x))}
               /\ P[T \ {Pick(T)}] = {x \in U : SparesAll(x.t, T \ {Pick(T)}) /\ (K => Deep(x)) /\ (L => Lasting(x))}
    OBVIOUS
  <2> HIDE DEF P, K, L
  <2> QED
    BY <1>5, <2>1, <2>2, <2>3, <2>4 DEF Climbs
<1> HIDE DEF P
<1>13. G[S] \in P[S]
  BY <1>2, <1>4, <1>5, <1>10, <1>11, <1>12, FoldReaches
<1> QED
  BY <1>1, <1>11, <1>13 DEF U, S

\* Every one with a receipt.
LEMMA PromoteAllWithin ==
    ASSUME NEW ring, Here \in Within(ring), NEW hashes \in SUBSET Hash, chain \in Block
    PROVE  /\ FoldSet(promotePendingTx, Here, Mined(hashes)) \in Within(ring)
           /\ NonePending(FoldSet(promotePendingTx, Here, Mined(hashes)).t, Mined(hashes))
           /\ Fair(fin) => Deep(FoldSet(promotePendingTx, Here, Mined(hashes)))
           /\ Lasting(Here) /\ Finality => Lasting(FoldSet(promotePendingTx, Here, Mined(hashes)))
<1> DEFINE S == Mined(hashes)
           U == Within(ring)
           f == [p \in S \X U |-> promotePendingTx(p[1], p[2])]
           G == CHOOSE g : g = [T \in SUBSET S |-> IF T = {} THEN Here
                                ELSE promotePendingTx(Pick(T), g[T \ {Pick(T)}])]
<1>1. FoldSet(promotePendingTx, Here, Mined(hashes)) = G[S]
  BY DEF Mined, FoldSet, MapThenFoldSet, Pick
<1>2. IsFiniteSet(S) /\ S \in SUBSET Hash
  <2>1. S \in SUBSET Hash
    BY DEF Mined
  <2> QED
    BY <2>1, HashAssumption, FS_Subset
<1>3. ASSUME NEW h \in S, NEW x \in U PROVE promotePendingTx(h, x) \in U
  <2>1. h \in Hash /\ x \in Within(ring) /\ ReceiptBlocks(h) # {}
    BY <1>2 DEF Mined
  <2> HIDE DEF S, U
  <2> QED
    BY <2>1, PromoteWithin DEF U
<1> HIDE DEF S, U
<1>4. /\ f \in [S \X U -> U]
      /\ \A h \in S, x \in U : f[<<h, x>>] = promotePendingTx(h, x)
  BY <1>3
<1> HIDE DEF f
<1>5. Here \in U
  BY DEF U
<1>6. PICK g \in [SUBSET S -> U] : FoldOf(g, S, Here, f)
  BY <1>2, <1>4, <1>5, FoldExists
<1>7. \A T \in SUBSET S : T # {} => Pick(T) \in S /\ T \ {Pick(T)} \in SUBSET S
  BY PickIsIn
<1>8. g = [T \in SUBSET S |-> IF T = {} THEN Here
            ELSE promotePendingTx(Pick(T), g[T \ {Pick(T)}])]
  BY <1>4, <1>6, <1>7 DEF FoldOf
<1>9. G = [T \in SUBSET S |-> IF T = {} THEN Here
            ELSE promotePendingTx(Pick(T), G[T \ {Pick(T)}])]
  BY <1>8
<1> HIDE DEF G
<1>10. Folds(G, S, Here, U, f)
  BY <1>4, <1>7, <1>9 DEF Folds
<1> DEFINE K == Fair(fin)
           L == Lasting(Here) /\ Finality
           P == [T \in SUBSET S |-> {x \in U : NonePending(x.t, T) /\ (K => Deep(x)) /\ (L => Lasting(x))}]
<1>11. P \in [SUBSET S -> SUBSET U] /\ P[S] = {x \in U : NonePending(x.t, S) /\ (K => Deep(x)) /\ (L => Lasting(x))}
  OBVIOUS
<1>12. Climbs(P, S, Here, f)
  <2>1. NonePending(Here.t, {}) /\ (K => Deep(Here)) /\ (L => Lasting(Here))
    BY DEF NonePending, Here, Deep
  <2>2. ASSUME NEW T \in SUBSET S, T # {}, NEW x \in U, NonePending(x.t, T \ {Pick(T)}),
                      K => Deep(x), L => Lasting(x)
        PROVE  /\ f[<<Pick(T), x>>] \in U /\ NonePending(f[<<Pick(T), x>>].t, T)
               /\ (K => Deep(f[<<Pick(T), x>>])) /\ (L => Lasting(f[<<Pick(T), x>>]))
    <3>1. /\ Pick(T) \in S /\ Pick(T) \in Hash /\ x \in Within(ring)
          /\ ReceiptBlocks(Pick(T)) # {}
      BY <1>2, <1>7, <2>2 DEF U, S, Mined
    <3>2. f[<<Pick(T), x>>] \in U /\ f[<<Pick(T), x>>] = promotePendingTx(Pick(T), x)
      BY <1>4, <3>1
    <3> HIDE DEF P
    <3>3. NonePending(promotePendingTx(Pick(T), x).t, T)
      BY <1>2, <2>2, <3>1, PromoteSettles
    <3>4. K => Deep(promotePendingTx(Pick(T), x))
      BY <2>2, <3>1, PromoteDeep
    <3>5. L => Lasting(promotePendingTx(Pick(T), x))
      BY <2>2, <3>1, PromoteLasting DEF Finality
    <3> QED
      BY <3>2, <3>3, <3>4, <3>5
  <2>3. P[{}] = {x \in U : NonePending(x.t, {}) /\ (K => Deep(x)) /\ (L => Lasting(x))}
    OBVIOUS
  <2>4. ASSUME NEW T \in SUBSET S
        PROVE  /\ P[T] = {x \in U : NonePending(x.t, T) /\ (K => Deep(x)) /\ (L => Lasting(x))}
               /\ P[T \ {Pick(T)}] = {x \in U : NonePending(x.t, T \ {Pick(T)}) /\ (K => Deep(x)) /\ (L => Lasting(x))}
    OBVIOUS
  <2> HIDE DEF P
  <2> QED
    BY <1>5, <2>1, <2>2, <2>3, <2>4 DEF Climbs
<1> HIDE DEF P
<1>13. G[S] \in P[S]
  BY <1>2, <1>4, <1>5, <1>10, <1>11, <1>12, FoldReaches
<1> QED
  BY <1>1, <1>11, <1>13 DEF U, S

\* Every one the node was asked about.
LEMMA DropAllWithin ==
    ASSUME NEW ring, Here \in Within(ring), NEW hashes \in SUBSET Hash, NEW known
    PROVE  /\ DropUnknown(hashes, known) \in Within(ring)
           /\ Answered(DropUnknown(hashes, known).t, hashes)
           /\ Deep(DropUnknown(hashes, known))
           /\ Lasting(Here) => Lasting(DropUnknown(hashes, known))
<1> DEFINE S == hashes
           U == Within(ring)
           f == [p \in S \X U |-> Dropping(known, p[1], p[2])]
           G == CHOOSE g : g = [T \in SUBSET S |-> IF T = {} THEN Here
                                ELSE Dropping(known, Pick(T), g[T \ {Pick(T)}])]
<1>1. DropUnknown(hashes, known) = G[S]
  BY DEF DropUnknown, Dropping, FoldSet, MapThenFoldSet, Pick
<1>2. IsFiniteSet(S) /\ S \in SUBSET Hash
  BY HashAssumption, FS_Subset
<1>3. ASSUME NEW h \in S, NEW x \in U PROVE Dropping(known, h, x) \in U
  <2>1. h \in Hash /\ x \in Within(ring)
    BY <1>2
  <2>2. Dropping(known, h, x) = DropStep(h, x, known)
    BY DEF Dropping, Calling, DropStep
  <2> HIDE DEF S, U
  <2> QED
    BY <2>1, <2>2, DropStepWithin DEF U
<1> HIDE DEF S, U
<1>4. /\ f \in [S \X U -> U]
      /\ \A h \in S, x \in U : f[<<h, x>>] = Dropping(known, h, x)
  BY <1>3
<1> HIDE DEF f
<1>5. Here \in U
  BY DEF U
<1>6. PICK g \in [SUBSET S -> U] : FoldOf(g, S, Here, f)
  BY <1>2, <1>4, <1>5, FoldExists
<1>7. \A T \in SUBSET S : T # {} => Pick(T) \in S /\ T \ {Pick(T)} \in SUBSET S
  BY PickIsIn
<1>8. g = [T \in SUBSET S |-> IF T = {} THEN Here
            ELSE Dropping(known, Pick(T), g[T \ {Pick(T)}])]
  BY <1>4, <1>6, <1>7 DEF FoldOf
<1>9. G = [T \in SUBSET S |-> IF T = {} THEN Here
            ELSE Dropping(known, Pick(T), G[T \ {Pick(T)}])]
  BY <1>8
<1> HIDE DEF G
<1>10. Folds(G, S, Here, U, f)
  BY <1>4, <1>7, <1>9 DEF Folds
<1> DEFINE L == Lasting(Here)
           P == [T \in SUBSET S |-> {x \in U : Answered(x.t, T) /\ Deep(x) /\ (L => Lasting(x))}]
<1>11. P \in [SUBSET S -> SUBSET U] /\ P[S] = {x \in U : Answered(x.t, S) /\ Deep(x) /\ (L => Lasting(x))}
  OBVIOUS
<1>12. Climbs(P, S, Here, f)
  <2>1. Answered(Here.t, {}) /\ Deep(Here) /\ (L => Lasting(Here))
    BY DEF Answered, Here, Deep
  <2>2. ASSUME NEW T \in SUBSET S, T # {}, NEW x \in U, Answered(x.t, T \ {Pick(T)}), Deep(x),
                      L => Lasting(x)
        PROVE  /\ f[<<Pick(T), x>>] \in U /\ Answered(f[<<Pick(T), x>>].t, T)
               /\ Deep(f[<<Pick(T), x>>]) /\ (L => Lasting(f[<<Pick(T), x>>]))
    <3>1. Pick(T) \in S /\ Pick(T) \in Hash /\ x \in Within(ring)
      BY <1>2, <1>7, <2>2 DEF U
    <3>2. f[<<Pick(T), x>>] \in U /\ f[<<Pick(T), x>>] = DropStep(Pick(T), x, known)
      BY <1>4, <3>1 DEF Dropping, Calling, DropStep
    <3> HIDE DEF P
    <3>3. Answered(DropStep(Pick(T), x, known).t, T)
      BY <1>2, <2>2, <3>1, DropAnswers
    <3>4. Deep(DropStep(Pick(T), x, known))
      BY <2>2, <3>1, QuietStepsDeep
    <3>5. L => Lasting(DropStep(Pick(T), x, known))
      BY <2>2, <3>1, QuietStepsLasting
    <3> QED
      BY <3>2, <3>3, <3>4, <3>5
  <2>3. P[{}] = {x \in U : Answered(x.t, {}) /\ Deep(x) /\ (L => Lasting(x))}
    OBVIOUS
  <2>4. ASSUME NEW T \in SUBSET S
        PROVE  /\ P[T] = {x \in U : Answered(x.t, T) /\ Deep(x) /\ (L => Lasting(x))}
               /\ P[T \ {Pick(T)}] = {x \in U : Answered(x.t, T \ {Pick(T)}) /\ Deep(x) /\ (L => Lasting(x))}
    OBVIOUS
  <2> HIDE DEF P
  <2> QED
    BY <1>5, <2>1, <2>2, <2>3, <2>4 DEF Climbs
<1> HIDE DEF P
<1>13. G[S] \in P[S]
  BY <1>2, <1>4, <1>5, <1>10, <1>11, <1>12, FoldReaches
<1> QED
  BY <1>1, <1>11, <1>13 DEF U, S

-----------------------------------------------------------------------------
(* What a handler leaves behind *)

\* A recorded block is in the ring.
LEMMA RecordRing ==
    ASSUME NEW ring \in Ring, NEW b \in Block
    PROVE  record(ring, Ref(b)) \in Ring
<1> DEFINE r == Ref(b)
           i == r.num % RingSize
<1>1. r \in HeaderRef /\ r.num = Number(b)
  BY BlockNumber DEF Ref, HeaderRef
<1>2. i \in 0..(RingSize - 1)
  <2>1. Number(b) \in Nat /\ RingSize \in Nat \ {0}
    BY BlockNumber, RingAssumption
  <2> QED
    BY <1>1, <2>1
<1>3. record(ring, r) = [refs |-> [ring.refs EXCEPT ![i] = r],
                         tip  |-> IF ring.tip = NoRef \/ r.num >= ring.tip.num THEN r ELSE ring.tip]
  BY DEF record
<1> HIDE DEF r, i
<1>4. record(ring, r) \in Ring
  BY <1>1, <1>2, <1>3 DEF Ring
<1> QED
  BY <1>4 DEF r

\* A processed block leaves a state of the kind it started from, and the
\* slots its transactions used clear.
LEMMA ProcessedHandled ==
    ASSUME NEW ring, Here \in Within(ring), NEW b \in Block, NEW mode, NEW open
    PROVE  /\ processBlock(Here, b, mode, open) \in Handled
           /\ SlotsClear(processBlock(Here, b, mode, open).t, TxsOf(b))
           /\ processBlock(Here, b, mode, open).c = record(ring, Ref(b))
           /\ Justified(Number(b), confirmationsFor(c, Number(b)), fin) =>
                Deep(processBlock(Here, b, mode, open))
           /\ Lasting(Here) /\ Finality /\ Decides(b) => Lasting(processBlock(Here, b, mode, open))
<1> DEFINE conf == confirmationsFor(Here.c, Number(b))
           s1 == MineAll(Here, b, mode, conf)
           s2 == CloseAll(s1, b, mode, open, conf)
           s3 == UseAll(s2, b)
           u  == [s3 EXCEPT !.c = record(s3.c, Ref(b))]
<1>1. processBlock(Here, b, mode, open) = u
  BY ThreeLoops
<1> DEFINE K == Justified(Number(b), conf, fin)
           L == Lasting(Here) /\ Finality /\ Decides(b)
<1>0. Deep(Here) /\ conf = confirmationsFor(c, Number(b))
  BY DEF Deep, Here
<1> HIDE DEF conf
<1>2. s1 \in Within(ring) /\ (K => Deep(s1)) /\ (L => Lasting(s1))
  BY <1>0, MineAllWithin
<1> HIDE DEF s1
<1>3. s2 \in Within(ring) /\ (K => Deep(s2)) /\ (L => Lasting(s2))
  BY <1>2, CloseAllWithin
<1> HIDE DEF s2
<1>4. s3 \in Within(ring) /\ (K => Deep(s3)) /\ SlotsClear(s3.t, TxsOf(b)) /\ (L => Lasting(s3))
  BY <1>3, UseAllWithin
<1> HIDE DEF s3
<1>5. /\ s3 \in HandlerState /\ Good(s3.t) /\ SaneRows(s3.db) /\ Untouched(s3) /\ AllKeyed(s3)
  BY <1>4 DEF Within, Handled
<1>6. record(s3.c, Ref(b)) \in Ring
  <2>1. s3.c \in Ring
    BY <1>5 DEF HandlerState
  <2> QED
    BY <2>1, RecordRing
<1>7. /\ u \in HandlerState /\ u.t = s3.t /\ u.db = s3.db /\ u.out = s3.out
      /\ u.c = record(ring, Ref(b))
  BY <1>4, <1>5, <1>6 DEF HandlerState, Within
<1> HIDE DEF u
<1>8. Untouched(u) /\ AllKeyed(u)
  BY <1>5, <1>7 DEF Untouched, AllKeyed, Touched, Follows
<1> QED
  BY <1>0, <1>1, <1>4, <1>5, <1>7, <1>8 DEF Handled, Deep, Lasting

\* Installing such a state keeps what is followed stored: a write that is
\* refused leaves the rows alone and marks those it was for.
LEMMA InstallStored ==
    ASSUME IInv, NEW s \in Handled, Install(s)
    PROVE  Stored' /\ c' = s.c /\ c' \in Ring
<1>1. /\ t' = s.t /\ c' = s.c
      /\ db' = IF broken THEN db ELSE s.db
      /\ missed' = IF broken THEN missed \cup Touched(s) ELSE missed \ Touched(s)
  BY DEF Install, Touched
<1>2. /\ s \in HandlerState /\ Good(s.t) /\ SaneRows(s.db) /\ Untouched(s) /\ AllKeyed(s)
  BY DEF Handled
<1>3. c' \in Ring
  BY <1>1, <1>2 DEF HandlerState
<1>4. Good(t') /\ SaneRows(db')
  BY <1>1, <1>2 DEF IInv, Stored
<1>5. ASSUME Keyed PROVE Clear(t') /\ RowsClear(db')
  BY <1>1, <1>2, <1>5 DEF AllKeyed, IInv, Stored
<1>6. ASSUME Keyed PROVE TrackedIsStored'
  <2>1. Follows(s)
    BY <1>2, <1>6 DEF AllKeyed
  <2>2. ASSUME NEW h \in Hash \ missed', Tracked(s.t, h) PROVE Row(s.t, h, db'[h])
    <3>1. h \in Touched(s) \/ h \notin missed
      BY <1>1, <2>2
    <3>2. Row(s.t, h, s.db[h])
      BY <2>1, <2>2, <3>1 DEF Follows
    <3>3. db'[h] = s.db[h]
      BY <1>1, <1>2, <2>2 DEF Untouched
    <3> QED
      BY <3>2, <3>3
  <2>3. \A h \in Hash \ missed' : Tracked(t', h) => Row(t', h, db'[h])
    BY <1>1, <2>2
  <2> QED
    BY <2>3 DEF TrackedIsStored, Row
<1> QED
  BY <1>1, <1>3, <1>4, <1>5, <1>6 DEF Stored

\* What touches neither the tracker nor the rows keeps them in step.
LEMMA IdleStored ==
    ASSUME IInv, UNCHANGED <<t, db, missed>>
    PROVE  Stored'
<1>1. t' = t /\ db' = db /\ missed' = missed
  OBVIOUS
<1>2. TrackedIsStored => TrackedIsStored'
  BY <1>1 DEF TrackedIsStored
<1> QED
  BY <1>1, <1>2 DEF IInv, Stored

\* Time passing keeps them in step.
LEMMA ExpireStored ==
    ASSUME IInv, NEW h \in Hash, Expire(h)
    PROVE  Stored'
<1>1. /\ t' = [t EXCEPT !.txs[h].stale = TRUE] /\ IsPending(t, h)
      /\ db' = db /\ missed' = missed
  BY DEF Expire, disk, rows
<1>2. Good(t) /\ t \in TrackerState /\ t.txs \in [Hash -> Tx]
  BY DEF IInv, Stored, Good, TrackerState
<1>3. /\ t'.txs = [t.txs EXCEPT ![h].stale = TRUE]
      /\ t'.byNonce = t.byNonce /\ t'.tombstones = t.tombstones
      /\ t' = [txs |-> t'.txs, byNonce |-> t.byNonce, tombstones |-> t.tombstones]
  BY <1>1, <1>2 DEF TrackerState
<1>4. \A g \in Hash : t'.txs[g] = [t.txs[g] EXCEPT !.stale = IF g = h THEN TRUE ELSE @]
  BY <1>2, <1>3 DEF Tx
<1>5. t'.txs \in [Hash -> Tx]
  <2>1. t.txs[h] \in Tx
    BY <1>2
  <2>2. [t.txs[h] EXCEPT !.stale = TRUE] \in Tx
    BY <2>1 DEF Tx
  <2> QED
    BY <1>2, <1>3, <2>2
<1>6. \A g \in Hash : /\ t'.txs[g].state = t.txs[g].state
                       /\ t'.txs[g].hasNonce = t.txs[g].hasNonce
                       /\ t'.txs[g].legs = t.txs[g].legs
                       /\ t'.txs[g].auth = t.txs[g].auth
                       /\ t'.txs[g].block = t.txs[g].block
                       /\ t'.txs[g].firstSeenBlock = t.txs[g].firstSeenBlock
                       /\ SameTx(t'.txs[g], t.txs[g])
  <2> TAKE g \in Hash
  <2> DEFINE x == t.txs[g]  y == t'.txs[g]  v == IF g = h THEN TRUE ELSE x.stale
  <2>1. x \in Tx /\ y = [x EXCEPT !.stale = v]
    BY <1>2, <1>4
  <2> HIDE DEF x, y, v
  <2>2. /\ y.state = x.state /\ y.hasNonce = x.hasNonce /\ y.legs = x.legs /\ y.auth = x.auth
        /\ y.block = x.block /\ y.firstSeenBlock = x.firstSeenBlock /\ SameTx(y, x)
    BY <2>1 DEF Tx, SameTx
  <2> QED
    BY <2>2 DEF x, y
<1>7. \A g \in Hash : t.txs[g].state = "none" => t'.txs[g] = t.txs[g]
  BY <1>1, <1>2, <1>3 DEF IsPending
<1>8. /\ Exact(t'.txs, t.byNonce) /\ Absent(t'.txs) /\ Founded(t'.txs)
      /\ Apart(t'.txs, t.tombstones)
  BY <1>2, <1>5, <1>6, <1>7, TimerGood
<1>9. Good(t')
  BY <1>2, <1>3, <1>5, <1>8 DEF Good, TrackerState
<1> DEFINE r == [t |-> t', evs |-> {}]
           u == emitAll(Here, r)
<1>10. Sound(r) /\ Reports(t, r)
  <2>1. Clear(t) => Clear(t')
    BY <1>6 DEF Clear
  <2> QED
    BY <1>6, <1>9, <2>1 DEF Sound, Named, Reports
<1>11. /\ Here \in Handled /\ Here.t = t /\ Here.db = db /\ Here.out = {}
  BY HereHandled DEF Here
<1>12. u.out = {} /\ u.db = db
  <2>1. u.db = persistEvents(db, t', {}) /\ u.out = {}
    BY DEF emitAll, Here
  <2>2. db = [g \in Hash |-> db[g]]
    BY DEF IInv, Stored, SaneRows
  <2>3. persistEvents(db, t', {}) = [g \in Hash |-> db[g]]
    BY DEF persistEvents
  <2> QED
    BY <2>1, <2>2, <2>3
<1>0. r.t = t'
  OBVIOUS
<1> HIDE DEF r
<1>13. u \in Handled /\ u.t = t'
  BY <1>0, <1>10, <1>11, EmitHandled
<1> HIDE DEF u
<1>14. AllKeyed(u) /\ Touched(u) = {}
  BY <1>12, <1>13 DEF Handled, Touched
<1>15. Keyed => Clear(t') /\ RowsClear(db') /\ \A g \in Hash \ missed : Tracked(t', g) => Row(t', g, db[g])
  BY <1>1, <1>12, <1>13, <1>14 DEF AllKeyed, Follows
<1>16. Keyed => TrackedIsStored'
  BY <1>1, <1>15 DEF TrackedIsStored, Row
<1>17. SaneRows(db')
  BY <1>1 DEF IInv, Stored
<1> QED
  BY <1>9, <1>15, <1>16, <1>17 DEF Stored

\* A process starts from the rows in flight: what it follows is what is stored.
LEMMA RestoreStored ==
    ASSUME IInv, NEW state, restore(state), db' = db, missed' = missed
    PROVE  Stored'
<1> DEFINE from == [h \in Hash |-> IF h \in ActiveRows
                                   THEN [db[h].tx EXCEPT !.state = db[h].status] ELSE NoTx]
<1>1. t' = Import(from)
  BY DEF restore
<1>2. SaneRows(db) /\ (Keyed => RowsClear(db)) /\ \A h \in Hash : db[h] \in RowType /\ Sane(db[h])
  BY DEF IInv, Stored, SaneRows
<1>3. ASSUME NEW h \in Hash, h \in ActiveRows
      PROVE  /\ db[h].status \in {"pending", "mined"} /\ db[h].tx \in Tx
             /\ from[h] = db[h].tx /\ db[h].tx.state = db[h].status
             /\ db[h].status = "pending" => db[h].tx.block = NoBlock
             /\ db[h].tx.legs # {}
             /\ db[h].status = "mined" => /\ db[h].tx.auth /\ db[h].tx.block # NoBlock
                                          /\ db[h].tx.firstSeenBlock > 0
  <2>1. db[h].status \in {"pending", "mined"} /\ db[h] \in RowType /\ Sane(db[h])
    BY <1>2, <1>3 DEF ActiveRows
  <2>2. db[h].tx \in Tx /\ db[h].tx.state = db[h].status
    BY <2>1 DEF RowType, Sane
  <2>3. [db[h].tx EXCEPT !.state = db[h].status] = db[h].tx
    BY <2>2 DEF Tx
  <2>4. from[h] = db[h].tx
    BY <1>3, <2>3
  <2> HIDE DEF from
  <2> QED
    BY <2>1, <2>2, <2>4 DEF Sane
<1>4. ASSUME NEW h \in Hash, h \notin ActiveRows PROVE from[h] = NoTx
  BY <1>4
<1>5. from = [h \in Hash |-> from[h]]
  OBVIOUS
<1> HIDE DEF from
<1>6. from \in [Hash -> Tx]
  BY <1>3, <1>4, <1>5, NoTxType
<1>7. Absent(from) /\ Founded(from)
  <2> SUFFICES ASSUME NEW h \in Hash
               PROVE  /\ from[h].state = "none" => from[h] = NoTx
                      /\ from[h].state # "none" => from[h].legs # {}
                      /\ from[h].state = "mined" => /\ from[h].auth /\ from[h].block # NoBlock
                                                    /\ from[h].firstSeenBlock > 0
    BY DEF Absent, Founded
  <2>1. CASE h \in ActiveRows
    BY <1>3, <2>1
  <2>2. CASE h \notin ActiveRows
    BY <1>4, <2>2, NoTxStorable
  <2> QED
    BY <2>1, <2>2
<1>8. Good(t')
  BY <1>1, <1>6, <1>7, ImportGood
<1>9. t'.txs = from
  BY <1>1 DEF Import
<1>10. ASSUME Keyed PROVE Clear(t')
  <2>1. ASSUME NEW h \in Hash PROVE Storable(from[h].legs)
    <3>1. CASE h \in ActiveRows
      BY <1>2, <1>3, <1>10, <3>1 DEF RowsClear
    <3>2. CASE h \notin ActiveRows
      BY <1>4, <3>2, NoTxStorable
    <3> QED
      BY <3>1, <3>2
  <2> QED
    BY <1>9, <2>1 DEF Clear
<1>11. ASSUME NEW h \in Hash, Tracked(t', h) PROVE Row(t', h, db'[h])
  <2>1. h \in ActiveRows
    BY <1>4, <1>9, <1>11 DEF Tracked, NoTx
  <2>2. t'.txs[h] = db[h].tx /\ db'[h] = db[h]
    BY <1>3, <1>9, <2>1
  <2>3. ExportTx(t', h) = db[h].tx
    <3>1. CASE IsPending(t', h)
      <4>1. db[h].tx \in Tx /\ db[h].tx.block = NoBlock
        BY <1>3, <2>1, <2>2, <3>1 DEF IsPending
      <4>2. [db[h].tx EXCEPT !.block = NoBlock] = db[h].tx
        BY <4>1 DEF Tx
      <4> QED
        BY <2>2, <3>1, <4>2 DEF ExportTx
    <3>2. CASE ~IsPending(t', h)
      BY <2>2, <3>2 DEF ExportTx
    <3> QED
      BY <3>1, <3>2
  <2>4. db[h].tx = [db[h].tx EXCEPT !.stale = db[h].tx.stale]
    <3>1. db[h].tx \in Tx
      BY <1>3, <2>1
    <3> QED
      BY <3>1 DEF Tx
  <2> QED
    BY <1>3, <2>1, <2>2, <2>3, <2>4 DEF Row
<1>12. TrackedIsStored'
  BY <1>11 DEF TrackedIsStored, Row
<1> QED
  BY <1>2, <1>8, <1>10, <1>12 DEF Stored

-----------------------------------------------------------------------------
(* Types *)

\* Where a handler is says what it holds.
LEMMA WorkCases ==
    ASSUME work \in Work
    PROVE  /\ work.pc = "extend" => work.head \in Block
           /\ work.pc = "extended" => work.head \in Heights
           /\ work.pc = "catchup" => work.head \in Block /\ work.from \in 1..(Bound.height + 1)
           /\ work.pc = "fill" => work \in FillWork
           /\ work.pc = "drain" =>
                /\ work \in [pc : {"drain"}, g : Heights, to : Heights, past : SUBSET Block, fill : FillWork]
                /\ work.g <= work.to
           /\ work.pc = "walk" => work \in [pc : {"walk"}, head : Heights, from : 0..Bound.height]
           /\ work.pc = "rescan" =>
                work \in [pc : {"rescan"}, n : 1..(Bound.height + 1), to : Heights]
           /\ work.pc = "life" => /\ work.head \in Heights /\ work.floor \in 0..Bound.height
                                  /\ work.next \in AfterLife
           /\ work.pc \in {"recheck", "lookup"} =>
                work \in [pc : {"recheck", "lookup"}, hashes : SUBSET Hash, next : AfterLife]
           /\ work.pc \in {"idle", "extend", "extended", "catchup", "fill", "drain",
                           "walk", "rescan", "life", "recheck", "lookup"}
BY DEF Work, AfterLife, FillWork, Idle

\* A set of numbers within a bound has a greatest element,
LEMMA GreatestExists ==
    ASSUME NEW n \in Nat, NEW S \in SUBSET (0..n), S # {}
    PROVE  \E x \in S : \A y \in S : y <= x
<1> DEFINE D == {n - x : x \in S}
<1>1. D \in SUBSET Nat /\ D # {}
  <2>1. \A x \in S : n - x \in Nat
    OBVIOUS
  <2> QED
    BY <2>1
<1> HIDE DEF D
<1>2. PICK d \in D : \A e \in D : d <= e
  BY <1>1, LeastExists
<1>3. PICK x \in S : d = n - x
  BY DEF D
<1>4. ASSUME NEW y \in S PROVE y <= x
  <2>1. n - y \in D
    BY DEF D
  <2>2. n - x <= n - y
    BY <1>2, <1>3, <2>1
  <2> QED
    BY <2>2
<1> QED
  BY <1>4

\* and a set of headers one with the greatest number.
LEMMA HighestRef ==
    ASSUME NEW R \in SUBSET HeaderRef, R # {}
    PROVE  (CHOOSE r \in R : \A q \in R : q.num <= r.num) \in R
<1> DEFINE S == {r.num : r \in R}
<1>1. S \in SUBSET (0..Bound.height) /\ S # {} /\ Bound.height \in Nat
  BY IndexerAssumption DEF HeaderRef, Heights
<1>2. \A r \in R : r.num \in S
  OBVIOUS
<1>3. \A x \in S : \E r \in R : x = r.num
  OBVIOUS
<1> HIDE DEF S
<1>4. PICK x \in S : \A y \in S : y <= x
  BY <1>1, GreatestExists
<1>5. PICK r \in R : x = r.num
  BY <1>3
<1>6. \A q \in R : q.num <= r.num
  BY <1>2, <1>4, <1>5
<1> QED
  BY <1>6

\* A rebuilt ring is a ring.
LEMMA RebuiltRing ==
    ASSUME NEW R \in SUBSET HeaderRef
    PROVE  Rebuilt(R) \in Ring /\ newChainState \in Ring
<1>1. newChainState \in Ring
  BY DEF newChainState, Ring
<1>2. CASE R = {}
  BY <1>1, <1>2 DEF Rebuilt
<1>3. CASE R # {}
  <2> DEFINE In(i) == {r \in R : r.num % RingSize = i}
             best(i) == CHOOSE r \in In(i) : \A q \in In(i) : q.num <= r.num
             tip == CHOOSE r \in R : \A q \in R : q.num <= r.num
             refs == [i \in 0..(RingSize - 1) |-> IF In(i) = {} THEN NoRef ELSE best(i)]
  <2>1. tip \in HeaderRef
    BY <1>3, HighestRef
  <2>2. ASSUME NEW i \in 0..(RingSize - 1), In(i) # {} PROVE best(i) \in HeaderRef
    <3>1. In(i) \in SUBSET HeaderRef
      OBVIOUS
    <3> HIDE DEF In
    <3>2. best(i) \in In(i)
      BY <2>2, <3>1, HighestRef
    <3> QED
      BY <3>1, <3>2
  <2>3. Rebuilt(R) = [refs |-> refs, tip |-> tip]
    BY <1>3 DEF Rebuilt
  <2> HIDE DEF In, best, tip
  <2>4. refs \in [0..(RingSize - 1) -> HeaderRef \cup {NoRef}]
    BY <2>2
  <2> HIDE DEF refs
  <2>5. Rebuilt(R) \in Ring
    BY <2>1, <2>3, <2>4 DEF Ring
  <2> QED
    BY <1>1, <2>5
<1> QED
  BY <1>2, <1>3

\* The ring's numbers are block numbers, and a held header is a header.
LEMMA RingNumbers ==
    ASSUME NEW ring \in Ring
    PROVE  /\ floorOf(ring) \in 0..Bound.height
           /\ \A n \in Nat : Held(ring, n) => at(ring, n) \in HeaderRef
           /\ ring.tip # NoRef => ring.tip \in HeaderRef /\ ring.tip.num \in Heights
           /\ snapshot(ring) \in SUBSET HeaderRef
<1>0. RingSize \in Nat \ {0} /\ Bound.height \in Nat
  BY RingAssumption, IndexerAssumption
<1>1. ring.tip # NoRef => ring.tip \in HeaderRef /\ ring.tip.num \in Heights
  BY DEF Ring, HeaderRef
<1>2. floorOf(ring) \in 0..Bound.height
  BY <1>0, <1>1 DEF floorOf, Heights
<1>3. ASSUME NEW n \in Nat, Held(ring, n) PROVE at(ring, n) \in HeaderRef
  <2>1. n % RingSize \in 0..(RingSize - 1)
    BY <1>0
  <2>2. ring.refs \in [0..(RingSize - 1) -> HeaderRef \cup {NoRef}]
    BY DEF Ring
  <2> QED
    BY <1>3, <2>1, <2>2 DEF Held, at
<1>4. snapshot(ring) \in SUBSET HeaderRef
  <2>1. CASE ring.tip = NoRef
    BY <2>1 DEF snapshot
  <2>2. CASE ring.tip # NoRef
    <3>1. floorOf(ring)..ring.tip.num \subseteq Nat
      BY <1>1, <1>2, <2>2 DEF Heights
    <3>2. snapshot(ring) = {at(ring, n) : n \in {m \in floorOf(ring)..ring.tip.num : Held(ring, m)}}
      BY <2>2 DEF snapshot
    <3> QED
      BY <1>3, <3>1, <3>2
  <2> QED
    BY <2>1, <2>2
<1> QED
  BY <1>1, <1>2, <1>3, <1>4

\* What is saved is what a process can start from.
LEMMA SaveTyped ==
    ASSUME SavedType, NEW n \in 0..Bound.height, NEW ring \in Ring, saveState(n, ring)
    PROVE  SavedType'
<1>1. saved' = saved \/ saved' = [last |-> n, refs |-> snapshot(ring)]
  BY DEF saveState
<1>2. snapshot(ring) \in SUBSET HeaderRef
  BY RingNumbers
<1> QED
  BY <1>1, <1>2 DEF SavedType

\* A session that ended.
LEMMA EndTyped ==
    ASSUME EndSession PROVE QueueType' /\ WorkType'
<1>1. conn' = FALSE /\ heads' = <<>> /\ work' = Idle /\ views' = {}
  BY DEF EndSession
<1>2. Idle \in Work
  BY DEF Work, AfterLife
<1>3. <<>> \in Seq(Block)
  OBVIOUS
<1> QED
  BY <1>1, <1>2, <1>3 DEF QueueType, WorkType

\* The node's chain grows or changes.
LEMMA AdoptTyped ==
    ASSUME Types, NEW ch \in Block, Adopt(ch), final <= Len(ch),
           heads' = heads \/ (conn /\ heads' = Append(heads, ch))
    PROVE  Types'
<1>1. /\ chain' = ch /\ ValidChain(ch)
      /\ views' = {} \/ views' = views \cup {ch}
      /\ final' = final /\ conn' = conn /\ work' = work /\ c' = c /\ last' = last
      /\ restored' = restored /\ fin' = fin /\ saved' = saved /\ base' = base
  BY DEF Adopt, memory, disk
<1>2. ChainType'
  BY <1>1 DEF Types, ChainType
<1>3. QueueType'
  BY <1>1 DEF Types, QueueType
<1>4. WorkType'
  BY <1>1 DEF Types, WorkType
<1>5. MemoryType' /\ SavedType'
  BY <1>1 DEF Types, MemoryType, SavedType
<1> QED
  BY <1>2, <1>3, <1>4, <1>5 DEF Types

\* It grows by a block,
LEMMA ExtendTyped ==
    ASSUME Types, NEW body \in Body, Extend(body)
    PROVE  Types'
<1> DEFINE ch == Append(chain, body)
<1>1. /\ Adopt(ch) /\ Len(chain) < Bound.height /\ chain' = ch
      /\ heads' = heads \/ (conn /\ heads' = Append(heads, ch))
  BY DEF Extend, Announce, Coalesce, Adopt
<1>2. chain \in Seq(Body) /\ Len(chain) \in Heights /\ final <= Len(chain) /\ final \in Nat
  BY BlockIsSeq DEF Types, ChainType
<1>3. ch \in Seq(Body) /\ Len(ch) = Len(chain) + 1
  BY <1>2, AppendProperties
<1>4. Len(ch) \in Heights /\ final <= Len(ch)
  BY <1>1, <1>2, <1>3, IndexerAssumption DEF Heights
<1> HIDE DEF ch
<1>5. ch \in Block
  BY <1>3, <1>4, BlockIsSeq
<1> QED
  BY <1>1, <1>4, <1>5, AdoptTyped

\* or loses some for others.
LEMMA ReorgTyped ==
    ASSUME Types, NEW k \in 1..Bound.height, NEW bodies \in Seq(Body), Reorg(k, bodies)
    PROVE  Types'
<1> DEFINE base0 == BlockAt(chain, Len(chain) - k)
           ch == base0 \o bodies
<1>1. /\ Adopt(ch) /\ chain' = ch
      /\ heads' = heads \/ (conn /\ heads' = Append(heads, ch))
      /\ k <= Len(chain) - Len(Genesis) /\ k <= Len(chain) - final
      /\ Len(chain) - k + Len(bodies) <= Bound.height
  BY DEF Reorg, Announce, Coalesce, Adopt
<1>2. /\ chain \in Block /\ Len(chain) \in Heights /\ final \in Nat
      /\ Len(Genesis) \in Heights /\ Len(bodies) \in Nat
  BY BlockIsSeq, IndexerAssumption DEF Types, ChainType
<1>3. Len(chain) - k \in 1..Len(chain) /\ final <= Len(chain) - k
  BY <1>1, <1>2 DEF Heights
<1>4. base0 \in Seq(Body) /\ Len(base0) = Len(chain) - k
  BY <1>2, <1>3, PrefixBlock, BlockIsSeq
<1> HIDE DEF base0
<1>5. ch \in Seq(Body) /\ Len(ch) = Len(chain) - k + Len(bodies)
  BY <1>4, ConcatProperties
<1>6. Len(ch) \in Heights /\ final <= Len(ch)
  BY SMTT(40), <1>1, <1>2, <1>3, <1>5, IndexerAssumption DEF Heights
<1> HIDE DEF ch
<1>7. ch \in Block
  BY <1>5, <1>6, BlockIsSeq
<1> QED
  BY <1>1, <1>6, <1>7, AdoptTyped

\* Steps of the node that change none of the typed state, or finality alone.
LEMMA QuietTyped ==
    ASSUME Types, \/ \E h \in Hash : Gossip(h) \/ Expire(h)
                  \/ Finalize \/ Break \/ Mend \/ Reconnect
    PROVE  Types'
<1>1. /\ chain' = chain /\ heads' = heads /\ work' = work /\ views' = views
      /\ c' = c /\ last' = last /\ restored' = restored /\ saved' = saved /\ base' = base
  BY DEF Gossip, Expire, Finalize, Break, Mend, Reconnect, node, world, memory, disk,
         rows, history
<1>2. /\ final' = final \/ final' \in (final + 1)..Len(chain)
      /\ fin' = fin \/ (fin' = final /\ final' = final)
      /\ conn' = conn \/ conn' = TRUE
  BY DEF Gossip, Expire, Finalize, Break, Mend, Reconnect, node, world, memory
<1>3. ChainType'
  <2>1. /\ chain \in Block /\ ValidChain(chain)
        /\ final \in Nat /\ fin \in 0..final /\ final <= Len(chain)
    BY DEF Types, ChainType
  <2>2. final' \in Nat /\ fin' \in 0..final' /\ final' <= Len(chain)
    <3>1. Len(chain) \in Heights
      BY <2>1, BlockIsSeq
    <3> QED
      BY <1>2, <2>1, <3>1 DEF Heights
  <2> QED
    BY <1>1, <2>1, <2>2 DEF ChainType
<1>4. WorkType'
  <2>1. conn \in BOOLEAN /\ work \in Work /\ (~conn => work = Idle /\ heads = <<>>)
    BY DEF Types, WorkType
  <2>2. CASE conn' = conn
    BY <1>1, <2>1, <2>2 DEF WorkType
  <2>3. CASE conn' = TRUE
    BY <1>1, <2>1, <2>3 DEF WorkType
  <2> QED
    BY <1>2, <2>2, <2>3
<1>5. QueueType' /\ MemoryType' /\ SavedType'
  BY <1>1 DEF Types, QueueType, MemoryType, SavedType
<1> QED
  BY <1>3, <1>4, <1>5 DEF Types

\* A session ends and the process goes on,
LEMMA FailTyped ==
    ASSUME Types, EndSession, UNCHANGED <<world, last, restored, saved, base>>,
           c' \in Ring, fin' \in 0..final
    PROVE  Types'
<1>1. ChainType'
  BY DEF Types, ChainType, world
<1>2. MemoryType' /\ SavedType'
  BY DEF Types, MemoryType, SavedType
<1> QED
  BY <1>1, <1>2, EndTyped DEF Types

\* or another one starts.
LEMMA RestoreTyped ==
    ASSUME Types, EndSession, NEW state \in [last : 0..Bound.height, refs : SUBSET HeaderRef],
           restore(state), UNCHANGED <<chain, final>>, SavedType'
    PROVE  Types'
<1>1. fin' = 0 /\ last' \in {0, state.last} /\ c' \in {Rebuilt(state.refs), newChainState}
      /\ restored' \in SUBSET Hash /\ base' \in {0, base}
  BY DEF restore
<1>2. ChainType'
  BY <1>1 DEF Types, ChainType
<1>3. c' \in Ring
  <2>1. state.refs \in SUBSET HeaderRef
    OBVIOUS
  <2> QED
    BY <1>1, <2>1, RebuiltRing
<1>4. MemoryType'
  BY <1>1, <1>3, IndexerAssumption DEF Types, MemoryType
<1> QED
  BY <1>2, <1>4, EndTyped DEF Types

\* A handler is at work in a session only.
LEMMA BusyConnected ==
    ASSUME Types, work.pc # "idle" PROVE conn
BY DEF Types, WorkType, Idle

\* A step of a handler.
LEMMA StepTyped ==
    ASSUME Types, conn, conn' = conn, chain' = chain, final' = final, fin' \in 0..final,
           heads' \in Seq(Block), views' \in SUBSET Block, work' \in Work, c' \in Ring,
           restored' \in SUBSET Hash, last' \in 0..Bound.height, base' \in 0..Bound.height,
           SavedType'
    PROVE  Types'
<1>1. ChainType'
  BY DEF Types, ChainType
<1>2. QueueType' /\ WorkType' /\ MemoryType'
  BY DEF QueueType, WorkType, MemoryType
<1> QED
  BY <1>1, <1>2 DEF Types

\* The types, one by one.
LEMMA Typed ==
    ASSUME Types
    PROVE  /\ chain \in Block /\ Len(chain) \in Heights /\ fin \in 0..final /\ final \in Nat
           /\ heads \in Seq(Block) /\ views \in SUBSET Block /\ work \in Work
           /\ c \in Ring /\ restored \in SUBSET Hash
           /\ last \in 0..Bound.height /\ base \in 0..Bound.height /\ Bound.height \in Nat
           /\ SavedType /\ (saved' = saved => SavedType')
<1>1. saved' = saved => SavedType'
  BY DEF Types, SavedType
<1> QED
  BY <1>1, BlockIsSeq, IndexerAssumption
     DEF Types, ChainType, QueueType, WorkType, MemoryType

\* A block is processed.
LEMMA ProcessKept ==
    ASSUME IInv, NEW b \in Block, NEW next, Process(b, next)
    PROVE  Stored' /\ c' \in Ring /\ work' = next
<1>1. Here \in Within(c)
  BY HereHandled DEF Within
<1>2. PICK mode \in ScanModes(b), open \in MayStayOpen(b) : Install(processBlock(Here, b, mode, open)) /\ work' = next
  BY DEF Process
<1>3. processBlock(Here, b, mode, open) \in Handled
  BY <1>1, ProcessedHandled
<1>4. Stored' /\ c' \in Ring
  BY <1>2, <1>3, InstallStored
<1> QED
  BY <1>2, <1>4

\* headExtend
LEMMA ExtendBlockKept == ASSUME IInv, ExtendBlock PROVE IInv'
<1>1. Types
  BY DEF IInv
<1>2. work.head \in Block /\ Number(work.head) \in Heights
  BY <1>1, Typed, WorkCases, BlockNumber DEF ExtendBlock
<1>3. /\ Process(work.head, [pc |-> "extended", head |-> Number(work.head)])
      /\ work.pc = "extend"
      /\ base' = base \/ base' = Number(work.head)
      /\ UNCHANGED <<chain, final, fin, heads, conn, views, last, restored, saved>>
  BY DEF ExtendBlock, node, world
<1>4. Stored' /\ c' \in Ring /\ work' = [pc |-> "extended", head |-> Number(work.head)]
  BY <1>2, <1>3, ProcessKept
<1>5. work' \in Work
  BY <1>2, <1>4 DEF Work
<1>6. base' \in 0..Bound.height
  BY <1>1, <1>2, <1>3, Typed DEF Heights
<1>7. conn
  BY <1>1, <1>3, BusyConnected
<1>8. Types'
  BY <1>1, <1>3, <1>4, <1>5, <1>6, <1>7, Typed, StepTyped
<1> QED
  BY <1>4, <1>8 DEF IInv

\* ... and after it.
LEMMA ExtendedKept == ASSUME IInv, Extended PROVE IInv'
<1>1. Types
  BY DEF IInv
<1>2. /\ work.pc = "extended" /\ last' = work.head /\ saveState(work.head, c)
      /\ work' = Life(work.head, 0, Idle)
      /\ UNCHANGED <<chain, final, fin, heads, conn, views, t, c, restored, db, missed, base>>
  BY DEF Extended, Advance, node, world, rows, history
<1>3. work.head \in Heights /\ work.head \in 0..Bound.height
  BY <1>1, <1>2, Typed, WorkCases DEF Heights
<1>4. work' \in Work
  BY <1>1, <1>2, <1>3, Typed DEF Work, Life, AfterLife
<1>5. SavedType'
  BY <1>1, <1>2, <1>3, Typed, SaveTyped
<1>6. conn
  BY <1>1, <1>2, BusyConnected
<1>7. Types'
  BY <1>1, <1>2, <1>3, <1>4, <1>5, <1>6, Typed, StepTyped
<1>8. Stored'
  BY <1>2, IdleStored
<1> QED
  BY <1>7, <1>8 DEF IInv

\* A request fails in the middle of a handler that changed nothing else.
LEMMA FailKept ==
    ASSUME IInv, EndSession, UNCHANGED <<world, memory, disk, base>>
    PROVE  IInv'
<1>1. Types
  BY DEF IInv
<1>2. UNCHANGED <<world, last, restored, saved, base, c, fin, t, db, missed>>
  BY DEF memory, disk, rows
<1>3. Types'
  BY <1>1, <1>2, Typed, FailTyped
<1>4. Stored'
  BY <1>2, IdleStored
<1> QED
  BY <1>3, <1>4 DEF IInv

\* catchUpScan: the head,
LEMMA CatchUpHeadKept == ASSUME IInv, CatchUpHead PROVE IInv'
<1> DEFINE n == Number(work.head)
           next == Fill(n - 1, work.from, n)
<1>1. Types
  BY DEF IInv
<1>2. /\ work.pc = "catchup" /\ Process(work.head, next) /\ views' = {chain}
      /\ UNCHANGED <<chain, final, fin, heads, conn, last, restored, saved, base>>
  BY DEF CatchUpHead, node, world
<1>3. work.head \in Block /\ n \in Heights /\ work.from \in 1..(Bound.height + 1)
  BY <1>1, <1>2, Typed, WorkCases, BlockNumber
<1> HIDE DEF n
<1>4. next \in FillWork
  BY <1>1, <1>3, Typed DEF Fill, FillWork, Heights
<1> HIDE DEF next
<1>5. Stored' /\ c' \in Ring /\ work' = next
  BY <1>2, <1>3, ProcessKept
<1>6. work' \in Work /\ views' \in SUBSET Block
  BY <1>1, <1>2, <1>4, <1>5, Typed DEF Work, AfterLife
<1>7. conn
  BY <1>1, <1>2, BusyConnected
<1>8. Types'
  BY <1>1, <1>2, <1>5, <1>6, <1>7, Typed, StepTyped
<1> QED
  BY <1>5, <1>8 DEF IInv

\* a head announced meanwhile,
LEMMA DrainHeadKept == ASSUME IInv, DrainHead PROVE IInv'
<1> DEFINE m == Number(Head(heads))
           next == [pc |-> "drain", g |-> work.highest + 1, to |-> m,
                    past |-> views \ {chain}, fill |-> work]
<1>1. Types
  BY DEF IInv
<1>2. /\ work.pc = "fill" /\ heads # <<>> /\ heads' = Tail(heads)
      /\ work' = IF m <= work.highest THEN work ELSE next
      /\ UNCHANGED <<chain, final, fin, conn, views, c, t, last, restored, saved, db, missed, base>>
  BY DEF DrainHead, node, world, memory, disk, rows, history
<1>3. Head(heads) \in Block /\ Tail(heads) \in Seq(Block)
  BY <1>1, <1>2, Typed, HeadTailProperties
<1>4. m \in Heights /\ work \in FillWork /\ work.highest \in Heights
  BY <1>1, <1>2, <1>3, Typed, WorkCases, BlockNumber DEF FillWork
<1> HIDE DEF m
<1>5. ~(m <= work.highest) => next \in Work
  <2>1. ~(m <= work.highest) => work.highest + 1 \in Heights /\ work.highest + 1 <= m
    BY <1>1, <1>4, Typed DEF Heights
  <2>2. views \ {chain} \in SUBSET Block
    BY <1>1, Typed
  <2> HIDE DEF m
  <2>3. ~(m <= work.highest) =>
          next \in [pc : {"drain"}, g : Heights, to : Heights, past : SUBSET Block, fill : FillWork]
    BY <1>4, <2>1, <2>2
  <2> QED
    BY <2>1, <2>3 DEF Work
<1> HIDE DEF next
<1>6. work' \in Work
  BY <1>1, <1>2, <1>5, Typed
<1>7. conn
  BY <1>1, <1>2, BusyConnected
<1>8. Types'
  BY <1>1, <1>2, <1>3, <1>6, <1>7, Typed, StepTyped
<1>9. Stored'
  BY <1>2, IdleStored
<1> QED
  BY <1>8, <1>9 DEF IInv

\* the blocks up to it, of a chain shown since it was announced,
LEMMA DrainReads ==
    ASSUME IInv, DrainBlock
    PROVE  \/ NotServed(work.g)
           \/ \E v \in views \cup {chain} :
                /\ v \in Block /\ work.g \in 1..Len(v)
                /\ Process(BlockAt(v, work.g),
                           IF work.g = work.to THEN [work.fill EXCEPT !.highest = work.to]
                           ELSE [work EXCEPT !.g = work.g + 1])
                /\ UNCHANGED <<node, heads, conn, views, last, restored, fin, saved, base, heard>>
<1>1. Types /\ work.pc = "drain"
  BY DEF IInv, DrainBlock
<1>2. work.g \in Nat /\ work.g >= 1
  BY <1>1, Typed, WorkCases DEF Heights
<1>3. ASSUME NEW v \in views \cup {chain}, Len(v) >= work.g
      PROVE  v \in Block /\ work.g \in 1..Len(v)
  <2>1. v \in Block
    BY <1>1, Typed
  <2>2. Len(v) \in Nat
    BY <2>1, BlockIsSeq DEF Heights
  <2> QED
    BY <1>2, <1>3, <2>1, <2>2
<1> QED
  BY <1>1, <1>3 DEF DrainBlock, Shown

LEMMA DrainBlockKept == ASSUME IInv, DrainBlock PROVE IInv'
<1> DEFINE next == IF work.g = work.to THEN [work.fill EXCEPT !.highest = work.to]
                   ELSE [work EXCEPT !.g = work.g + 1]
<1>1. Types /\ work.pc = "drain"
  BY DEF IInv, DrainBlock
<1>2. CASE NotServed(work.g)
  <2>1. EndSession /\ UNCHANGED <<world, memory, disk, base>>
    BY <1>2 DEF NotServed
  <2> QED
    BY <2>1, FailKept
<1>3. ASSUME NEW v \in Block, work.g \in 1..Len(v), Process(BlockAt(v, work.g), next),
             UNCHANGED <<node, heads, conn, views, last, restored, fin, saved, base, heard>>
      PROVE  IInv'
  <2>1. /\ work \in [pc : {"drain"}, g : Heights, to : Heights, past : SUBSET Block, fill : FillWork]
        /\ work.g <= work.to
    BY <1>1, Typed, WorkCases
  <2>2. BlockAt(v, work.g) \in Block
    BY <1>3, PrefixBlock
  <2>3. next \in Work
    <3>1. CASE work.g = work.to
      <4>1. next = [work.fill EXCEPT !.highest = work.to]
        BY <3>1
      <4>2. work.fill \in FillWork /\ work.to \in Heights
        BY <2>1
      <4>3. next \in FillWork
        BY <4>1, <4>2 DEF FillWork
      <4> QED
        BY <4>3 DEF Work, AfterLife
    <3>2. CASE work.g # work.to
      <4>1. next = [work EXCEPT !.g = work.g + 1]
        BY <3>2
      <4>2. work.g + 1 \in Heights /\ work.g + 1 <= work.to
        BY <1>1, <2>1, <3>2, Typed DEF Heights
      <4>3. /\ next \in [pc : {"drain"}, g : Heights, to : Heights, past : SUBSET Block, fill : FillWork]
            /\ next.g <= next.to
        BY <2>1, <4>1, <4>2
      <4> HIDE DEF next
      <4> QED
        BY <4>3 DEF Work
    <3> QED
      BY <3>1, <3>2
  <2> HIDE DEF next
  <2>4. Stored' /\ c' \in Ring /\ work' = next
    BY <1>3, <2>2, ProcessKept
  <2>5. UNCHANGED <<chain, final, fin, heads, conn, views, last, restored, saved, base>>
    BY <1>3 DEF node, world
  <2>6. conn
    BY <1>1, BusyConnected
  <2>7. Types'
    BY <1>1, <2>3, <2>4, <2>5, <2>6, Typed, StepTyped
  <2> QED
    BY <2>4, <2>7 DEF IInv
<1> QED
  BY <1>2, <1>3, DrainReads

\* a block below,
LEMMA FillBlockKept == ASSUME IInv, FillBlock PROVE IInv'
<1> DEFINE next == Life(work.highest, work.n, [work EXCEPT !.n = work.n - 1])
<1>1. Types /\ work.pc = "fill" /\ ~(work.n < work.from)
  BY DEF IInv, FillBlock, Local
<1>2. PICK v \in views :
        \/ /\ Len(v) >= work.n
           /\ Process(BlockAt(v, work.n), next)
           /\ UNCHANGED <<node, heads, conn, views, last, restored, fin, saved, base, heard>>
        \/ EndSession /\ UNCHANGED <<world, memory, disk, base>>
  BY DEF FillBlock
<1>3. CASE EndSession /\ UNCHANGED <<world, memory, disk, base>>
  BY <1>3, FailKept
<1>4. CASE /\ Len(v) >= work.n
           /\ Process(BlockAt(v, work.n), next)
           /\ UNCHANGED <<node, heads, conn, views, last, restored, fin, saved, base, heard>>
  <2>1. work \in FillWork
    BY <1>1, Typed, WorkCases
  <2>2. work.n \in 1..Bound.height /\ work.highest \in Heights /\ work.n - 1 \in 0..Bound.height
    BY <1>1, <2>1, Typed DEF FillWork
  <2>3. v \in Block /\ Len(v) \in Heights
    BY <1>1, Typed, BlockIsSeq
  <2>4. BlockAt(v, work.n) \in Block
    <3>1. work.n \in 1..Len(v)
      BY <1>4, <2>2, <2>3 DEF Heights
    <3> QED
      BY <2>3, <3>1, PrefixBlock
  <2>5. [work EXCEPT !.n = work.n - 1] \in AfterLife
    BY <2>1, <2>2 DEF FillWork, AfterLife
  <2>6. next \in Work
    BY <2>2, <2>5 DEF Work, Life
  <2> HIDE DEF next
  <2>7. Stored' /\ c' \in Ring /\ work' = next
    BY <1>4, <2>4, ProcessKept
  <2>8. UNCHANGED <<chain, final, fin, heads, conn, views, last, restored, saved, base>>
    BY <1>4 DEF node, world
  <2>9. conn
    BY <1>1, BusyConnected
  <2>10. Types'
    BY <1>1, <2>6, <2>7, <2>8, <2>9, Typed, StepTyped
  <2> QED
    BY <2>7, <2>10 DEF IInv
<1> QED
  BY <1>2, <1>3, <1>4

\* and the end of it.
LEMMA CaughtUpKept == ASSUME IInv, CaughtUp PROVE IInv'
<1>1. Types
  BY DEF IInv
<1>2. /\ work.pc = "fill" /\ last' = work.highest /\ saveState(work.highest, c)
      /\ work' = Life(work.highest, 0, Idle) /\ views' = {}
      /\ UNCHANGED <<chain, final, fin, heads, conn, t, c, restored, db, missed, base>>
  BY DEF CaughtUp, Advance, node, world, rows, history
<1>3. work.highest \in Heights /\ work.highest \in 0..Bound.height
  BY <1>1, <1>2, Typed, WorkCases DEF Heights, FillWork
<1>4. work' \in Work
  BY <1>1, <1>2, <1>3, Typed DEF Work, Life, AfterLife
<1>5. SavedType'
  BY <1>1, <1>2, <1>3, Typed, SaveTyped
<1>6. conn
  BY <1>1, <1>2, BusyConnected
<1>7. Types'
  BY <1>1, <1>2, <1>3, <1>4, <1>5, <1>6, Typed, StepTyped
<1>8. Stored'
  BY <1>2, IdleStored
<1> QED
  BY <1>7, <1>8 DEF IInv

\* onHead: an announced head is told apart.
LEMMA OnHeadKept == ASSUME IInv, onHead PROVE IInv'
<1> DEFINE h == Head(heads)
<1>1. Types /\ heads # <<>> /\ conn
  BY DEF IInv, onHead
<1>2. /\ work' = CASE Classified(h) = "stale"  -> Idle
                   [] Classified(h) = "extend" -> [pc |-> "extend", head |-> h]
                   [] Classified(h) = "gap"    -> [pc |-> "catchup", head |-> h, from |-> last + 1]
                   [] Classified(h) = "reorg"  -> [pc |-> "walk", head |-> Number(h),
                                                  from |-> WalkFrom(Number(h))]
      /\ heads' = Tail(heads)
      /\ UNCHANGED <<chain, final, fin, conn, views, c, t, last, restored, saved, db, missed, base>>
  BY DEF onHead, node, world, memory, disk, rows, history
<1>3. h \in Block /\ Tail(heads) \in Seq(Block)
  BY <1>1, Typed, HeadTailProperties
<1> HIDE DEF h
<1>4. Number(h) \in Heights
  BY <1>3, BlockNumber
<1>5. Classified(h) \in {"stale", "extend", "gap", "reorg"}
  BY DEF Classified, classify
<1>6. WalkFrom(Number(h)) \in 0..Bound.height
  <2>1. c.tip # NoRef => c.tip.num \in Heights
    BY <1>1, Typed, RingNumbers
  <2> QED
    BY <1>4, <2>1 DEF WalkFrom, Heights
<1>7. last + 1 \in 1..(Bound.height + 1)
  BY <1>1, Typed
<1>8. work' \in Work
  <2>1. /\ Idle \in Work /\ [pc |-> "extend", head |-> h] \in Work
        /\ [pc |-> "catchup", head |-> h, from |-> last + 1] \in Work
    BY <1>3, <1>7 DEF Work, AfterLife
  <2>2. [pc |-> "walk", head |-> Number(h), from |-> WalkFrom(Number(h))] \in Work
    BY <1>4, <1>6 DEF Work
  <2> QED
    BY <1>2, <1>5, <2>1, <2>2
<1>9. Types'
  BY <1>1, <1>2, <1>3, <1>8, Typed, StepTyped
<1>10. Stored'
  BY <1>2, IdleStored
<1> QED
  BY <1>9, <1>10 DEF IInv

\* A mempool notification is handled.
LEMMA NotifyKept == ASSUME IInv, NEW h \in Hash, Notify(h) PROVE IInv'
<1> DEFINE r == OnPending(t, h, CallLegs[h])
           s == Calling(Here, LAMBDA x : OnPending(x, h, CallLegs[h]))
<1>1. Types /\ Good(t) /\ conn
  BY DEF IInv, Stored, Notify
<1>2. /\ Install(s)
      /\ UNCHANGED <<chain, final, fin, heads, conn, views, work, last, restored, saved, base>>
  BY DEF Notify, node, world, history
<1>3. Here \in Handled /\ Here.c = c /\ Here.t = t
  BY HereHandled DEF Here
<1>4. s = emitAll(Here, r)
  BY <1>3 DEF Calling
<1>5. CallLegs[h] \in SUBSET LegKind
  BY IndexerAssumption DEF LegKind
<1>6. Sound(r)
  BY <1>1, <1>5, OnPendingSound
<1>7. Reports(t, r)
  BY <1>1, <1>5, OnPendingReports DEF Keyed
<1> HIDE DEF r, s
<1>8. s \in Handled /\ s.c = c
  BY <1>3, <1>4, <1>6, <1>7, EmitHandled
<1>9. Stored' /\ c' \in Ring
  BY <1>2, <1>8, InstallStored
<1>10. Types'
  BY <1>1, <1>2, <1>9, Typed, StepTyped
<1> QED
  BY <1>9, <1>10 DEF IInv

\* handleReorg: the ancestor is known.
LEMMA RevertedKept ==
    ASSUME IInv, work.pc = "walk", NEW ancestor \in 0..Bound.height, Reverted(ancestor),
           ancestor + 1 \in 1..(Bound.height + 1)
    PROVE  IInv'
<1> DEFINE R == AboveAncestor(t, ancestor)
           r == DemoteAll(t, R)
           s == Calling(Here, LAMBDA x : OnReorg(x, ancestor))
<1>1. Types /\ Good(t) /\ conn
  BY BusyConnected DEF IInv, Stored
<1>2. /\ Install(s) /\ last' = ancestor /\ work' = Rescan(ancestor + 1, work.head) /\ views' = {chain}
      /\ UNCHANGED <<chain, final, fin, heads, conn, restored, saved, base>>
  BY DEF Reverted, node, world, history
<1>3. Here \in Handled /\ Here.c = c /\ Here.t = t
  BY HereHandled DEF Here
<1>4. s = emitAll(Here, r)
  BY <1>3 DEF Calling, OnReorg
<1>5. R \in SUBSET Hash /\ \A h \in R : IsMined(t, h)
  BY DEF AboveAncestor
<1> HIDE DEF R
<1>6. Sound(r)
  BY <1>1, <1>5, DemoteAllSound
<1>7. Reports(t, r)
  BY <1>1, <1>5, DemoteAllReports
<1> HIDE DEF r, s
<1>8. s \in Handled /\ s.c = c
  BY <1>3, <1>4, <1>6, <1>7, EmitHandled
<1>9. Stored' /\ c' \in Ring
  BY <1>2, <1>8, InstallStored
<1>10. work.head \in Heights
  BY <1>1, Typed, WorkCases
<1>11. work' \in Work /\ views' \in SUBSET Block
  BY <1>1, <1>2, <1>10, Typed DEF Rescan, Work
<1>12. Types'
  BY <1>1, <1>2, <1>9, <1>11, Typed, StepTyped
<1> QED
  BY <1>9, <1>12 DEF IInv

\* The next request names headers above the ring's floor.
LEMMA ChunkNumbers ==
    ASSUME NEW ring \in Ring, NEW from \in 0..Bound.height
    PROVE  NextChunk(ring, from) \in SUBSET (1..Bound.height)
<1>1. floorOf(ring) \in 0..Bound.height /\ Bound.height \in Nat
  BY RingNumbers, IndexerAssumption
<1>2. Candidates(ring, from) \in SUBSET (1..Bound.height)
  BY <1>1 DEF Candidates
<1> QED
  BY <1>2 DEF NextChunk

\* One request of findAncestor.
LEMMA WalkKept == ASSUME IInv, Walk PROVE IInv'
<1> DEFINE chunk == NextChunk(c, work.from)
           same == {n \in chunk : n <= Len(chain) /\ at(c, n).hash = BlockAt(chain, n)}
<1>1. Types /\ work.pc = "walk" /\ Bound.height \in Nat
  BY IndexerAssumption DEF IInv, Walk
<1>2. work \in [pc : {"walk"}, head : Heights, from : 0..Bound.height] /\ work.from \in 0..Bound.height
  BY <1>1, Typed, WorkCases
<1>3. chunk \in SUBSET (1..Bound.height)
  BY <1>1, <1>2, Typed, ChunkNumbers
<1>4. same \in SUBSET chunk
  OBVIOUS
<1>5. \/ Reverted(floorOf(c))
      \/ NotServed(Top(chunk))
      \/ same # {} /\ Reverted(Top(same))
      \/ /\ chunk # {} /\ work' = [work EXCEPT !.from = Bottom(chunk) - 1]
         /\ UNCHANGED <<node, heads, conn, views, memory, disk, history>>
  BY DEF Walk
<1> HIDE DEF chunk, same
<1>6. CASE Reverted(floorOf(c))
  <2>1. floorOf(c) \in 0..Bound.height
    BY <1>1, Typed, RingNumbers
  <2> QED
    BY <1>1, <1>6, <2>1, RevertedKept
<1>7. CASE NotServed(Top(chunk))
  <2>1. EndSession /\ UNCHANGED <<world, memory, disk, base>>
    BY <1>7 DEF NotServed
  <2> QED
    BY <2>1, FailKept
<1>8. CASE same # {} /\ Reverted(Top(same))
  <2>1. same \in SUBSET (0..Bound.height)
    BY <1>1, <1>3, <1>4
  <2>2. Top(same) \in same
    BY <1>1, <1>8, <2>1, GreatestExists DEF Top
  <2>3. Top(same) \in 0..Bound.height
    BY <2>1, <2>2
  <2> QED
    BY <1>1, <1>8, <2>3, RevertedKept
<1>9. CASE /\ chunk # {} /\ work' = [work EXCEPT !.from = Bottom(chunk) - 1]
           /\ UNCHANGED <<node, heads, conn, views, memory, disk, history>>
  <2>1. chunk \in SUBSET Nat
    BY <1>3
  <2>2. Bottom(chunk) \in chunk
    <3>1. \E x \in chunk : \A y \in chunk : x <= y
      BY <1>9, <2>1, LeastExists
    <3>2. \E x \in chunk : \A y \in chunk : y >= x
      BY <2>1, <3>1
    <3> QED
      BY <3>2 DEF Bottom
  <2>3. Bottom(chunk) - 1 \in 0..Bound.height
    <3> DEFINE low == Bottom(chunk)
    <3>1. low \in 1..Bound.height
      BY <1>3, <2>2
    <3> HIDE DEF low
    <3>2. low - 1 \in 0..Bound.height
      BY <1>1, <3>1
    <3> QED
      BY <3>2 DEF low
  <2>4. work' \in Work
    BY <1>2, <1>9, <2>3 DEF Work
  <2>5. UNCHANGED <<chain, final, fin, heads, conn, views, c, t, last, restored, saved, db, missed, base>>
    BY <1>9 DEF node, world, memory, disk, rows, history
  <2>6. conn
    BY <1>1, BusyConnected
  <2>7. Types'
    BY <1>1, <2>4, <2>5, <2>6, Typed, StepTyped
  <2>8. Stored'
    BY <2>5, IdleStored
  <2> QED
    BY <2>7, <2>8 DEF IInv
<1> QED
  BY <1>5, <1>6, <1>7, <1>8, <1>9

\* A replacement block,
LEMMA RescanBlockKept == ASSUME IInv, RescanBlock PROVE IInv'
<1> DEFINE next == [work EXCEPT !.n = work.n + 1]
<1>1. Types /\ work.pc = "rescan" /\ ~(work.n > work.to)
  BY DEF IInv, RescanBlock, Local
<1>2. PICK v \in views :
        \/ /\ Len(v) >= work.n
           /\ Process(BlockAt(v, work.n), next)
           /\ UNCHANGED <<node, heads, conn, views, last, restored, fin, saved, base, heard>>
        \/ EndSession /\ UNCHANGED <<world, memory, disk, base>>
  BY DEF RescanBlock
<1>3. CASE EndSession /\ UNCHANGED <<world, memory, disk, base>>
  BY <1>3, FailKept
<1>4. CASE /\ Len(v) >= work.n
           /\ Process(BlockAt(v, work.n), next)
           /\ UNCHANGED <<node, heads, conn, views, last, restored, fin, saved, base, heard>>
  <2>1. work \in [pc : {"rescan"}, n : 1..(Bound.height + 1), to : Heights]
    BY <1>1, Typed, WorkCases
  <2>2. work.n \in 1..Bound.height /\ work.n + 1 \in 1..(Bound.height + 1)
    BY <1>1, <2>1, Typed DEF Heights
  <2>3. v \in Block /\ Len(v) \in Heights
    BY <1>1, Typed, BlockIsSeq
  <2>4. BlockAt(v, work.n) \in Block
    <3>1. work.n \in 1..Len(v)
      BY <1>4, <2>2, <2>3 DEF Heights
    <3> QED
      BY <2>3, <3>1, PrefixBlock
  <2>5. next \in [pc : {"rescan"}, n : 1..(Bound.height + 1), to : Heights]
    BY <2>1, <2>2
  <2> HIDE DEF next
  <2>6. next \in Work
    BY <2>5 DEF Work
  <2>7. Stored' /\ c' \in Ring /\ work' = next
    BY <1>4, <2>4, ProcessKept
  <2>8. UNCHANGED <<chain, final, fin, heads, conn, views, last, restored, saved, base>>
    BY <1>4 DEF node, world
  <2>9. conn
    BY <1>1, BusyConnected
  <2>10. Types'
    BY <1>1, <2>6, <2>7, <2>8, <2>9, Typed, StepTyped
  <2> QED
    BY <2>7, <2>10 DEF IInv
<1> QED
  BY <1>2, <1>3, <1>4

\* and the tip after the last one.
LEMMA RescannedKept == ASSUME IInv, Rescanned PROVE IInv'
<1>1. Types
  BY DEF IInv
<1>2. /\ work.pc = "rescan" /\ last' = work.to /\ saveState(work.to, c)
      /\ work' = Life(work.to, 0, Idle) /\ views' = {} /\ c' = resetTip(c, work.to)
      /\ UNCHANGED <<chain, final, fin, heads, conn, t, restored, db, missed, base>>
  BY DEF Rescanned, Advance, node, world, rows, history
<1>3. work.to \in Heights /\ work.to \in 0..Bound.height /\ work.to \in Nat
  BY <1>1, <1>2, Typed, WorkCases DEF Heights
<1>4. work' \in Work
  BY <1>1, <1>2, <1>3, Typed DEF Work, Life, AfterLife
<1>5. SavedType'
  BY <1>1, <1>2, <1>3, Typed, SaveTyped
<1>6. c' \in Ring
  <2>1. c \in Ring /\ (Held(c, work.to) => at(c, work.to) \in HeaderRef)
    BY <1>1, <1>3, Typed, RingNumbers
  <2> QED
    BY <1>2, <2>1 DEF resetTip, Ring
<1>7. conn
  BY <1>1, <1>2, BusyConnected
<1>8. Types'
  BY <1>1, <1>2, <1>3, <1>4, <1>5, <1>6, <1>7, Typed, StepTyped
<1>9. Stored'
  BY <1>2, IdleStored
<1> QED
  BY <1>8, <1>9 DEF IInv

-----------------------------------------------------------------------------
(* updateLifecycles *)

\* An error in the middle of a batch.
LEMMA InterruptedKept ==
    ASSUME IInv, NEW s \in Handled, Interrupted(s), fin' \in 0..final
    PROVE  IInv'
<1>1. /\ EndSession /\ Install(s) /\ UNCHANGED <<world, last, restored, saved, base>>
  BY DEF Interrupted
<1>2. Stored' /\ c' \in Ring
  BY <1>1, InstallStored
<1>3. Types'
  BY <1>1, <1>2, FailTyped DEF IInv
<1> QED
  BY <1>2, <1>3 DEF IInv

\* The batches leave states of the kind they start from.
LEMMA BatchesHandled ==
    ASSUME IInv, NEW hashes \in SUBSET Hash, NEW f, NEW known
    PROVE  /\ CheckAll(f, hashes) \in Handled
           /\ FoldSet(promotePendingTx, Here, Mined(hashes)) \in Handled
           /\ DropUnknown(hashes, known) \in Handled
<1>1. Here \in Within(c) /\ chain \in Block
  BY HereHandled, Typed DEF Within, IInv
<1>2. CheckAll(f, hashes) \in Within(c)
  BY <1>1, CheckAllWithin
<1>3. FoldSet(promotePendingTx, Here, Mined(hashes)) \in Within(c)
  BY <1>1, PromoteAllWithin
<1>4. DropUnknown(hashes, known) \in Within(c)
  BY <1>1, DropAllWithin
<1> QED
  BY <1>2, <1>3, <1>4 DEF Within

\* The cached finality never passes the node's.
LEMMA FinalityRead ==
    ASSUME Types, NEW f \in finalizedNumber PROVE f \in 0..final
<1>1. fin \in 0..final /\ final \in Nat
  BY Typed
<1> QED
  BY <1>1 DEF finalizedNumber

\* Candidates past the threshold are checked,
LEMMA ConfirmationsKept == ASSUME IInv, Confirmations PROVE IInv'
<1>1. Types /\ work.pc = "life"
  BY DEF IInv, Confirmations
<1>2. PICK f \in finalizedNumber :
        fin' = f /\ Install(CheckAll(f, Checks(work.head, work.floor, f)))
  BY DEF Confirmations
<1>3. /\ work' = work.next \/ work' = Resolve
      /\ UNCHANGED <<chain, final, heads, conn, views, last, restored, saved, base>>
  BY DEF Confirmations, node, world, history
<1>4. Checks(work.head, work.floor, f) \in SUBSET Hash
  BY DEF Checks, ConfirmCandidates
<1>5. CheckAll(f, Checks(work.head, work.floor, f)) \in Handled
  BY <1>4, BatchesHandled
<1>6. Stored' /\ c' \in Ring
  BY <1>2, <1>5, InstallStored
<1>7. work.next \in AfterLife /\ restored \in SUBSET Hash
  BY <1>1, Typed, WorkCases
<1>8. work' \in Work
  <2>1. work.next \in Work
    BY <1>7 DEF Work
  <2>2. Resolve \in Work
    BY <1>7 DEF Resolve, Work, StaleCandidates
  <2> QED
    BY <1>3, <2>1, <2>2
<1>9. conn /\ fin' \in 0..final
  BY <1>1, <1>2, BusyConnected, FinalityRead
<1>10. Types'
  BY <1>1, <1>3, <1>6, <1>8, <1>9, Typed, StepTyped
<1> QED
  BY <1>6, <1>10 DEF IInv

\* or some of them;
LEMMA ConfirmationsCutKept == ASSUME IInv, ConfirmationsCut PROVE IInv'
<1>1. PICK f \in finalizedNumber : \E done \in PartOf(Checks(work.head, work.floor, f)) :
        fin' = f /\ Interrupted(CheckAll(f, done))
  BY DEF ConfirmationsCut
<1>2. PICK done \in PartOf(Checks(work.head, work.floor, f)) :
        fin' = f /\ Interrupted(CheckAll(f, done))
  BY <1>1
<1>3. done \in SUBSET Hash
  BY DEF PartOf, Checks, ConfirmCandidates
<1>4. CheckAll(f, done) \in Handled
  BY <1>3, BatchesHandled
<1>5. fin' \in 0..final
  BY <1>2, FinalityRead DEF IInv
<1> QED
  BY <1>2, <1>4, <1>5, InterruptedKept

\* the pending ones are asked for their receipts,
LEMMA RecheckKept == ASSUME IInv, Recheck PROVE IInv'
<1>1. Types /\ work.pc = "recheck"
  BY DEF IInv, Recheck
<1>2. work \in [pc : {"recheck", "lookup"}, hashes : SUBSET Hash, next : AfterLife]
  BY <1>1, Typed, WorkCases
<1> DEFINE unmined == work.hashes \ Mined(work.hashes)
<1>3. /\ Install(FoldSet(promotePendingTx, Here, Mined(work.hashes)))
      /\ \/ restored' = {} /\ work' = work.next
         \/ restored' = restored /\ work' = [work EXCEPT !.pc = "lookup", !.hashes = unmined]
      /\ UNCHANGED <<chain, final, heads, conn, views, last, fin, saved, base>>
  BY DEF Recheck, node, world, history
<1>4. work.hashes \in SUBSET Hash /\ work.next \in AfterLife
  BY <1>2
<1>5. FoldSet(promotePendingTx, Here, Mined(work.hashes)) \in Handled
  BY <1>4, BatchesHandled
<1>6. Stored' /\ c' \in Ring
  BY <1>3, <1>5, InstallStored
<1>7. unmined \in SUBSET Hash
  BY <1>4
<1> HIDE DEF unmined
<1>8. work' \in Work
  <2>1. work.next \in Work
    BY <1>4 DEF Work
  <2>2. [work EXCEPT !.pc = "lookup", !.hashes = unmined] \in Work
    BY <1>2, <1>7 DEF Work
  <2> QED
    BY <1>3, <2>1, <2>2
<1>9. conn /\ restored' \in SUBSET Hash
  BY <1>1, <1>3, Typed, BusyConnected
<1>10. Types'
  BY <1>1, <1>3, <1>6, <1>8, <1>9, Typed, StepTyped
<1> QED
  BY <1>6, <1>10 DEF IInv

\* or some of them,
LEMMA RecheckCutKept == ASSUME IInv, RecheckCut PROVE IInv'
<1>1. Types /\ work.pc = "recheck" /\ fin' = fin
  BY DEF IInv, RecheckCut
<1>2. PICK done \in PartOf(work.hashes) :
        Interrupted(FoldSet(promotePendingTx, Here, Mined(done)))
  BY DEF RecheckCut
<1>3. done \in SUBSET Hash
  BY <1>1, Typed, WorkCases DEF PartOf
<1>4. FoldSet(promotePendingTx, Here, Mined(done)) \in Handled
  BY <1>3, BatchesHandled
<1>5. fin' \in 0..final
  BY <1>1, Typed
<1> QED
  BY <1>2, <1>4, <1>5, InterruptedKept

\* and those without one are looked up,
LEMMA LookupKept == ASSUME IInv, Lookup PROVE IInv'
<1>1. Types /\ work.pc = "lookup"
  BY DEF IInv, Lookup
<1>2. PICK known \in SUBSET work.hashes : Install(DropUnknown(work.hashes, known))
  BY DEF Lookup
<1>3. /\ restored' = {} /\ work' = work.next
      /\ UNCHANGED <<chain, final, heads, conn, views, last, fin, saved, base>>
  BY DEF Lookup, node, world, history
<1>4. work.hashes \in SUBSET Hash /\ work.next \in AfterLife
  BY <1>1, Typed, WorkCases
<1>5. DropUnknown(work.hashes, known) \in Handled
  BY <1>4, BatchesHandled
<1>6. Stored' /\ c' \in Ring
  BY <1>2, <1>5, InstallStored
<1>7. work' \in Work /\ conn
  BY <1>1, <1>3, <1>4, BusyConnected DEF Work
<1>8. Types'
  BY <1>1, <1>3, <1>6, <1>7, Typed, StepTyped
<1> QED
  BY <1>6, <1>8 DEF IInv

\* or some of them.
LEMMA LookupCutKept == ASSUME IInv, LookupCut PROVE IInv'
<1>1. Types /\ work.pc = "lookup" /\ fin' = fin
  BY DEF IInv, LookupCut
<1>2. PICK done \in PartOf(work.hashes) : \E known \in SUBSET done :
        Interrupted(DropUnknown(done, known))
  BY DEF LookupCut
<1>3. PICK known \in SUBSET done : Interrupted(DropUnknown(done, known))
  BY <1>2
<1>4. done \in SUBSET Hash
  BY <1>1, Typed, WorkCases DEF PartOf
<1>5. DropUnknown(done, known) \in Handled
  BY <1>4, BatchesHandled
<1>6. fin' \in 0..final
  BY <1>1, Typed
<1> QED
  BY <1>3, <1>5, <1>6, InterruptedKept

-----------------------------------------------------------------------------
(* The inductive invariant holds *)

\* A process that stops without warning,
LEMMA CrashKept == ASSUME IInv, Crash PROVE IInv'
<1>1. /\ EndSession /\ restore(saved) /\ UNCHANGED <<chain, final, db, missed, saved>>
  BY DEF Crash, disk, rows
<1>2. Types /\ SavedType /\ SavedType'
  BY <1>1, Typed DEF IInv
<1>3. saved \in [last : 0..Bound.height, refs : SUBSET HeaderRef]
  BY <1>2 DEF SavedType
<1>4. Types'
  BY <1>1, <1>2, <1>3, RestoreTyped
<1>5. Stored'
  BY <1>1, RestoreStored
<1> QED
  BY <1>4, <1>5 DEF IInv

\* and one that saves first.
LEMMA StopKept == ASSUME IInv, Stop PROVE IInv'
<1>1. /\ EndSession /\ saveState(last, c) /\ restore(saved')
      /\ UNCHANGED <<chain, final, db, missed>>
  BY DEF Stop, rows
<1>2. Types
  BY DEF IInv
<1>3. SavedType'
  BY <1>1, <1>2, Typed, SaveTyped
<1>4. saved' \in [last : 0..Bound.height, refs : SUBSET HeaderRef]
  BY <1>3 DEF SavedType
<1>5. Types'
  BY <1>1, <1>2, <1>3, <1>4, RestoreTyped
<1>6. Stored'
  BY <1>1, RestoreStored
<1> QED
  BY <1>5, <1>6 DEF IInv

\* The first process finds an empty database.
LEMMA InitKept == ASSUME Init PROVE IInv
<1>1. ChainType
  <2>1. Genesis \in Block /\ ValidChain(Genesis) /\ Len(Genesis) \in Heights
    BY IndexerAssumption, BlockIsSeq
  <2>2. chain = Genesis /\ final \in {0, Len(Genesis)} /\ fin = final
    BY DEF Init
  <2> QED
    BY <2>1, <2>2 DEF ChainType, Heights
<1>2. QueueType /\ WorkType
  BY DEF Init, QueueType, WorkType, Idle, Work, AfterLife
<1>3. MemoryType /\ SavedType
  <2>1. newChainState \in Ring
    <3>1. {} \in SUBSET HeaderRef
      OBVIOUS
    <3> QED
      BY <3>1, RebuiltRing
  <2> QED
    BY <2>1, IndexerAssumption DEF Init, MemoryType, SavedType, NoState
<1>4. Good(t) /\ \A h \in Hash : t.txs[h] = NoTx
  <2>1. t = NewTracker
    BY DEF Init
  <2>2. NewTracker \in TrackerState
    BY NoTxType DEF NewTracker, TrackerState, NoMemory, Memory
  <2>3. /\ \A h \in Hash : NewTracker.txs[h] = NoTx
        /\ \A s \in Slot, h \in Hash : NewTracker.byNonce[s][h] = 0
    BY DEF NewTracker
  <2>4. Exact(NewTracker.txs, NewTracker.byNonce)
    BY <2>3, NoTxStorable DEF Exact
  <2>5. Absent(NewTracker.txs) /\ Founded(NewTracker.txs)
    BY <2>3, NoTxStorable DEF Absent, Founded
  <2>6. Apart(NewTracker.txs, NewTracker.tombstones)
    BY <2>3, NoTxStorable DEF Apart
  <2> QED
    BY <2>1, <2>2, <2>3, <2>4, <2>5, <2>6 DEF Good
<1>5. SaneRows(db) /\ RowsClear(db)
  <2>1. db = [h \in Hash |-> NoRow]
    BY DEF Init
  <2>2. NoRow \in RowType /\ NoRow.status = "none"
    BY NoTxType DEF NoRow, RowType
  <2> HIDE DEF NoRow
  <2> QED
    BY <2>1, <2>2 DEF SaneRows, RowsClear, Sane
<1>6. Clear(t) /\ TrackedIsStored
  BY <1>4, NoTxStorable DEF Clear, TrackedIsStored, Tracked
<1> QED
  BY <1>1, <1>2, <1>3, <1>4, <1>5, <1>6 DEF IInv, Types, Stored

\* Every step keeps the invariant.
LEMMA NextKept == ASSUME IInv, [Next]_vars PROVE IInv'
<1>1. Types
  BY DEF IInv
<1>2. CASE UNCHANGED vars
  <2>1. IInv' = IInv
    BY <1>2 DEF vars, node, world, memory, disk, rows, history, IInv, Types, ChainType, QueueType,
                WorkType, MemoryType, SavedType, Stored, TrackedIsStored
  <2> QED
    BY <2>1
<1>3. ASSUME NEW body \in Body, Extend(body) PROVE IInv'
  <2>1. UNCHANGED <<t, db, missed>>
    BY <1>3 DEF Extend, Adopt, memory, disk, rows
  <2> QED
    BY <1>1, <1>3, <2>1, ExtendTyped, IdleStored DEF IInv
<1>4. ASSUME NEW k \in 1..Bound.height, NEW bodies \in Seq(Body), Reorg(k, bodies) PROVE IInv'
  <2>1. UNCHANGED <<t, db, missed>>
    BY <1>4 DEF Reorg, Adopt, memory, disk, rows
  <2> QED
    BY <1>1, <1>4, <2>1, ReorgTyped, IdleStored DEF IInv
<1>5. ASSUME NEW h \in Hash, Gossip(h) PROVE IInv'
  <2>1. UNCHANGED <<t, db, missed>>
    BY <1>5 DEF Gossip, memory, disk, rows
  <2> QED
    BY <1>1, <1>5, <2>1, QuietTyped, IdleStored DEF IInv
<1>6. ASSUME NEW h \in Hash, Expire(h) PROVE IInv'
  BY <1>1, <1>6, QuietTyped, ExpireStored DEF IInv
<1>7. CASE Finalize \/ Break \/ Mend \/ Reconnect
  <2>1. UNCHANGED <<t, db, missed>>
    BY <1>7 DEF Finalize, Break, Mend, Reconnect, memory, disk, rows
  <2>2. Types'
    BY <1>1, <1>7, QuietTyped
  <2> QED
    BY <2>1, <2>2, IdleStored DEF IInv
<1>8. CASE Fail
  <2>1. EndSession /\ UNCHANGED <<world, memory, disk, base>>
    BY <1>8 DEF Fail
  <2> QED
    BY <2>1, FailKept
<1>9. CASE NodeStep
  <2>1. \A body \in Body : <<body>> \in Seq(Body)
    OBVIOUS
  <2>2. \A b1, b2 \in Body : <<b1, b2>> \in Seq(Body)
    OBVIOUS
  <2> QED
    BY <1>3, <1>4, <1>5, <1>6, <1>7, <1>9, <2>1, <2>2 DEF NodeStep
<1>10. CASE HandlerStep
  BY <1>10, ExtendBlockKept, ExtendedKept, CatchUpHeadKept, DrainHeadKept, DrainBlockKept,
     FillBlockKept, CaughtUpKept, WalkKept, RescanBlockKept, RescannedKept, ConfirmationsKept,
     RecheckKept, LookupKept DEF HandlerStep
<1> QED
  BY <1>2, <1>7, <1>8, <1>9, <1>10, ConfirmationsCutKept, RecheckCutKept, LookupCutKept,
     CrashKept, StopKept, NotifyKept, OnHeadKept DEF Next

-----------------------------------------------------------------------------
(* Without lower heads no number is above the node's *)

LowNext(w, top) == w.pc = "fill" => w.highest <= top
LowWork(w, top) ==
    /\ LowNext(w, top)
    /\ w.pc \in {"extend", "catchup"} => Len(w.head) <= top
    /\ w.pc \in {"extended", "walk", "life"} => w.head <= top
    /\ w.pc \in {"drain", "rescan"} => w.to <= top
    /\ w.pc = "drain" => LowNext(w.fill, top)
    /\ w.pc \in {"life", "recheck", "lookup"} => LowNext(w.next, top)
LowRing(ring, top) == ring.tip # NoRef => ring.tip.num <= top
LowRefs(refs, top) == \A r \in refs : r.num <= top
LowHeads(hs, top) == \A i \in 1..Len(hs) : Len(hs[i]) <= top
LowViews(vs, top) == \A v \in vs : Len(v) <= top

Low == /\ LowRing(c, Len(chain)) /\ LowRefs(saved.refs, Len(chain))
       /\ LowHeads(heads, Len(chain)) /\ LowViews(views, Len(chain)) /\ LowWork(work, Len(chain))

\* Whatever is still to be handled agrees with what is final.
Agreed == \A b \in Unhandled : Agrees(b, final)

\* A handler may process block b then.
Near(b) == /\ Low => Number(b) <= Len(chain)
           /\ Agreed => Agrees(b, final)

-----------------------------------------------------------------------------
(* The slots a block uses *)

\* A step that processes block b.
Processes(b) == /\ \E mode \in ScanModes(b), open \in MayStayOpen(b) : Install(processBlock(Here, b, mode, open))
                /\ scanned' = scanned \cup {b}

\* What Process does with its block.
LEMMA ProcessProcesses ==
    ASSUME NEW b, NEW next, Process(b, next) PROVE Processes(b)
BY DEF Process, Processes

\* A step that processes no block adds none.
LEMMA NodeScansNothing ==
    ASSUME NodeStep \/ Fail \/ Reconnect \/ onHead \/ UNCHANGED vars
    PROVE  scanned' \subseteq scanned
<1>1. ASSUME NEW body, Extend(body) PROVE scanned' = scanned
  BY <1>1 DEF Extend, Adopt
<1>2. ASSUME NEW k, NEW bodies, Reorg(k, bodies) PROVE scanned' = scanned
  BY <1>2 DEF Reorg, Adopt
<1>3. ASSUME NEW h, Gossip(h) \/ Expire(h) PROVE scanned' = scanned
  BY <1>3 DEF Gossip, Expire, history
<1>4. CASE Finalize \/ Break \/ Mend
  BY <1>4 DEF Finalize, Break, Mend, history
<1>5. CASE Fail \/ Reconnect \/ onHead \/ UNCHANGED vars
  BY <1>5 DEF Fail, Reconnect, onHead, vars, history
<1>6. CASE NodeStep
  BY <1>1, <1>2, <1>3, <1>4, <1>6 DEF NodeStep
<1> QED
  BY <1>5, <1>6

\* Nor do a restart, a notification and an interrupted batch.
LEMMA OthersScanNothing ==
    ASSUME \/ ConfirmationsCut \/ RecheckCut \/ LookupCut \/ Crash \/ Stop
           \/ \E h \in Hash : Notify(h)
    PROVE  scanned' \subseteq scanned
<1>1. ASSUME NEW s, Interrupted(s) PROVE scanned' = scanned
  BY <1>1 DEF Interrupted
<1>2. CASE ConfirmationsCut \/ RecheckCut \/ LookupCut
  BY <1>1, <1>2 DEF ConfirmationsCut, RecheckCut, LookupCut
<1>3. CASE Crash \/ Stop
  BY <1>3 DEF Crash, Stop, restore
<1>4. ASSUME NEW h \in Hash, Notify(h) PROVE scanned' = scanned
  BY <1>4 DEF Notify, history
<1> QED
  BY <1>2, <1>3, <1>4

\* The prefixes of a block that agrees agree.
LEMMA PrefixAgrees ==
    ASSUME NEW v \in Block, NEW n \in 1..Len(v), NEW m, Agrees(v, m)
    PROVE  Agrees(BlockAt(v, n), m)
<1>1. v \in Seq(Body) /\ Len(v) \in Nat /\ Len(BlockAt(v, n)) = n
  BY BlockIsSeq, PrefixBlock DEF Heights
<1>2. \A i \in 1..n : BlockAt(v, n)[i] = v[i] /\ i \in 1..Len(v)
  <2>1. \A i \in 1..n : v[i] \in Body
    BY <1>1
  <2>2. \A i \in 1..(n - 1 + 1) : SubSeq(v, 1, n)[i] = v[1 + i - 1]
    BY <1>1, <2>1, SubSeqProperties
  <2> QED
    BY <1>1, <2>2 DEF BlockAt
<1> QED
  BY <1>1, <1>2 DEF Agrees

\* A step of a scan processes one block, unless the node does not serve it.
LEMMA BlockProcessed ==
    ASSUME IInv, ExtendBlock \/ CatchUpHead \/ DrainBlock \/ FillBlock \/ RescanBlock
    PROVE  \/ scanned' = scanned /\ out' = {} /\ UNCHANGED <<c, t, db>>
           \/ \E b \in Block : Processes(b) /\ Near(b)
<1>1. Types
  BY DEF IInv
<1>2. CASE ExtendBlock \/ CatchUpHead
  <2>1. work.pc \in {"extend", "catchup"} /\ Processes(work.head)
    BY <1>2, ProcessProcesses DEF ExtendBlock, CatchUpHead
  <2>2. work.head \in Block
    BY <1>1, <2>1, Typed, WorkCases
  <2>3. Near(work.head)
    <3>1. Low => Number(work.head) <= Len(chain)
      BY <2>1 DEF Low, LowWork, Number
    <3>2. work.head \in Unhandled
      BY <2>1 DEF Unhandled
    <3> QED
      BY <3>1, <3>2 DEF Near, Agreed
  <2> QED
    BY <2>1, <2>2, <2>3
<1>3. CASE DrainBlock
  <2>1. CASE NotServed(work.g)
    BY <2>1 DEF NotServed, memory, disk, rows
  <2>2. ASSUME NEW v \in views \cup {chain}, v \in Block, work.g \in 1..Len(v),
               Processes(BlockAt(v, work.g))
        PROVE  Near(BlockAt(v, work.g)) /\ BlockAt(v, work.g) \in Block
    <3>1. /\ BlockAt(v, work.g) \in Block /\ Number(BlockAt(v, work.g)) = work.g
          /\ Len(v) \in Nat /\ Len(chain) \in Nat
      BY <1>1, <2>2, Typed, PrefixBlock, BlockIsSeq DEF Number, Heights
    <3>2. Low => Len(v) <= Len(chain)
      BY <3>1 DEF Low, LowViews
    <3>3. Low => work.g <= Len(chain)
      BY <2>2, <3>1, <3>2
    <3>4. Agreed => Agrees(v, final)
      BY DEF Agreed, Unhandled, Agrees
    <3>5. Agreed => Agrees(BlockAt(v, work.g), final)
      BY <2>2, <3>4, PrefixAgrees
    <3> QED
      BY <3>1, <3>3, <3>5 DEF Near
  <2> QED
    BY <1>3, <2>1, <2>2, DrainReads, ProcessProcesses
<1>4. CASE FillBlock \/ RescanBlock
  <2>1. PICK v \in views : \/ Len(v) >= work.n /\ Processes(BlockAt(v, work.n))
                           \/ scanned' = scanned /\ out' = {} /\ UNCHANGED <<c, t, db>>
    BY <1>4, ProcessProcesses DEF FillBlock, RescanBlock, memory, disk, rows
  <2>2. v \in Block /\ Len(v) \in Heights /\ Len(chain) \in Heights
    BY <1>1, Typed, BlockIsSeq
  <2>3. work.n \in Nat /\ work.n >= 1
    <3>1. CASE FillBlock
      BY <1>1, <3>1, Typed, WorkCases DEF FillBlock, Local, FillWork
    <3>2. CASE RescanBlock
      BY <1>1, <3>2, Typed, WorkCases DEF RescanBlock
    <3> QED
      BY <1>4, <3>1, <3>2
  <2>4. CASE Len(v) >= work.n /\ Processes(BlockAt(v, work.n))
    <3>1. work.n \in 1..Len(v)
      BY <2>2, <2>3, <2>4 DEF Heights
    <3>2. BlockAt(v, work.n) \in Block /\ Number(BlockAt(v, work.n)) = work.n
      BY <2>2, <3>1, PrefixBlock DEF Number
    <3>3. Low => Len(v) <= Len(chain)
      BY DEF Low, LowViews
    <3>4. Low => work.n <= Len(chain)
      BY <2>2, <2>3, <2>4, <3>3 DEF Heights
    <3>5. Agreed => Agrees(v, final)
      BY DEF Agreed, Unhandled
    <3>6. Agreed => Agrees(BlockAt(v, work.n), final)
      BY <2>2, <3>1, <3>5, PrefixAgrees
    <3> QED
      BY <2>4, <3>2, <3>4, <3>6 DEF Near
  <2> QED
    BY <2>1, <2>4
<1> QED
  BY <1>2, <1>3, <1>4

\* Every step of a handler processes one block of some chain, or none.
LEMMA HandlerScans ==
    ASSUME IInv, HandlerStep
    PROVE  scanned' \subseteq scanned \/ \E b \in Block : Processes(b)
<1>1. CASE ExtendBlock \/ CatchUpHead \/ DrainBlock \/ FillBlock \/ RescanBlock
  BY <1>1, BlockProcessed
<1>2. CASE Extended \/ DrainHead \/ CaughtUp \/ Rescanned
  BY <1>2 DEF Extended, DrainHead, CaughtUp, Rescanned, history
<1>3. CASE Walk
  BY <1>3 DEF Walk, Reverted, NotServed, history
<1>4. CASE Confirmations \/ Recheck \/ Lookup
  BY <1>4 DEF Confirmations, Recheck, Lookup, history
<1> QED
  BY <1>1, <1>2, <1>3, <1>4 DEF HandlerStep

\* A processed block leaves no pending transaction known to hold a slot that
\* one of its own used.
LEMMA ProcessClears ==
    ASSUME IInv, NEW b \in Block, Processes(b) PROVE ~LeftPending(TRUE)
<1>1. Here \in Within(c)
  BY HereHandled DEF Within
<1>2. PICK mode \in ScanModes(b), open \in MayStayOpen(b) : Install(processBlock(Here, b, mode, open))
  BY DEF Processes
<1>3. SlotsClear(processBlock(Here, b, mode, open).t, TxsOf(b))
  BY <1>1, ProcessedHandled
<1>4. t' = processBlock(Here, b, mode, open).t
  BY <1>2 DEF Install
<1>5. SlotsClear(t', TxsOf(b))
  BY <1>3, <1>4
<1>6. scanned' \ scanned \subseteq {b}
  BY DEF Processes
<1> QED
  BY <1>5, <1>6 DEF SlotsClear, LeftPending

\* No step leaves one.
LEMMA NextClears ==
    ASSUME IInv, [Next]_vars PROVE ~LeftPending(TRUE)
<1>1. \/ scanned' \subseteq scanned
      \/ \E b \in Block : Processes(b)
  BY NodeScansNothing, OthersScanNothing, HandlerScans DEF Next
<1>2. scanned' \subseteq scanned => ~LeftPending(TRUE)
  BY DEF LeftPending
<1> QED
  BY <1>1, <1>2, ProcessClears

-----------------------------------------------------------------------------
(* Restored transactions *)

\* The list a recheck works on holds every restored transaction; those it has
\* left by the second request are not pending any more.
Listed ==
    /\ work.pc = "recheck" => restored \subseteq work.hashes
    /\ work.pc = "lookup" => \A h \in restored : h \in work.hashes \/ ~IsPending(t, h)
Counted == spent \in [DOMAIN Bound -> Nat]
LInv == Listed /\ Counted

\* No recheck is under way.
Elsewhere(w) == w.pc \notin {"recheck", "lookup"}

\* Nothing is listed then.
LEMMA ElsewhereListed == ASSUME Elsewhere(work') PROVE Listed'
BY DEF Elsewhere, Listed

\* What follows a recheck is none.
LEMMA AfterLifeElsewhere == ASSUME NEW w \in AfterLife PROVE Elsewhere(w)
BY DEF AfterLife, FillWork, Idle, Elsewhere

\* A step of the node, or one that stutters, changes no list.
LEMMA NodeListed ==
    ASSUME IInv, Listed, NodeStep \/ Reconnect \/ UNCHANGED vars
    PROVE  Listed' /\ restored' = restored
<1>1. ASSUME NEW body, Extend(body) PROVE UNCHANGED <<work, restored, t>>
  BY <1>1 DEF Extend, Adopt, memory
<1>2. ASSUME NEW k, NEW bodies, Reorg(k, bodies) PROVE UNCHANGED <<work, restored, t>>
  BY <1>2 DEF Reorg, Adopt, memory
<1>3. ASSUME NEW h, Gossip(h) PROVE UNCHANGED <<work, restored, t>>
  BY <1>3 DEF Gossip, memory
<1>4. CASE Finalize \/ Break \/ Mend \/ Reconnect \/ UNCHANGED vars
  <2>1. UNCHANGED <<work, restored, t>>
    BY <1>4 DEF Finalize, Break, Mend, Reconnect, vars, memory
  <2> QED
    BY <2>1 DEF Listed
<1>5. ASSUME NEW h \in Hash, Expire(h) PROVE Listed' /\ restored' = restored
  <2>1. t' = [t EXCEPT !.txs[h].stale = TRUE] /\ UNCHANGED <<work, restored>>
    BY <1>5 DEF Expire
  <2>2. t \in TrackerState /\ t.txs \in [Hash -> Tx] /\ restored \in SUBSET Hash
    BY DEF IInv, Stored, Good, TrackerState, Types, MemoryType
  <2>3. t'.txs = [t.txs EXCEPT ![h].stale = TRUE]
    BY <2>1, <2>2 DEF TrackerState
  <2>4. ASSUME NEW g \in Hash PROVE t'.txs[g].state = t.txs[g].state
    BY <2>2, <2>3 DEF Tx
  <2> QED
    BY <2>1, <2>2, <2>4 DEF Listed, IsPending
<1>6. CASE NodeStep
  <2>1. UNCHANGED <<work, restored, t>> => Listed' /\ restored' = restored
    BY DEF Listed
  <2> QED
    BY <1>1, <1>2, <1>3, <1>4, <1>5, <1>6, <2>1 DEF NodeStep
<1> QED
  BY <1>4, <1>6

\* A session that ends lists nothing; what was restored stays.
LEMMA EndListed ==
    ASSUME EndSession PROVE Listed'
BY ElsewhereListed DEF EndSession, Idle, Elsewhere

\* The events of the session list nothing.
LEMMA SessionListed ==
    ASSUME IInv, Listed,
           \/ Fail \/ ConfirmationsCut \/ RecheckCut \/ LookupCut \/ onHead
           \/ \E h \in Hash : Notify(h)
    PROVE  Listed' /\ restored' = restored
<1>1. CASE Fail
  BY <1>1, EndListed DEF Fail, memory
<1>2. ASSUME NEW s, Interrupted(s) PROVE Listed' /\ restored' = restored
  BY <1>2, EndListed DEF Interrupted
<1>3. CASE ConfirmationsCut \/ RecheckCut \/ LookupCut
  BY <1>2, <1>3 DEF ConfirmationsCut, RecheckCut, LookupCut
<1>4. CASE onHead
  <2>1. Classified(Head(heads)) \in {"stale", "extend", "gap", "reorg"}
    BY DEF Classified, classify
  <2>2. Elsewhere(work')
    BY <1>4, <2>1 DEF onHead, Elsewhere, Idle
  <2> QED
    BY <1>4, <2>2, ElsewhereListed DEF onHead, memory
<1>5. ASSUME NEW h \in Hash, Notify(h) PROVE Listed' /\ restored' = restored
  <2>1. Elsewhere(work')
    BY <1>5 DEF Notify, Elsewhere
  <2> QED
    BY <1>5, <2>1, ElsewhereListed DEF Notify
<1> QED
  BY <1>1, <1>3, <1>4, <1>5

\* Nor do the handlers of a block.
LEMMA BlocksListed ==
    ASSUME IInv,
           \/ ExtendBlock \/ Extended \/ CatchUpHead \/ DrainHead \/ DrainBlock \/ FillBlock
           \/ CaughtUp \/ Walk \/ RescanBlock \/ Rescanned
    PROVE  Listed' /\ restored' = restored
<1>1. Types
  BY DEF IInv
<1>2. CASE ExtendBlock \/ CatchUpHead
  <2>1. Elsewhere(work') /\ restored' = restored
    BY <1>2 DEF ExtendBlock, CatchUpHead, Process, Fill, Elsewhere
  <2> QED
    BY <2>1, ElsewhereListed
<1>3. CASE Extended \/ CaughtUp \/ Rescanned
  <2>1. Elsewhere(work') /\ restored' = restored
    BY <1>3 DEF Extended, CaughtUp, Rescanned, Advance, Life, Elsewhere
  <2> QED
    BY <2>1, ElsewhereListed
<1>4. CASE DrainHead
  <2>1. Elsewhere(work') /\ restored' = restored
    BY <1>4 DEF DrainHead, memory, Elsewhere
  <2> QED
    BY <2>1, ElsewhereListed
<1>5. CASE DrainBlock
  <2>1. CASE NotServed(work.g)
    BY <2>1, EndListed DEF NotServed, memory
  <2>2. CASE ~NotServed(work.g)
    <3>1. /\ restored' = restored
          /\ work' = IF work.g = work.to THEN [work.fill EXCEPT !.highest = work.to]
                     ELSE [work EXCEPT !.g = work.g + 1]
      BY <1>5, <2>2 DEF DrainBlock, Process
    <3>2. work \in [pc : {"drain"}, g : Heights, to : Heights, past : SUBSET Block, fill : FillWork]
      BY <1>1, <1>5, Typed, WorkCases DEF DrainBlock
    <3>3. Elsewhere([work EXCEPT !.g = work.g + 1])
      BY <3>2 DEF Elsewhere
    <3>4. Elsewhere([work.fill EXCEPT !.highest = work.to])
      BY <3>2 DEF Elsewhere, FillWork
    <3> QED
      BY <3>1, <3>3, <3>4, ElsewhereListed
  <2> QED
    BY <2>1, <2>2
<1>6. CASE FillBlock \/ RescanBlock
  <2>1. CASE EndSession /\ UNCHANGED memory
    BY <2>1, EndListed DEF memory
  <2>2. CASE ~(EndSession /\ UNCHANGED memory)
    <3>1. /\ restored' = restored
          /\ \/ work' = Life(work.highest, work.n, [work EXCEPT !.n = work.n - 1])
             \/ work.pc = "rescan" /\ work' = [work EXCEPT !.n = work.n + 1]
      BY <1>6, <2>2 DEF FillBlock, RescanBlock, Process
    <3>2. CASE work' = Life(work.highest, work.n, [work EXCEPT !.n = work.n - 1])
      <4>1. Elsewhere(work')
        BY <3>2 DEF Life, Elsewhere
      <4> QED
        BY <3>1, <4>1, ElsewhereListed
    <3>3. CASE work.pc = "rescan" /\ work' = [work EXCEPT !.n = work.n + 1]
      <4>1. work \in [pc : {"rescan"}, n : 1..(Bound.height + 1), to : Heights]
        BY <1>1, <3>3, Typed, WorkCases
      <4>2. Elsewhere(work')
        BY <3>3, <4>1 DEF Elsewhere
      <4> QED
        BY <3>1, <4>2, ElsewhereListed
    <3> QED
      BY <3>1, <3>2, <3>3
  <2> QED
    BY <2>1, <2>2
<1>7. CASE Walk
  <2>1. ASSUME NEW n, NotServed(n) PROVE Listed' /\ restored' = restored
    BY <2>1, EndListed DEF NotServed, memory
  <2>2. ASSUME NEW n, Reverted(n) PROVE Listed' /\ restored' = restored
    <3>1. Elsewhere(work') /\ restored' = restored
      BY <2>2 DEF Reverted, Rescan, Elsewhere
    <3> QED
      BY <3>1, ElsewhereListed
  <2>3. ASSUME NEW m, work' = [work EXCEPT !.from = m], restored' = restored
        PROVE  Listed' /\ restored' = restored
    <3>1. work \in [pc : {"walk"}, head : Heights, from : 0..Bound.height]
      BY <1>1, <1>7, Typed, WorkCases DEF Walk
    <3>2. Elsewhere(work')
      BY <2>3, <3>1 DEF Elsewhere
    <3> QED
      BY <2>3, <3>2, ElsewhereListed
  <2> QED
    BY <1>7, <2>1, <2>2, <2>3 DEF Walk, memory
<1> QED
  BY <1>2, <1>3, <1>4, <1>5, <1>6, <1>7

\* The pending ones and the restored ones are listed,
LEMMA ConfirmationsListed ==
    ASSUME IInv, Confirmations PROVE Listed' /\ restored' = restored
<1>1. /\ work' = work.next \/ work' = Resolve
      /\ restored' = restored /\ work.pc = "life" /\ Types
  BY DEF IInv, Confirmations
<1>2. Elsewhere(work.next)
  BY <1>1, Typed, WorkCases, AfterLifeElsewhere
<1>3. CASE work' = Resolve
  <2>1. work'.pc = "recheck" /\ work'.hashes = StaleCandidates(t) \cup restored
    BY <1>3 DEF Resolve
  <2> QED
    BY <1>1, <2>1 DEF Listed
<1> QED
  BY <1>1, <1>2, <1>3, ElsewhereListed

\* those with a receipt are settled,
LEMMA RecheckListed ==
    ASSUME IInv, Listed, Recheck
    PROVE  Listed' /\ \A h \in restored \ restored' : ~IsPending(t', h)
<1> DEFINE unmined == work.hashes \ Mined(work.hashes)
           s == FoldSet(promotePendingTx, Here, Mined(work.hashes))
<1>1. /\ Install(s)
      /\ \/ unmined = {} /\ restored' = {} /\ work' = work.next
         \/ restored' = restored /\ work' = [work EXCEPT !.pc = "lookup", !.hashes = unmined]
      /\ work.pc = "recheck" /\ Types
  BY DEF Recheck, IInv
<1>2. work \in [pc : {"recheck", "lookup"}, hashes : SUBSET Hash, next : AfterLife]
  BY <1>1, Typed, WorkCases
<1>3. Here \in Within(c) /\ chain \in Block /\ work.hashes \in SUBSET Hash
  BY <1>1, <1>2, HereHandled, Typed DEF Within
<1>4. NonePending(s.t, Mined(work.hashes))
  BY <1>3, PromoteAllWithin
<1>5. t' = s.t
  BY <1>1 DEF Install
<1> HIDE DEF s
<1>6. \A h \in Mined(work.hashes) : ~IsPending(t', h)
  BY <1>4, <1>5 DEF NonePending
<1>7. restored \subseteq work.hashes
  BY <1>1 DEF Listed
<1>8. CASE unmined = {} /\ restored' = {} /\ work' = work.next
  <2>1. Elsewhere(work')
    BY <1>2, <1>8, AfterLifeElsewhere
  <2> QED
    BY <1>6, <1>7, <1>8, <2>1, ElsewhereListed
<1>9. CASE restored' = restored /\ work' = [work EXCEPT !.pc = "lookup", !.hashes = unmined]
  <2>1. work'.pc = "lookup" /\ work'.hashes = unmined
    BY <1>2, <1>9
  <2> QED
    BY <1>6, <1>7, <1>9, <2>1 DEF Listed
<1> QED
  BY <1>1, <1>8, <1>9

\* and the rest are looked up: what stays pending has a fresh timer.
LEMMA LookupListed ==
    ASSUME IInv, Listed, Lookup
    PROVE  /\ Listed'
           /\ \A h \in restored \ restored' :
                IsPending(t', h) => h \in work.hashes /\ ~t'.txs[h].stale
<1>1. PICK known \in SUBSET work.hashes : Install(DropUnknown(work.hashes, known))
  BY DEF Lookup
<1>2. work' = work.next /\ work.pc = "lookup" /\ Types
  BY DEF Lookup, IInv
<1>3. work.hashes \in SUBSET Hash /\ work.next \in AfterLife /\ restored \in SUBSET Hash
  BY <1>2, Typed, WorkCases
<1>4. Here \in Within(c)
  BY HereHandled DEF Within
<1>5. Answered(DropUnknown(work.hashes, known).t, work.hashes)
  BY <1>3, <1>4, DropAllWithin
<1>6. t' = DropUnknown(work.hashes, known).t
  BY <1>1 DEF Install
<1>7. Answered(t', work.hashes)
  BY <1>5, <1>6
<1>8. /\ \A h \in work.hashes : IsPending(t', h) => ~t'.txs[h].stale
      /\ \A h \in Hash : IsPending(t', h) => IsPending(t, h)
  BY <1>7 DEF Answered
<1>9. \A h \in restored : h \in work.hashes \/ ~IsPending(t, h)
  BY <1>2 DEF Listed
<1>10. Listed'
  BY <1>2, <1>3, AfterLifeElsewhere, ElsewhereListed
<1> QED
  BY <1>3, <1>8, <1>9, <1>10

\* A restart counts.
LEMMA RestartCounts ==
    ASSUME Counted, Crash \/ Stop PROVE Listed' /\ spent'.crashes # spent.crashes
<1>1. EndSession /\ Spend("crashes")
  BY DEF Crash, Stop
<1>2. spent' = [spent EXCEPT !["crashes"] = spent["crashes"] + 1]
  BY <1>1 DEF Spend
<1>3. spent["crashes"] \in Nat /\ spent'["crashes"] = spent["crashes"] + 1
  BY <1>2, IndexerAssumption DEF Counted
<1>4. spent'["crashes"] # spent["crashes"]
  BY <1>3
<1> QED
  BY <1>1, <1>4, EndListed

\* The counters stay counters.
LEMMA StaysCounted == ASSUME Counted, [Next]_vars PROVE Counted'
<1>1. ASSUME NEW b, Spend(b) PROVE Counted'
  <2>1. spent' = [spent EXCEPT ![b] = spent[b] + 1] /\ spent \in [DOMAIN Bound -> Nat]
    BY <1>1 DEF Spend, Counted
  <2>2. CASE b \in DOMAIN Bound
    BY <2>1, <2>2 DEF Counted
  <2>3. CASE b \notin DOMAIN Bound
    <3>1. spent' = spent
      BY <2>1, <2>3
    <3> QED
      BY <2>1, <3>1 DEF Counted
  <2> QED
    BY <2>2, <2>3
<1>2. (spent' = spent) => Counted'
  BY DEF Counted
<1>3. ASSUME NEW s, Interrupted(s) PROVE Counted'
  BY <1>1, <1>3 DEF Interrupted
<1>4. CASE NodeStep
  <2>1. ASSUME NEW body, Extend(body) PROVE Counted'
    BY <1>1, <1>2, <2>1 DEF Extend
  <2>2. ASSUME NEW k, NEW bodies, Reorg(k, bodies) PROVE Counted'
    BY <1>1, <2>2 DEF Reorg
  <2>3. ASSUME NEW h, Gossip(h) \/ Expire(h) PROVE Counted'
    BY <1>1, <2>3 DEF Gossip, Expire
  <2>4. CASE Finalize \/ Break \/ Mend
    BY <1>1, <1>2, <2>4 DEF Finalize, Break, Mend
  <2> QED
    BY <1>4, <2>1, <2>2, <2>3, <2>4 DEF NodeStep
<1>5. CASE Fail \/ Crash \/ Stop
  BY <1>1, <1>5 DEF Fail, Crash, Stop
<1>6. CASE ConfirmationsCut \/ RecheckCut \/ LookupCut
  BY <1>3, <1>6 DEF ConfirmationsCut, RecheckCut, LookupCut
<1>7. CASE Reconnect \/ onHead \/ UNCHANGED vars \/ \E h \in Hash : Notify(h)
  BY <1>2, <1>7 DEF Reconnect, onHead, vars, Notify, node
<1>8. CASE HandlerStep
  <2>1. CASE ExtendBlock \/ Extended \/ CatchUpHead \/ DrainHead \/ CaughtUp \/ Rescanned
    BY <1>2, <2>1 DEF ExtendBlock, Extended, CatchUpHead, DrainHead, CaughtUp, Rescanned, node
  <2>2. CASE DrainBlock \/ FillBlock \/ RescanBlock
    BY <1>2, <2>2 DEF DrainBlock, FillBlock, RescanBlock, NotServed, node
  <2>3. CASE Walk
    BY <1>2, <2>3 DEF Walk, Reverted, NotServed, node
  <2>4. CASE Confirmations \/ Recheck \/ Lookup
    BY <1>2, <2>4 DEF Confirmations, Recheck, Lookup, node
  <2> QED
    BY <1>8, <2>1, <2>2, <2>3, <2>4 DEF HandlerStep
<1> QED
  BY <1>4, <1>5, <1>6, <1>7, <1>8 DEF Next

\* What a step does to the restored transactions.
LEMMA NextListed ==
    ASSUME IInv, LInv, [Next]_vars
    PROVE  /\ LInv'
           /\ \A h \in restored \ restored' :
                IsPending(t', h) /\ spent'.crashes = spent.crashes =>
                    work.pc = "lookup" /\ h \in work.hashes /\ ~t'.txs[h].stale
<1>1. Listed /\ Counted
  BY DEF LInv
<1> DEFINE G == \A h \in restored \ restored' :
                IsPending(t', h) /\ spent'.crashes = spent.crashes =>
                    work.pc = "lookup" /\ h \in work.hashes /\ ~t'.txs[h].stale
<1>2. Counted'
  BY <1>1, StaysCounted
<1>3. restored' = restored => G
  OBVIOUS
<1>4. CASE Crash \/ Stop
  BY <1>1, <1>2, <1>4, RestartCounts DEF LInv
<1>5. CASE Recheck
  BY <1>1, <1>2, <1>5, RecheckListed DEF LInv
<1>6. CASE Lookup
  <2>1. work.pc = "lookup"
    BY <1>6 DEF Lookup
  <2> QED
    BY <1>1, <1>2, <1>6, <2>1, LookupListed DEF LInv
<1>7. ASSUME Listed' /\ restored' = restored PROVE LInv' /\ G
  BY <1>2, <1>3, <1>7 DEF LInv
<1> HIDE DEF G
<1>8. CASE NodeStep \/ Reconnect \/ UNCHANGED vars
  BY <1>1, <1>7, <1>8, NodeListed
<1>9. CASE \/ Fail \/ ConfirmationsCut \/ RecheckCut \/ LookupCut \/ onHead
           \/ \E h \in Hash : Notify(h)
  BY <1>1, <1>7, <1>9, SessionListed
<1>10. CASE HandlerStep /\ ~Recheck /\ ~Lookup
  BY <1>7, <1>10, BlocksListed, ConfirmationsListed DEF HandlerStep
<1>11. LInv' /\ G
  BY <1>4, <1>5, <1>6, <1>8, <1>9, <1>10 DEF Next, G
<1> QED
  BY <1>11 DEF G

-----------------------------------------------------------------------------
(* The node's head stays on top *)

\* What is below the node's head stays below a chain that is no shorter.
LEMMA LowGrows ==
    ASSUME Types, Low, NEW top \in Nat, Len(chain) <= top
    PROVE  /\ LowRing(c, top) /\ LowRefs(saved.refs, top) /\ LowHeads(heads, top)
           /\ LowViews(views, top) /\ LowWork(work, top)
<1>1. /\ Len(chain) \in Nat /\ heads \in Seq(Block) /\ views \in SUBSET Block
      /\ work \in Work /\ c \in Ring /\ saved.refs \in SUBSET HeaderRef
  BY Typed DEF Heights, SavedType
<1>2. LowRing(c, top)
  BY <1>1, RingNumbers DEF Low, LowRing, Heights
<1>3. LowRefs(saved.refs, top)
  BY <1>1 DEF Low, LowRefs, HeaderRef, Heights
<1>4. \A b \in Block : Len(b) \in Nat
  BY BlockIsSeq DEF Heights
<1>5. LowHeads(heads, top)
  <2>1. \A i \in 1..Len(heads) : heads[i] \in Block
    BY <1>1
  <2> QED
    BY <1>1, <1>4, <2>1 DEF Low, LowHeads
<1>6. LowViews(views, top)
  BY <1>1, <1>4 DEF Low, LowViews
<1>7. ASSUME NEW w \in AfterLife, LowNext(w, Len(chain)) PROVE LowNext(w, top)
  BY <1>1, <1>7 DEF LowNext, AfterLife, FillWork, Idle, Heights
<1>8. LowWork(work, top)
  <2>1. LowWork(work, Len(chain))
    BY DEF Low
  <2>2. LowNext(work, top)
    <3>1. work.pc = "fill" => work \in AfterLife
      BY <1>1, WorkCases DEF AfterLife
    <3> QED
      BY <1>7, <2>1, <3>1 DEF LowWork, LowNext
  <2>3. work.pc \in {"extend", "catchup"} => Len(work.head) <= top
    BY <1>1, <1>4, <2>1, WorkCases DEF LowWork
  <2>4. work.pc \in {"extended", "walk", "life"} => work.head <= top
    BY <1>1, <2>1, WorkCases DEF LowWork, Heights
  <2>5. work.pc \in {"drain", "rescan"} => work.to <= top
    BY <1>1, <2>1, WorkCases DEF LowWork, Heights
  <2>6. work.pc = "drain" => LowNext(work.fill, top)
    <3>1. work.pc = "drain" => work.fill \in AfterLife
      BY <1>1, WorkCases DEF AfterLife
    <3> QED
      BY <1>7, <2>1, <3>1 DEF LowWork
  <2>7. work.pc \in {"life", "recheck", "lookup"} => LowNext(work.next, top)
    <3>1. work.pc \in {"life", "recheck", "lookup"} => work.next \in AfterLife
      BY <1>1, WorkCases
    <3> QED
      BY <1>7, <2>1, <3>1 DEF LowWork
  <2> QED
    BY <2>2, <2>3, <2>4, <2>5, <2>6, <2>7 DEF LowWork
<1> QED
  BY <1>2, <1>3, <1>5, <1>6, <1>8

\* The node's chain becomes one that is no shorter,
LEMMA AdoptLow ==
    ASSUME Types, Low, NEW ch \in Block, Adopt(ch), Len(chain) <= Len(ch),
           heads' = heads \/ heads' = Append(heads, ch)
    PROVE  Low'
<1>1. /\ chain' = ch /\ work' = work /\ c' = c /\ saved' = saved
      /\ views' = {} \/ views' = views \cup {ch}
  BY DEF Adopt, memory, disk
<1>2. Len(ch) \in Nat /\ heads \in Seq(Block)
  BY BlockIsSeq, Typed DEF Heights
<1>3. /\ LowRing(c, Len(ch)) /\ LowRefs(saved.refs, Len(ch)) /\ LowHeads(heads, Len(ch))
      /\ LowViews(views, Len(ch)) /\ LowWork(work, Len(ch))
  BY <1>2, LowGrows
<1>4. LowViews(views', Len(ch))
  BY <1>1, <1>2, <1>3 DEF LowViews
<1>5. LowHeads(heads', Len(ch))
  <2>1. CASE heads' = Append(heads, ch)
    <3>1. /\ Len(heads') = Len(heads) + 1 /\ heads'[Len(heads) + 1] = ch
          /\ \A i \in 1..Len(heads) : heads'[i] = heads[i]
      BY <1>2, <2>1, AppendProperties
    <3>2. ASSUME NEW i \in 1..Len(heads') PROVE Len(heads'[i]) <= Len(ch)
      <4>1. Len(heads) \in Nat
        BY <1>2
      <4>2. i = Len(heads) + 1 \/ i \in 1..Len(heads)
        BY <3>1, <4>1
      <4> QED
        BY <1>2, <1>3, <3>1, <4>2 DEF LowHeads
    <3> QED
      BY <3>2 DEF LowHeads
  <2> QED
    BY <1>3, <2>1 DEF LowHeads
<1> QED
  BY <1>1, <1>3, <1>4, <1>5 DEF Low

\* with one block more,
LEMMA ExtendLow == ASSUME Types, Low, NEW body \in Body, Extend(body) PROVE Low'
<1> DEFINE ch == Append(chain, body)
<1>1. /\ Adopt(ch) /\ chain' = ch /\ (heads' = heads \/ heads' = Append(heads, ch))
  BY DEF Extend, Announce, Coalesce, Adopt
<1>2. chain \in Seq(Body) /\ Len(chain) \in Nat
  BY BlockIsSeq, Typed DEF Heights
<1>3. Len(chain) <= Len(ch)
  BY <1>2, AppendProperties
<1>4. ch \in Block
  <2>1. Types'
    BY ExtendTyped
  <2>2. chain' \in Block
    BY <2>1 DEF Types, ChainType
  <2> QED
    BY <1>1, <2>2
<1> HIDE DEF ch
<1> QED
  BY <1>1, <1>3, <1>4, AdoptLow

\* or with as many others as it loses.
LEMMA ReorgLow ==
    ASSUME ~MayLower, Types, Low, NEW k \in 1..Bound.height, NEW bodies \in Seq(Body),
           Reorg(k, bodies)
    PROVE  Low'
<1> DEFINE base0 == BlockAt(chain, Len(chain) - k)
           ch == base0 \o bodies
<1>1. /\ Adopt(ch) /\ chain' = ch /\ (heads' = heads \/ heads' = Append(heads, ch))
      /\ k <= Len(chain) - Len(Genesis) /\ ~(Len(bodies) < k)
  BY DEF Reorg, Announce, Coalesce, Adopt
<1>2. /\ chain \in Block /\ Len(chain) \in Heights
      /\ Len(Genesis) \in Heights /\ Len(bodies) \in Nat
  BY BlockIsSeq, IndexerAssumption DEF Types, ChainType
<1>3. Len(chain) - k \in 1..Len(chain)
  BY <1>1, <1>2 DEF Heights
<1>4. base0 \in Seq(Body) /\ Len(base0) = Len(chain) - k
  BY <1>2, <1>3, PrefixBlock, BlockIsSeq
<1>5. ch \in Block
  <2>1. Types'
    BY ReorgTyped
  <2>2. chain' \in Block
    BY <2>1 DEF Types, ChainType
  <2> QED
    BY <1>1, <2>2
<1> HIDE DEF base0
<1>6. Len(ch) = Len(chain) - k + Len(bodies)
  BY <1>4, ConcatProperties
<1>7. Len(chain) <= Len(ch)
  BY <1>1, <1>2, <1>6 DEF Heights
<1> HIDE DEF ch
<1> QED
  BY <1>1, <1>5, <1>7, AdoptLow

\* What is saved is below the tip,
LEMMA SaveLow ==
    ASSUME Types, Low, NEW n, saveState(n, c) PROVE LowRefs(saved'.refs, Len(chain))
<1>1. c \in Ring /\ Len(chain) \in Nat
  BY Typed DEF Heights
<1>2. saved' = saved \/ saved' = [last |-> n, refs |-> snapshot(c)]
  BY DEF saveState
<1>3. ASSUME NEW r \in snapshot(c) PROVE r.num <= Len(chain)
  <2>1. c.tip # NoRef
    BY <1>3 DEF snapshot
  <2>2. PICK m \in floorOf(c)..c.tip.num : Held(c, m) /\ r = at(c, m)
    BY <1>3, <2>1 DEF snapshot
  <2>3. r.num = m
    BY <2>2 DEF Held, at
  <2>4. c.tip.num \in Nat /\ floorOf(c) \in Nat
    BY <1>1, <2>1, RingNumbers DEF Heights
  <2>5. c.tip.num <= Len(chain)
    BY <2>1 DEF Low, LowRing
  <2> QED
    BY <1>1, <2>2, <2>3, <2>4, <2>5
<1> QED
  BY <1>2, <1>3 DEF Low, LowRefs

\* what is restored is below what was saved,
LEMMA RestoreLow ==
    ASSUME NEW state \in [last : 0..Bound.height, refs : SUBSET HeaderRef], restore(state),
           NEW top, LowRefs(state.refs, top)
    PROVE  LowRing(c', top)
<1>1. c' = Rebuilt(state.refs) \/ c' = newChainState
  BY DEF restore
<1>2. LowRing(newChainState, top)
  BY DEF newChainState, LowRing
<1>3. LowRing(Rebuilt(state.refs), top)
  <2> DEFINE R == state.refs
             tip == CHOOSE r \in R : \A q \in R : q.num <= r.num
  <2>1. R \in SUBSET HeaderRef
    OBVIOUS
  <2>2. R # {} => tip \in R
    BY <2>1, HighestRef
  <2>3. R # {} => Rebuilt(R).tip = tip
    BY DEF Rebuilt
  <2>4. R = {} => Rebuilt(R) = newChainState
    BY DEF Rebuilt
  <2> HIDE DEF tip
  <2> QED
    BY <1>2, <2>2, <2>3, <2>4 DEF LowRing, LowRefs
<1> QED
  BY <1>1, <1>2, <1>3

\* and so is a ring with a block that is below.
LEMMA ProcessLow ==
    ASSUME IInv, Low, NEW b \in Block, Processes(b), Near(b) PROVE LowRing(c', Len(chain))
<1>1. Here \in Within(c)
  BY HereHandled DEF Within
<1>2. PICK mode \in ScanModes(b), open \in MayStayOpen(b) : Install(processBlock(Here, b, mode, open))
  BY DEF Processes
<1>3. processBlock(Here, b, mode, open).c = record(c, Ref(b))
  BY <1>1, ProcessedHandled
<1>4. c' = record(c, Ref(b))
  BY <1>2, <1>3 DEF Install
<1>5. record(c, Ref(b)).tip = Ref(b) \/ (c.tip # NoRef /\ record(c, Ref(b)).tip = c.tip)
  BY DEF record
<1>6. Ref(b).num <= Len(chain)
  BY DEF Near, Ref
<1> QED
  BY <1>4, <1>5, <1>6 DEF Low, LowRing

\* A session that ends leaves the ring and what is saved.
LEMMA EndLow ==
    ASSUME EndSession, chain' = chain, LowRing(c', Len(chain)), LowRefs(saved'.refs, Len(chain))
    PROVE  Low'
<1>1. heads' = <<>> /\ work' = Idle /\ views' = {}
  BY DEF EndSession
<1>2. LowHeads(heads', Len(chain)) /\ LowViews(views', Len(chain))
  BY <1>1 DEF LowHeads, LowViews
<1>3. LowWork(work', Len(chain))
  BY <1>1 DEF LowWork, LowNext, Idle
<1> QED
  BY <1>2, <1>3 DEF Low

\* So does one that ends for a request.
LEMMA FailLow ==
    ASSUME Low, EndSession, UNCHANGED <<world, memory, disk>> PROVE Low'
<1>1. chain' = chain /\ c' = c /\ saved' = saved
  BY DEF world, memory, disk
<1> QED
  BY <1>1, EndLow DEF Low

\* A scan's step goes on below the head it works for.
LEMMA BlocksLow ==
    ASSUME IInv, Low, ExtendBlock \/ CatchUpHead \/ DrainBlock \/ FillBlock \/ RescanBlock
    PROVE  Low'
<1> DEFINE top == Len(chain)
<1>1. Types /\ work \in Work /\ top \in Nat
  BY Typed DEF IInv, Heights
<1>2. LowRing(c', top)
  BY BlockProcessed, ProcessLow DEF Low
<1>3. /\ LowRefs(saved.refs, top) /\ LowHeads(heads, top) /\ LowViews(views, top)
      /\ LowWork(work, top)
  BY DEF Low
<1>4. ASSUME chain' = chain, saved' = saved, heads' = heads, LowViews(views', top),
             LowWork(work', top)
      PROVE  Low'
  BY <1>2, <1>3, <1>4 DEF Low
<1>5. CASE ExtendBlock
  <2>1. /\ work.pc = "extend" /\ work' = [pc |-> "extended", head |-> Len(work.head)]
        /\ chain' = chain /\ saved' = saved /\ heads' = heads /\ views' = views
    BY <1>5 DEF ExtendBlock, Process, Number, node, world
  <2>2. LowWork(work', top)
    BY <1>3, <2>1 DEF LowWork, LowNext
  <2> QED
    BY <1>3, <1>4, <2>1, <2>2
<1>6. CASE CatchUpHead
  <2>1. /\ work.pc = "catchup" /\ views' = {chain}
        /\ work' = [pc |-> "fill", n |-> Len(work.head) - 1, from |-> work.from,
                    highest |-> Len(work.head)]
        /\ chain' = chain /\ saved' = saved /\ heads' = heads
    BY <1>6 DEF CatchUpHead, Process, Fill, Number, node, world
  <2>2. LowWork(work', top)
    BY <1>3, <2>1 DEF LowWork, LowNext
  <2>3. LowViews(views', top)
    BY <1>1, <2>1 DEF LowViews
  <2> QED
    BY <1>4, <2>1, <2>2, <2>3
<1>7. CASE DrainBlock
  <2>1. CASE NotServed(work.g)
    BY <2>1, FailLow DEF NotServed
  <2>2. CASE ~NotServed(work.g)
    <3>1. /\ work.pc = "drain"
          /\ work' = IF work.g = work.to THEN [work.fill EXCEPT !.highest = work.to]
                     ELSE [work EXCEPT !.g = work.g + 1]
          /\ chain' = chain /\ saved' = saved /\ heads' = heads /\ views' = views
      BY <1>7, <2>2 DEF DrainBlock, Process, node, world
    <3>2. work \in [pc : {"drain"}, g : Heights, to : Heights, past : SUBSET Block, fill : FillWork]
      BY <1>1, <3>1, WorkCases
    <3>3. LowWork([work EXCEPT !.g = work.g + 1], top)
      BY <1>3, <3>1, <3>2 DEF LowWork, LowNext
    <3>4. LowWork([work.fill EXCEPT !.highest = work.to], top)
      BY <1>3, <3>1, <3>2 DEF LowWork, LowNext, FillWork
    <3> QED
      BY <1>3, <1>4, <3>1, <3>3, <3>4
  <2> QED
    BY <2>1, <2>2
<1>8. CASE FillBlock \/ RescanBlock
  <2>1. CASE EndSession /\ UNCHANGED <<world, memory, disk>>
    BY <2>1, FailLow
  <2>2. CASE ~(EndSession /\ UNCHANGED <<world, memory, disk>>)
    <3>1. /\ chain' = chain /\ saved' = saved /\ heads' = heads /\ views' = views
          /\ \/ /\ work.pc = "fill"
                /\ work' = Life(work.highest, work.n, [work EXCEPT !.n = work.n - 1])
             \/ work.pc = "rescan" /\ work' = [work EXCEPT !.n = work.n + 1]
      BY <1>8, <2>2 DEF FillBlock, RescanBlock, Process, node, world
    <3>2. work.pc = "fill" => work \in FillWork
      BY <1>1, WorkCases
    <3>3. work.pc = "fill" => LowWork(Life(work.highest, work.n, [work EXCEPT !.n = work.n - 1]), top)
      BY <1>3, <3>2 DEF LowWork, LowNext, Life, FillWork
    <3>4. work.pc = "rescan" =>
            work \in [pc : {"rescan"}, n : 1..(Bound.height + 1), to : Heights]
      BY <1>1, WorkCases
    <3>5. work.pc = "rescan" => LowWork([work EXCEPT !.n = work.n + 1], top)
      BY <1>3, <3>4 DEF LowWork, LowNext
    <3> QED
      BY <1>3, <1>4, <3>1, <3>3, <3>5
  <2> QED
    BY <2>1, <2>2
<1> QED
  BY <1>5, <1>6, <1>7, <1>8

\* A handler that is done with its blocks saves, and hands its head on;
LEMMA AdvanceLow ==
    ASSUME IInv, Low, Extended \/ CaughtUp \/ Rescanned PROVE Low'
<1> DEFINE top == Len(chain)
<1>1. Types /\ work \in Work /\ top \in Nat /\ c \in Ring
  BY Typed DEF IInv, Heights
<1>2. /\ LowRing(c, top) /\ LowHeads(heads, top) /\ LowViews(views, top) /\ LowWork(work, top)
  BY DEF Low
<1>3. PICK n : /\ saveState(n, c) /\ work' = Life(n, 0, Idle)
               /\ \/ work.pc = "extended" /\ n = work.head /\ c' = c /\ views' = views
                  \/ work.pc = "fill" /\ n = work.highest /\ c' = c /\ views' = {}
                  \/ work.pc = "rescan" /\ n = work.to /\ c' = resetTip(c, n) /\ views' = {}
  BY DEF Extended, CaughtUp, Rescanned, Advance
<1>4. chain' = chain /\ heads' = heads
  BY DEF Extended, CaughtUp, Rescanned, node, world
<1>5. n <= top
  BY <1>2, <1>3 DEF LowWork, LowNext
<1>6. LowRefs(saved'.refs, top)
  BY <1>1, <1>3, SaveLow
<1>7. LowRing(c', top)
  <2>1. Held(c, n) => resetTip(c, n).tip.num = n
    BY <1>1 DEF resetTip, Held, at, Ring
  <2>2. ~Held(c, n) => resetTip(c, n) = c
    BY DEF resetTip
  <2> QED
    BY <1>2, <1>3, <1>5, <2>1, <2>2 DEF LowRing
<1>8. LowViews(views', top)
  BY <1>2, <1>3 DEF LowViews
<1>9. LowWork(work', top)
  BY <1>3, <1>5 DEF LowWork, LowNext, Life, Idle
<1> QED
  BY <1>2, <1>4, <1>6, <1>7, <1>8, <1>9 DEF Low

\* one that takes a head works up to it;
LEMMA HeadLow ==
    ASSUME IInv, Low, DrainHead \/ onHead PROVE Low'
<1> DEFINE top == Len(chain)
           h == Head(heads)
<1>1. Types /\ work \in Work /\ top \in Nat /\ heads \in Seq(Block) /\ heads # <<>>
  BY Typed DEF IInv, Heights, DrainHead, onHead
<1>2. /\ LowRing(c, top) /\ LowRefs(saved.refs, top) /\ LowHeads(heads, top)
      /\ LowViews(views, top) /\ LowWork(work, top)
  BY DEF Low
<1>3. /\ heads' = Tail(heads) /\ chain' = chain /\ saved' = saved /\ c' = c /\ views' = views
  BY DEF DrainHead, onHead, node, world, memory, disk
<1>4. Len(h) <= top
  <2>1. 1 \in 1..Len(heads) /\ h = heads[1]
    BY <1>1
  <2> QED
    BY <1>2, <2>1 DEF LowHeads
<1>5. LowHeads(heads', top)
  <2>1. /\ Len(Tail(heads)) = Len(heads) - 1 /\ Len(heads) \in Nat
        /\ \A i \in 1..Len(Tail(heads)) : Tail(heads)[i] = heads[i + 1]
    BY <1>1
  <2> QED
    BY <1>2, <1>3, <2>1 DEF LowHeads
<1>6. LowWork(work', top)
  <2>1. CASE DrainHead
    <3>1. /\ work.pc = "fill"
          /\ work' = work \/ work' = [pc |-> "drain", g |-> work.highest + 1, to |-> Len(h),
                                 past |-> views \ {chain}, fill |-> work]
      BY <2>1 DEF DrainHead, Number
    <3> HIDE DEF h
    <3> QED
      BY <1>2, <1>4, <3>1 DEF LowWork, LowNext
  <2>2. CASE onHead
    <3>1. \/ work' = Idle \/ work' = [pc |-> "extend", head |-> h]
          \/ work' = [pc |-> "catchup", head |-> h, from |-> last + 1]
          \/ work' = [pc |-> "walk", head |-> Len(h), from |-> WalkFrom(Len(h))]
      BY <2>2 DEF onHead, Classified, classify, Number
    <3> HIDE DEF h
    <3> QED
      BY <1>4, <3>1 DEF LowWork, LowNext, Idle
  <2> QED
    BY <2>1, <2>2
<1> QED
  BY <1>2, <1>3, <1>5, <1>6 DEF Low

\* one that found the ancestor too;
LEMMA WalkLow == ASSUME IInv, Low, Walk PROVE Low'
<1> DEFINE top == Len(chain)
<1>1. Types /\ work \in Work /\ top \in Nat /\ work.pc = "walk"
  BY Typed DEF IInv, Heights, Walk
<1>2. /\ LowRing(c, top) /\ LowRefs(saved.refs, top) /\ LowHeads(heads, top)
      /\ LowViews(views, top) /\ LowWork(work, top)
  BY DEF Low
<1>3. ASSUME NEW n, NotServed(n) PROVE Low'
  BY <1>3, FailLow DEF NotServed
<1>4. ASSUME NEW n, Reverted(n) PROVE Low'
  <2>1. /\ work' = Rescan(n + 1, work.head) /\ views' = {chain}
        /\ c' = Calling(Here, LAMBDA x : OnReorg(x, n)).c
        /\ heads' = heads /\ saved' = saved /\ chain' = chain
    BY <1>4 DEF Reverted, Install, node, world
  <2>2. c' = c
    <3>1. Calling(Here, LAMBDA x : OnReorg(x, n)) = emitAll(Here, OnReorg(t, n))
      BY DEF Calling, Here
    <3>2. emitAll(Here, OnReorg(t, n)).c = c
      BY DEF emitAll, Here
    <3> QED
      BY <2>1, <3>1, <3>2
  <2>3. LowWork(work', top)
    BY <1>1, <1>2, <2>1 DEF LowWork, LowNext, Rescan
  <2>4. LowViews(views', top)
    BY <1>1, <2>1 DEF LowViews
  <2> QED
    BY <1>2, <2>1, <2>2, <2>3, <2>4 DEF Low
<1>5. ASSUME NEW m, work' = [work EXCEPT !.from = m],
             UNCHANGED <<node, heads, conn, views, memory, disk, history>>
      PROVE  Low'
  <2>1. work \in [pc : {"walk"}, head : Heights, from : 0..Bound.height]
    BY <1>1, WorkCases
  <2>2. LowWork(work', top)
    BY <1>2, <1>5, <2>1 DEF LowWork, LowNext
  <2>3. chain' = chain /\ c' = c /\ saved' = saved /\ heads' = heads /\ views' = views
    BY <1>5 DEF node, world, memory, disk
  <2> QED
    BY <1>2, <2>2, <2>3 DEF Low
<1> QED
  BY <1>3, <1>4, <1>5 DEF Walk

-----------------------------------------------------------------------------
(* Only what is deep enough is confirmed *)

\* The ring and a finality read from the node confirm a number only if the
\* node's chain is as deep, or its finality as high.
LEMMA LowJustified ==
    ASSUME IInv, TagMode \/ Low, NEW f \in 0..final, NEW n \in Nat, TagMode \/ n <= Len(chain)
    PROVE  Justified(n, confirmationsFor(c, n), f)
<1> DEFINE conf == confirmationsFor(c, n)
<1>1. /\ c \in Ring /\ Len(chain) \in Nat /\ final \in Nat /\ Depth \in Nat /\ TagMode \in BOOLEAN
  BY Typed, ThresholdAssumption DEF IInv, Heights
<1>2. CASE TagMode
  BY <1>1, <1>2 DEF Justified, confirmedAt, Reached
<1>3. CASE ~TagMode
  <2>1. c.tip # NoRef => c.tip.num \in Nat /\ c.tip.num <= Len(chain)
    BY <1>1, <1>3, RingNumbers DEF Low, LowRing, Heights
  <2>2. conf \in Nat /\ conf >= 1 /\ conf <= Len(chain) + 1 - n
    <3> DEFINE m == c.tip.num
    <3>1. conf = IF c.tip # NoRef /\ m > n THEN m - n + 1 ELSE 1
      BY DEF confirmationsFor
    <3>2. n <= Len(chain) /\ (c.tip # NoRef => m \in Nat /\ m <= Len(chain))
      BY <1>3, <2>1
    <3> HIDE DEF conf, m
    <3> QED
      BY <1>1, <3>1, <3>2
  <2> HIDE DEF conf
  <2>3. conf >= Depth => Reached(n)
    BY <1>1, <1>3, <2>2 DEF Reached
  <2>4. Justified(n, conf, f)
    BY <1>3, <2>2, <2>3 DEF Justified, confirmedAt
  <2> QED
    BY <2>4 DEF conf
<1> QED
  BY <1>1, <1>2, <1>3

\* So it does for the numbers of the node's chain.
LEMMA LowFair ==
    ASSUME IInv, TagMode \/ Low, NEW f \in 0..final PROVE Fair(f)
<1>1. \A n \in 1..Len(chain) : n \in Nat /\ n <= Len(chain)
  BY Typed DEF IInv, Heights
<1> QED
  BY <1>1, LowJustified DEF Fair

\* The candidates are as deep, counted from the head they are listed for.
LEMMA ChecksReached ==
    ASSUME IInv, TagMode \/ Low, work.pc = "life", NEW f \in 0..final
    PROVE  AllReached(Checks(work.head, work.floor, f))
<1>1. /\ work.head \in Nat /\ Len(chain) \in Nat /\ final \in Nat
      /\ Depth \in Nat \ {0} /\ TagMode \in BOOLEAN
  BY Typed, WorkCases, ThresholdAssumption DEF IInv, Heights
<1>2. ASSUME NEW h \in Checks(work.head, work.floor, f) PROVE Reached(t.txs[h].num)
  <2> DEFINE n == t.txs[h].num
  <2>1. h \in Hash /\ confirmedAt(n, DepthAt(work.head, n), f)
    BY <1>2 DEF Checks, ConfirmCandidates
  <2>2. n \in Nat
    BY <2>1 DEF IInv, Stored, Good, TrackerState, Tx
  <2> HIDE DEF n
  <2>3. ASSUME TagMode PROVE Reached(n)
    BY <1>1, <2>1, <2>2, <2>3 DEF confirmedAt, Reached
  <2>4. ASSUME ~TagMode PROVE Reached(n)
    <3>1. work.head <= Len(chain)
      BY <2>4 DEF Low, LowWork
    <3>2. DepthAt(work.head, n) >= Depth
      BY <2>1, <2>4 DEF confirmedAt
    <3> QED
      BY <1>1, <2>2, <2>4, <3>1, <3>2 DEF DepthAt, Reached
  <2>5. Reached(n)
    BY <1>1, <2>3, <2>4
  <2> QED
    BY <2>5 DEF n
<1> QED
  BY <1>2 DEF AllReached

\* updateLifecycles goes on, or its session ends.
Onward == /\ heads' = heads /\ views' = views
          /\ \/ work' = work.next
             \/ work'.pc \in {"recheck", "lookup"} /\ work'.next = work.next

\* What each of its steps does.
Batch == /\ work.pc \in {"life", "recheck", "lookup"}
         /\ \E s \in Within(c) : /\ Install(s) /\ (TagMode \/ Low => Deep(s))
                                 /\ Lasting(Here) /\ TagMode => Lasting(s)
                                 /\ UNCHANGED <<chain, final, saved, last, base, scanned>>
                                 /\ EndSession \/ Onward

\* Candidates are checked,
LEMMA ConfirmationsBatch == ASSUME IInv, Confirmations \/ ConfirmationsCut PROVE Batch
<1>1. Types /\ work.pc = "life" /\ chain \in Block
  BY Typed DEF IInv, Confirmations, ConfirmationsCut
<1>2. Here \in Within(c)
  BY HereHandled DEF Within
<1>3. PICK f \in finalizedNumber : \E done \in SUBSET Checks(work.head, work.floor, f) :
        /\ Install(CheckAll(f, done)) /\ UNCHANGED <<chain, final, saved, last, base, scanned>>
        /\ EndSession \/ (Confirmations /\ heads' = heads /\ views' = views)
  BY DEF Confirmations, ConfirmationsCut, PartOf, Interrupted, node, world, history
<1>4. PICK done \in SUBSET Checks(work.head, work.floor, f) :
        /\ Install(CheckAll(f, done)) /\ UNCHANGED <<chain, final, saved, last, base, scanned>>
        /\ EndSession \/ (Confirmations /\ heads' = heads /\ views' = views)
  BY <1>3
<1>5. done \in SUBSET Hash
  BY DEF Checks, ConfirmCandidates
<1>6. f \in 0..final
  BY <1>1, FinalityRead
<1>7. TagMode \/ Low => AllReached(done) /\ Fair(f)
  BY <1>1, <1>6, ChecksReached, LowFair DEF AllReached
<1>8. CheckAll(f, done) \in Within(c) /\ (TagMode \/ Low => Deep(CheckAll(f, done)))
  BY <1>1, <1>2, <1>5, <1>7, CheckAllWithin
<1>10. Lasting(Here) /\ TagMode => Lasting(CheckAll(f, done))
  <2>1. TagMode => Finality
    BY <1>1 DEF Finality, Types, ChainType
  <2> QED
    BY <1>1, <1>2, <1>5, <1>6, <1>7, <2>1, CheckAllWithin
<1>9. Confirmations => \/ work' = work.next
                       \/ work'.pc \in {"recheck", "lookup"} /\ work'.next = work.next
  BY DEF Confirmations, Resolve
<1> QED
  BY <1>1, <1>4, <1>8, <1>9, <1>10 DEF Batch, Onward

\* pending transactions with a receipt are promoted,
LEMMA RecheckBatch == ASSUME IInv, Recheck \/ RecheckCut PROVE Batch
<1> DEFINE Promote(T) == FoldSet(promotePendingTx, Here, Mined(T))
<1>1. Types /\ work.pc = "recheck" /\ chain \in Block /\ fin \in 0..final
  BY Typed DEF IInv, Recheck, RecheckCut
<1>2. Here \in Within(c)
  BY HereHandled DEF Within
<1>3. work \in [pc : {"recheck", "lookup"}, hashes : SUBSET Hash, next : AfterLife]
  BY <1>1, Typed, WorkCases
<1>4. PICK done \in SUBSET work.hashes :
        /\ Install(Promote(done)) /\ UNCHANGED <<chain, final, saved, last, base, scanned>>
        /\ EndSession \/ (Recheck /\ heads' = heads /\ views' = views)
  BY DEF Recheck, RecheckCut, PartOf, Interrupted, node, world, history
<1>5. done \in SUBSET Hash
  BY <1>3
<1>6. TagMode \/ Low => Fair(fin)
  BY <1>1, LowFair
<1>7. Promote(done) \in Within(c) /\ (TagMode \/ Low => Deep(Promote(done)))
  BY <1>1, <1>2, <1>5, <1>6, PromoteAllWithin
<1>9. Lasting(Here) /\ TagMode => Lasting(Promote(done))
  <2>1. TagMode => Finality
    BY <1>1 DEF Finality, Types, ChainType
  <2> QED
    BY <1>1, <1>2, <1>5, <2>1, PromoteAllWithin
<1>8. Recheck => \/ work' = work.next
                 \/ work'.pc \in {"recheck", "lookup"} /\ work'.next = work.next
  BY <1>3 DEF Recheck
<1> HIDE DEF Promote
<1> QED
  BY <1>1, <1>4, <1>7, <1>8, <1>9 DEF Batch, Onward

\* and those the node does not know are dropped.
LEMMA LookupBatch == ASSUME IInv, Lookup \/ LookupCut PROVE Batch
<1>1. Types /\ work.pc = "lookup" /\ chain \in Block
  BY Typed DEF IInv, Lookup, LookupCut
<1>2. Here \in Within(c)
  BY HereHandled DEF Within
<1>3. work.hashes \in SUBSET Hash
  BY <1>1, Typed, WorkCases
<1>4. PICK done \in SUBSET work.hashes : \E known :
        /\ Install(DropUnknown(done, known)) /\ UNCHANGED <<chain, final, saved, last, base, scanned>>
        /\ EndSession \/ (heads' = heads /\ views' = views /\ work' = work.next)
  BY DEF Lookup, LookupCut, PartOf, Interrupted, node, world, history
<1>5. PICK known :
        /\ Install(DropUnknown(done, known)) /\ UNCHANGED <<chain, final, saved, last, base, scanned>>
        /\ EndSession \/ (heads' = heads /\ views' = views /\ work' = work.next)
  BY <1>4
<1>6. done \in SUBSET Hash
  BY <1>3
<1>7. /\ DropUnknown(done, known) \in Within(c) /\ Deep(DropUnknown(done, known))
      /\ Lasting(Here) => Lasting(DropUnknown(done, known))
  BY <1>1, <1>2, <1>6, DropAllWithin
<1> QED
  BY <1>1, <1>5, <1>7 DEF Batch, Onward

\* The lookups leave the ring alone and go back to the handler they are for.
LEMMA BatchLow == ASSUME IInv, Low, Batch PROVE Low'
<1>1. PICK s \in Within(c) : /\ Install(s) /\ UNCHANGED <<chain, final, saved, last, base, scanned>>
                             /\ EndSession \/ Onward
  BY DEF Batch
<1>2. c' = c
  BY <1>1 DEF Install, Within
<1>3. /\ LowRing(c, Len(chain)) /\ LowRefs(saved.refs, Len(chain)) /\ LowHeads(heads, Len(chain))
      /\ LowViews(views, Len(chain)) /\ LowWork(work, Len(chain))
  BY DEF Low
<1>4. CASE EndSession
  BY <1>1, <1>2, <1>3, <1>4, EndLow
<1>5. CASE Onward
  <2>1. work.next \in AfterLife
    BY Typed, WorkCases DEF IInv, Batch
  <2>2. LowNext(work.next, Len(chain))
    BY <1>3 DEF LowWork, Batch
  <2>3. LowWork(work.next, Len(chain))
    BY <2>1, <2>2 DEF LowWork, AfterLife, FillWork, Idle
  <2>4. LowWork(work', Len(chain))
    <3>1. CASE work' = work.next
      BY <2>3, <3>1
    <3>2. CASE work'.pc \in {"recheck", "lookup"} /\ work'.next = work.next
      BY <2>2, <3>2 DEF LowWork, LowNext
    <3> QED
      BY <1>5, <3>1, <3>2 DEF Onward
  <2>5. heads' = heads /\ views' = views
    BY <1>5 DEF Onward
  <2> QED
    BY <1>1, <1>2, <1>3, <2>4, <2>5 DEF Low
<1> QED
  BY <1>1, <1>4, <1>5

\* No reorg leads to a lower head.
NoneLower == \A k, bodies : Reorg(k, bodies) => ~MayLower

\* At first nothing is held.
LEMMA InitLow == ASSUME Init PROVE Low
<1>1. c = newChainState /\ saved = NoState /\ heads = <<>> /\ views = {} /\ work = Idle
  BY DEF Init, Idle
<1>2. LowRing(c, Len(chain)) /\ LowRefs(saved.refs, Len(chain))
  BY <1>1 DEF LowRing, LowRefs, newChainState, NoState
<1>3. LowHeads(heads, Len(chain)) /\ LowViews(views, Len(chain))
  BY <1>1 DEF LowHeads, LowViews
<1>4. LowWork(work, Len(chain))
  BY <1>1 DEF LowWork, LowNext, Idle
<1> QED
  BY <1>2, <1>3, <1>4 DEF Low

\* Every step keeps the node's head on top.
LEMMA LowKept == ASSUME NoneLower, IInv, Low, [Next]_vars PROVE Low'
<1>1. Types /\ Len(chain) \in Nat
  BY Typed DEF IInv, Heights
<1>2. ASSUME UNCHANGED <<chain, c, saved, heads, views, work>> PROVE Low'
  BY <1>2 DEF Low
<1>3. CASE NodeStep
  <2>1. \A body \in Body : <<body>> \in Seq(Body)
    OBVIOUS
  <2>2. \A b1, b2 \in Body : <<b1, b2>> \in Seq(Body)
    OBVIOUS
  <2>3. ASSUME NEW h \in Hash, Gossip(h) \/ Expire(h) PROVE Low'
    BY <1>2, <2>3 DEF Gossip, Expire, world, memory, disk
  <2>4. CASE Finalize \/ Break \/ Mend
    BY <1>2, <2>4 DEF Finalize, Break, Mend, memory, disk
  <2> QED
    BY <1>1, <1>3, <2>1, <2>2, <2>3, <2>4, ExtendLow, ReorgLow DEF NodeStep, NoneLower
<1>4. CASE Fail
  BY <1>4, FailLow DEF Fail
<1>5. CASE Reconnect \/ UNCHANGED vars
  BY <1>2, <1>5 DEF Reconnect, vars, node, world, memory, disk
<1>6. CASE Crash
  <2>1. /\ EndSession /\ restore(saved) /\ chain' = chain /\ saved' = saved
    BY <1>6 DEF Crash, disk
  <2>2. saved \in [last : 0..Bound.height, refs : SUBSET HeaderRef]
    BY <1>1 DEF Types, SavedType
  <2>3. LowRefs(saved.refs, Len(chain))
    BY DEF Low
  <2> QED
    BY <2>1, <2>2, <2>3, RestoreLow, EndLow
<1>7. CASE Stop
  <2>1. /\ EndSession /\ saveState(last, c) /\ restore(saved') /\ chain' = chain
    BY <1>7 DEF Stop
  <2>2. SavedType'
    BY <1>1, <2>1, Typed, SaveTyped
  <2>3. saved' \in [last : 0..Bound.height, refs : SUBSET HeaderRef]
    BY <2>2 DEF SavedType
  <2>4. LowRefs(saved'.refs, Len(chain))
    BY <1>1, <2>1, SaveLow
  <2> QED
    BY <2>1, <2>3, <2>4, RestoreLow, EndLow
<1>8. ASSUME NEW h \in Hash, Notify(h) PROVE Low'
  <2>1. UNCHANGED <<chain, saved, heads, views, work>>
    BY <1>8 DEF Notify, node, world
  <2>2. c' = c
    <3>1. c' = Calling(Here, LAMBDA x : OnPending(x, h, CallLegs[h])).c
      BY <1>8 DEF Notify, Install
    <3>2. Calling(Here, LAMBDA x : OnPending(x, h, CallLegs[h])) =
            emitAll(Here, OnPending(t, h, CallLegs[h]))
      BY DEF Calling, Here
    <3>3. emitAll(Here, OnPending(t, h, CallLegs[h])).c = c
      BY DEF emitAll, Here
    <3> QED
      BY <3>1, <3>2, <3>3
  <2> QED
    BY <1>2, <2>1, <2>2
<1>9. CASE HandlerStep
  BY <1>9, BlocksLow, AdvanceLow, HeadLow, WalkLow, ConfirmationsBatch, RecheckBatch,
     LookupBatch, BatchLow DEF HandlerStep
<1> QED
  BY <1>3, <1>4, <1>5, <1>6, <1>7, <1>8, <1>9, HeadLow, ConfirmationsBatch, RecheckBatch,
     LookupBatch, BatchLow DEF Next

\* A step that reports nothing confirms nothing,
LEMMA SilentDeep == ASSUME out' = {} PROVE DepthReached'
BY DEF DepthReached

\* and one whose reports are deep enough nothing else.
LEMMA InstallDeep ==
    ASSUME NEW s, Install(s), Deep(s), chain' = chain, final' = final PROVE DepthReached'
<1>1. out' = s.out
  BY DEF Install
<1> QED
  BY <1>1 DEF DepthReached, Deep, Reached

\* A method that confirms nothing.
LEMMA CallDeep ==
    ASSUME IInv, NEW r, Proper(r), Install(emitAll(Here, r)), chain' = chain, final' = final
    PROVE  DepthReached'
<1>1. Here \in HandlerState /\ Deep(Here)
  BY HereHandled DEF Handled, Deep, Here
<1>2. Deep(emitAll(Here, r))
  BY <1>1, EmitDeep
<1> QED
  BY <1>2, InstallDeep

\* Every step of a handler confirms only what is deep enough,
LEMMA HandlerDeep ==
    ASSUME IInv, TagMode \/ Low, HandlerStep PROVE DepthReached'
<1>1. Types
  BY DEF IInv
<1>2. ASSUME NEW b \in Block, Processes(b), Near(b), chain' = chain, final' = final
      PROVE  DepthReached'
  <2>1. Here \in Within(c)
    BY HereHandled DEF Within
  <2>2. PICK mode \in ScanModes(b), open \in MayStayOpen(b) : Install(processBlock(Here, b, mode, open))
    BY <1>2 DEF Processes
  <2>3. Number(b) \in Nat /\ fin \in 0..final
    BY <1>1, BlockNumber, Typed DEF Heights
  <2>4. Justified(Number(b), confirmationsFor(c, Number(b)), fin)
    BY <1>2, <2>3, LowJustified DEF Near
  <2>5. Deep(processBlock(Here, b, mode, open))
    BY <2>1, <2>4, ProcessedHandled
  <2> QED
    BY <1>2, <2>2, <2>5, InstallDeep
<1>3. CASE ExtendBlock \/ CatchUpHead \/ DrainBlock \/ FillBlock \/ RescanBlock
  <2>1. chain' = chain /\ final' = final
    BY <1>3 DEF ExtendBlock, CatchUpHead, DrainBlock, FillBlock, RescanBlock, NotServed, node, world
  <2> QED
    BY <1>2, <1>3, <2>1, BlockProcessed, SilentDeep
<1>4. CASE Extended \/ DrainHead \/ CaughtUp \/ Rescanned
  BY <1>4, SilentDeep DEF Extended, DrainHead, CaughtUp, Rescanned
<1>5. CASE Walk
  <2>1. ASSUME NEW n, NotServed(n) PROVE DepthReached'
    BY <2>1, SilentDeep DEF NotServed
  <2>2. ASSUME NEW n, Reverted(n) PROVE DepthReached'
    <3>1. Calling(Here, LAMBDA x : OnReorg(x, n)) = emitAll(Here, OnReorg(t, n))
      BY DEF Calling, Here
    <3>2. Proper(OnReorg(t, n))
      BY OthersProper
    <3>3. Install(Calling(Here, LAMBDA x : OnReorg(x, n))) /\ chain' = chain /\ final' = final
      BY <2>2 DEF Reverted, node, world
    <3>4. Install(emitAll(Here, OnReorg(t, n)))
      BY <3>1, <3>3
    <3> QED
      BY <3>2, <3>3, <3>4, CallDeep
  <2> QED
    BY <1>5, <2>1, <2>2, SilentDeep DEF Walk
<1>6. ASSUME Batch PROVE DepthReached'
  BY <1>6, InstallDeep DEF Batch
<1> QED
  BY <1>3, <1>4, <1>5, <1>6, ConfirmationsBatch, RecheckBatch, LookupBatch DEF HandlerStep

\* and so does every step.
LEMMA DeepKept ==
    ASSUME IInv, TagMode \/ Low, DepthReached, [Next]_vars PROVE DepthReached'
<1>1. CASE UNCHANGED vars
  BY <1>1 DEF vars, node, world, DepthReached
<1>2. CASE NodeStep \/ Fail \/ Reconnect \/ Crash \/ Stop \/ onHead
  <2>1. ASSUME NEW body, Extend(body) PROVE out' = {}
    BY <2>1 DEF Extend, Adopt
  <2>2. ASSUME NEW k, NEW bodies, Reorg(k, bodies) PROVE out' = {}
    BY <2>2 DEF Reorg, Adopt
  <2>3. ASSUME NEW h, Gossip(h) \/ Expire(h) PROVE out' = {}
    BY <2>3 DEF Gossip, Expire
  <2>4. CASE Finalize \/ Break \/ Mend \/ Fail \/ Reconnect \/ Crash \/ Stop \/ onHead
    BY <2>4, SilentDeep DEF Finalize, Break, Mend, Fail, Reconnect, Crash, Stop, onHead
  <2> QED
    BY <1>2, <2>1, <2>2, <2>3, <2>4, SilentDeep DEF NodeStep
<1>3. ASSUME Batch PROVE DepthReached'
  BY <1>3, InstallDeep DEF Batch
<1>4. ASSUME NEW h \in Hash, Notify(h) PROVE DepthReached'
  <2> DEFINE r == OnPending(t, h, CallLegs[h])
  <2>1. Calling(Here, LAMBDA x : OnPending(x, h, CallLegs[h])) = emitAll(Here, r)
    BY DEF Calling, Here
  <2>2. /\ Install(Calling(Here, LAMBDA x : OnPending(x, h, CallLegs[h])))
        /\ chain' = chain /\ final' = final
    BY <1>4 DEF Notify, node, world
  <2>3. Proper(r)
    BY OthersProper
  <2>4. Install(emitAll(Here, r))
    BY <2>1, <2>2
  <2> HIDE DEF r
  <2> QED
    BY <2>2, <2>3, <2>4, CallDeep
<1> QED
  BY <1>1, <1>2, <1>3, <1>4, HandlerDeep, ConfirmationsBatch, RecheckBatch, LookupBatch DEF Next

-----------------------------------------------------------------------------
(* Heights, on a chain that only grows *)

\* No reorgs, and no block too old to be caught up with.
Steady == "reorgs" \in DOMAIN Bound /\ Bound["reorgs"] = 0 /\ AgeCap = 0

\* Whatever is held is of the chain ch, and no fork is looked for.
OnRef(ch, r) == Holds(ch, r.hash) /\ r.num = Len(r.hash)
OnRing(ch, ring) ==
    /\ \A i \in 0..(RingSize - 1) : ring.refs[i] # NoRef => OnRef(ch, ring.refs[i])
    /\ ring.tip # NoRef => OnRef(ch, ring.tip)
OnRefs(ch, refs) == \A r \in refs : OnRef(ch, r)
OnHeads(ch, hs) == \A i \in 1..Len(hs) : Holds(ch, hs[i])
OnViews(ch, vs) == \A v \in vs : Holds(ch, v)
OnWork(ch, w) == /\ w.pc \in {"extend", "catchup"} => Holds(ch, w.head)
                 /\ w.pc \notin {"walk", "rescan"}
Straight == /\ OnRing(chain, c) /\ OnRefs(chain, saved.refs) /\ OnHeads(chain, heads)
            /\ OnViews(chain, views) /\ OnWork(chain, work)

\* The heads that wait are above one another and above all that was taken.
Under(n, hs) == \A i \in 1..Len(hs) : n < Len(hs[i])
TipUnder(ring, hs) == ring.tip # NoRef => Under(ring.tip.num, hs)
Rising(hs) == \A i, j \in 1..Len(hs) : i < j => Len(hs[i]) < Len(hs[j])
FillUnder(w, hs) == w.pc = "fill" => Under(w.highest, hs)
WorkUnder(w, hs) ==
    /\ FillUnder(w, hs)
    /\ w.pc \in {"extend", "catchup"} => Under(Len(w.head), hs)
    /\ w.pc = "drain" => Under(w.to, hs)
    /\ w.pc \in {"life", "recheck", "lookup"} => FillUnder(w.next, hs)
Ahead == Rising(heads) /\ WorkUnder(work, heads) /\ TipUnder(c, heads)

\* Every number of a range was scanned, as far as a handler that goes on from
\* lastProcessed l has come.
Has(S, n) == \E b \in S : Len(b) = n
Covers(S, lo, hi) == \A n \in lo..hi : Has(S, n)
Filling(S, w, l) == w.pc = "fill" => /\ w.n < w.highest /\ w.from = l + 1
                                     /\ Covers(S, w.n + 1, w.highest)
Working(S, w, l) ==
    /\ Filling(S, w, l)
    /\ w.pc = "extend" => (l > 0 => Len(w.head) <= l + 1)
    /\ w.pc = "extended" => Has(S, w.head) /\ (l > 0 => w.head <= l + 1)
    /\ w.pc = "catchup" => w.from = l + 1
    /\ w.pc = "drain" => /\ Filling(S, w.fill, l) /\ Covers(S, w.fill.highest + 1, w.g - 1)
                         /\ w.fill.highest < w.g
    /\ w.pc \in {"life", "recheck", "lookup"} => Filling(S, w.next, l)

\* lastProcessed counts from the first block followed, the saved one too.
Based == /\ c.tip # NoRef \/ last > 0 \/ work.pc \notin {"idle", "extend"} => base > 0
         /\ base > 0 /\ last = 0 => work.pc = "extended" /\ base = work.head
SavedBased == /\ saved.last = 0 => saved.refs = {}
              /\ Resume /\ saved.last > 0 => base > 0 /\ Covers(scanned, base, saved.last)

Complete == /\ base > 0 => Covers(scanned, base, last)
            /\ Working(scanned, work, last) /\ Based /\ SavedBased

HInv == Straight /\ Ahead /\ Complete

\* Prefixes of a prefix,
LEMMA HeldPrefix ==
    ASSUME NEW ch \in Block, NEW v \in Block, Holds(ch, v), NEW n \in 1..Len(v)
    PROVE  BlockAt(v, n) = BlockAt(ch, n) /\ Holds(ch, BlockAt(v, n))
<1>1. /\ ch \in Seq(Body) /\ v \in Seq(Body) /\ Len(ch) \in Nat /\ Len(v) \in Nat
      /\ Len(v) <= Len(ch) /\ v = SubSeq(ch, 1, Len(v))
  BY BlockIsSeq DEF Holds, BlockAt, Heights
<1>2. /\ BlockAt(v, n) \in Seq(Body) /\ Len(BlockAt(v, n)) = n
      /\ \A i \in 1..n : BlockAt(v, n)[i] = v[i]
  <2>1. \A i \in 1..n : v[i] \in Body
    BY <1>1
  <2> QED
    BY <1>1, <2>1, SubSeqProperties DEF BlockAt
<1>3. /\ BlockAt(ch, n) \in Seq(Body) /\ Len(BlockAt(ch, n)) = n
      /\ \A i \in 1..n : BlockAt(ch, n)[i] = ch[i]
  <2>1. \A i \in 1..n : ch[i] \in Body
    BY <1>1
  <2> QED
    BY <1>1, <2>1, SubSeqProperties DEF BlockAt
<1>4. \A i \in 1..Len(v) : v[i] = ch[i]
  <2>1. \A i \in 1..Len(v) : ch[i] \in Body
    BY <1>1
  <2>2. \A i \in 1..(Len(v) - 1 + 1) : SubSeq(ch, 1, Len(v))[i] = ch[1 + i - 1]
    BY <1>1, <2>1, SubSeqProperties
  <2>3. \A i \in 1..Len(v) : SubSeq(ch, 1, Len(v))[i] = ch[i]
    BY <1>1, <2>2
  <2> QED
    BY <1>1, <2>3
<1>5. \A i \in 1..n : BlockAt(v, n)[i] = BlockAt(ch, n)[i]
  BY <1>1, <1>2, <1>3, <1>4
<1>6. BlockAt(v, n) = BlockAt(ch, n)
  BY <1>2, <1>3, <1>5, SeqEqual
<1>7. n <= Len(ch)
  BY <1>1
<1> QED
  BY <1>2, <1>6, <1>7 DEF Holds

\* the whole,
LEMMA HeldSelf ==
    ASSUME NEW ch \in Block
    PROVE  Holds(ch, ch) /\ \A n \in 1..Len(ch) : Holds(ch, BlockAt(ch, n))
<1>1. ch \in Seq(Body) /\ Len(ch) \in Nat
  BY BlockIsSeq DEF Heights
<1>2. Holds(ch, ch)
  BY <1>1, SubSeqFull DEF Holds, BlockAt
<1> QED
  BY <1>2, HeldPrefix

\* and the parent.
LEMMA HeldParent ==
    ASSUME NEW ch \in Block, NEW h \in Block, NEW b \in Block, Holds(ch, h), Holds(ch, b),
           Len(h) = Len(b) + 1
    PROVE  Parent(h) = b
<1>1. Len(b) \in 1..Len(h) /\ Len(h) - 1 = Len(b)
  BY BlockIsSeq DEF Heights
<1>2. BlockAt(h, Len(b)) = BlockAt(ch, Len(b))
  BY <1>1, HeldPrefix
<1>3. Parent(h) = BlockAt(h, Len(b))
  BY <1>1 DEF Parent, Front, BlockAt
<1> QED
  BY <1>2, <1>3 DEF Holds

\* A chain that grows keeps its blocks.
LEMMA HeldGrows ==
    ASSUME NEW ch \in Block, NEW body \in Body, NEW b \in Block, Holds(ch, b)
    PROVE  Holds(Append(ch, body), b)
<1> DEFINE new == Append(ch, body)
           n == Len(b)
<1>1. /\ ch \in Seq(Body) /\ Len(ch) \in Nat /\ n \in Nat /\ b \in Seq(Body)
      /\ n <= Len(ch) /\ b = SubSeq(ch, 1, n)
  BY BlockIsSeq DEF Holds, BlockAt, Heights
<1>2. new \in Seq(Body) /\ Len(new) = Len(ch) + 1 /\ \A i \in 1..Len(ch) : new[i] = ch[i]
  BY <1>1, AppendProperties
<1> HIDE DEF new, n
<1>3. \A i \in 1..n : ch[i] \in Body /\ new[i] \in Body /\ new[i] = ch[i]
  BY <1>1, <1>2
<1>4. SubSeq(ch, 1, n) \in Seq(Body) /\ \A i \in 1..n : SubSeq(ch, 1, n)[i] = ch[i]
  BY <1>1, <1>3, SubSeqProperties
<1>5. /\ SubSeq(new, 1, n) \in Seq(Body) /\ Len(SubSeq(new, 1, n)) = n
      /\ \A i \in 1..n : SubSeq(new, 1, n)[i] = new[i]
  BY <1>1, <1>3, SubSeqProperties
<1>6. SubSeq(new, 1, n) = b
  <2>1. Len(b) = n
    BY DEF n
  <2>2. \A i \in 1..n : b[i] = SubSeq(new, 1, n)[i]
    BY <1>1, <1>3, <1>4, <1>5
  <2> QED
    BY <1>1, <1>5, <2>1, <2>2, SeqEqual
<1>7. n <= Len(new)
  BY <1>1, <1>2
<1> QED
  BY <1>6, <1>7 DEF Holds, BlockAt, n, new

\* A chain that does not reorg has no lower heads either.
LEMMA NoReorgs ==
    ASSUME Steady, Counted, NEW k, NEW bodies PROVE ~Reorg(k, bodies)
<1>1. spent["reorgs"] \in Nat /\ Bound["reorgs"] = 0
  BY DEF Steady, Counted
<1> QED
  BY <1>1 DEF Reorg, Spend

\* A new head is above those that wait, if it is above what they are above.
LEMMA UnderAppend ==
    ASSUME NEW hs \in Seq(Block), NEW ch \in Block, NEW n, Under(n, hs), n < Len(ch)
    PROVE  Under(n, Append(hs, ch))
<1>1. /\ Len(Append(hs, ch)) = Len(hs) + 1 /\ Append(hs, ch)[Len(hs) + 1] = ch /\ Len(hs) \in Nat
      /\ \A i \in 1..Len(hs) : Append(hs, ch)[i] = hs[i]
  BY AppendProperties
<1>2. ASSUME NEW i \in 1..Len(Append(hs, ch)) PROVE n < Len(Append(hs, ch)[i])
  <2>1. i \in 1..Len(hs) \/ i = Len(hs) + 1
    BY <1>1
  <2> QED
    BY <1>1, <2>1 DEF Under
<1> QED
  BY <1>2 DEF Under

\* The heads that stay when the first is taken are above it.
LEMMA UnderTail ==
    ASSUME NEW hs \in Seq(Block), hs # <<>>, Rising(hs)
    PROVE  /\ Rising(Tail(hs)) /\ Under(Len(Head(hs)), Tail(hs))
           /\ \A n : Under(n, hs) => Under(n, Tail(hs)) /\ n < Len(Head(hs))
<1>1. /\ Len(Tail(hs)) = Len(hs) - 1 /\ Len(hs) \in Nat \ {0} /\ Head(hs) = hs[1]
      /\ \A i \in 1..Len(Tail(hs)) : Tail(hs)[i] = hs[i + 1]
  BY HeadTailProperties
<1>2. \A i \in 1..Len(Tail(hs)) : i + 1 \in 1..Len(hs) /\ 1 < i + 1
  BY <1>1
<1>3. 1 \in 1..Len(hs)
  BY <1>1
<1>4. Under(Len(Head(hs)), Tail(hs))
  BY <1>1, <1>2, <1>3 DEF Under, Rising
<1>5. \A n : Under(n, hs) => Under(n, Tail(hs)) /\ n < Len(Head(hs))
  BY <1>1, <1>2, <1>3 DEF Under
<1>6. Rising(Tail(hs))
  <2>1. ASSUME NEW i \in 1..Len(Tail(hs)), NEW j \in 1..Len(Tail(hs)), i < j
        PROVE  Len(Tail(hs)[i]) < Len(Tail(hs)[j])
    <3>1. i + 1 \in 1..Len(hs) /\ j + 1 \in 1..Len(hs) /\ i + 1 < j + 1
      BY <1>2, <2>1
    <3>2. Len(hs[i + 1]) < Len(hs[j + 1])
      BY <3>1 DEF Rising
    <3> QED
      BY <1>1, <3>2
  <2> QED
    BY <2>1 DEF Rising
<1> QED
  BY <1>4, <1>5, <1>6

\* The node's chain grows.
LEMMA GrowHeights ==
    ASSUME Types, Low, HInv, NEW body \in Body, Extend(body) PROVE HInv'
<1> DEFINE ch == Append(chain, body)
<1>1. /\ chain' = ch /\ (heads' = heads \/ heads' = Append(heads, ch))
      /\ views' = {} \/ views' = views \cup {ch}
      /\ UNCHANGED <<c, saved, work, last, base, scanned>>
  BY DEF Extend, Announce, Coalesce, Adopt, memory, disk
<1>2. /\ chain \in Block /\ chain \in Seq(Body) /\ Len(chain) \in Nat /\ heads \in Seq(Block)
      /\ c \in Ring /\ saved.refs \in SUBSET HeaderRef /\ views \in SUBSET Block /\ work \in Work
  BY BlockIsSeq, Typed DEF Heights, SavedType
<1>3. ch \in Block /\ Len(ch) = Len(chain) + 1
  <2>1. Types'
    BY ExtendTyped
  <2>2. chain' \in Block
    BY <2>1 DEF Types, ChainType
  <2> QED
    BY <1>1, <1>2, <2>2, AppendProperties
<1>4. \A b \in Block : Holds(chain, b) => Holds(ch, b)
  BY <1>2, HeldGrows
<1> HIDE DEF ch
<1>5. \A r \in HeaderRef : OnRef(chain, r) => OnRef(ch, r)
  BY <1>4 DEF OnRef, HeaderRef
<1>6. OnRing(ch, c)
  <2>1. /\ \A i \in 0..(RingSize - 1) : c.refs[i] # NoRef => c.refs[i] \in HeaderRef
        /\ c.tip # NoRef => c.tip \in HeaderRef
    BY <1>2 DEF Ring
  <2> QED
    BY <1>5, <2>1 DEF HInv, Straight, OnRing
<1>7. OnRefs(ch, saved.refs)
  BY <1>2, <1>5 DEF HInv, Straight, OnRefs
<1>8. OnViews(ch, views')
  BY <1>1, <1>2, <1>3, <1>4, HeldSelf DEF HInv, Straight, OnViews
<1>9. OnWork(ch, work)
  BY <1>2, <1>4, WorkCases DEF HInv, Straight, OnWork
<1>10. OnHeads(ch, heads')
  <2>1. \A i \in 1..Len(heads) : heads[i] \in Block /\ Holds(ch, heads[i])
    BY <1>2, <1>4 DEF HInv, Straight, OnHeads
  <2>2. CASE heads' = Append(heads, ch)
    <3>1. /\ Len(heads') = Len(heads) + 1 /\ heads'[Len(heads) + 1] = ch /\ Len(heads) \in Nat
          /\ \A i \in 1..Len(heads) : heads'[i] = heads[i]
      BY <1>2, <1>3, <2>2, AppendProperties
    <3>2. ASSUME NEW i \in 1..Len(heads') PROVE Holds(ch, heads'[i])
      <4>1. i \in 1..Len(heads) \/ i = Len(heads) + 1
        BY <3>1
      <4> QED
        BY <1>3, <2>1, <3>1, <4>1, HeldSelf
    <3> QED
      BY <3>2 DEF OnHeads
  <2> QED
    BY <1>1, <2>1, <2>2 DEF OnHeads
<1>11. Straight'
  BY <1>1, <1>6, <1>7, <1>8, <1>9, <1>10 DEF Straight
<1>12. ASSUME NEW n \in Nat, Under(n, heads), n <= Len(chain) PROVE Under(n, heads')
  <2>1. n < Len(ch)
    BY <1>2, <1>3, <1>12
  <2>2. Under(n, Append(heads, ch))
    BY <1>2, <1>3, <1>12, <2>1, UnderAppend
  <2> QED
    BY <1>1, <1>12, <2>2
<1>13. Ahead'
  <2>1. Rising(heads) /\ WorkUnder(work, heads) /\ TipUnder(c, heads)
    BY DEF HInv, Ahead
  <2>2. LowWork(work, Len(chain)) /\ LowRing(c, Len(chain)) /\ LowHeads(heads, Len(chain))
    BY DEF Low
  <2>3. TipUnder(c, heads')
    BY <1>2, <1>12, <2>1, <2>2, RingNumbers DEF TipUnder, LowRing, Heights
  <2>4. \A b \in Block : Len(b) \in Nat
    BY BlockIsSeq DEF Heights
  <2>5. ASSUME NEW w \in AfterLife, FillUnder(w, heads), LowNext(w, Len(chain))
        PROVE  FillUnder(w, heads')
    BY <1>12, <2>5 DEF FillUnder, LowNext, AfterLife, FillWork, Idle, Heights
  <2>6. work.pc = "fill" => work \in AfterLife
    BY <1>2, WorkCases DEF AfterLife
  <2>7. FillUnder(work, heads')
    BY <2>1, <2>2, <2>5, <2>6 DEF WorkUnder, LowWork, FillUnder
  <2>8. work.pc \in {"extend", "catchup"} => Under(Len(work.head), heads')
    BY <1>2, <1>12, <2>1, <2>2, <2>4, WorkCases DEF WorkUnder, LowWork
  <2>9. work.pc = "drain" => Under(work.to, heads')
    BY <1>2, <1>12, <2>1, <2>2, WorkCases DEF WorkUnder, LowWork, Heights
  <2>10. work.pc \in {"life", "recheck", "lookup"} => FillUnder(work.next, heads')
    <3>1. work.pc \in {"life", "recheck", "lookup"} => work.next \in AfterLife
      BY <1>2, WorkCases
    <3> QED
      BY <2>1, <2>2, <2>5, <3>1 DEF WorkUnder, LowWork
  <2>11. WorkUnder(work, heads')
    BY <2>7, <2>8, <2>9, <2>10 DEF WorkUnder
  <2>12. Rising(heads')
    <3>1. CASE heads' = Append(heads, ch)
      <4>1. /\ Len(heads') = Len(heads) + 1 /\ heads'[Len(heads) + 1] = ch /\ Len(heads) \in Nat
            /\ \A i \in 1..Len(heads) : heads'[i] = heads[i]
        BY <1>2, <1>3, <3>1, AppendProperties
      <4>2. \A i \in 1..Len(heads) : heads[i] \in Block /\ Len(heads[i]) <= Len(chain)
        BY <1>2, <2>2 DEF LowHeads
      <4>3. \A i \in 1..Len(heads) : Len(heads[i]) < Len(ch)
        BY <1>2, <1>3, <2>4, <4>2
      <4>4. ASSUME NEW i \in 1..Len(heads'), NEW j \in 1..Len(heads'), i < j
            PROVE  Len(heads'[i]) < Len(heads'[j])
        <5>1. i \in 1..Len(heads) /\ (j \in 1..Len(heads) \/ j = Len(heads) + 1)
          BY <4>1, <4>4
        <5>2. CASE j \in 1..Len(heads)
          BY <2>1, <4>1, <4>4, <5>1, <5>2 DEF Rising
        <5>3. CASE j = Len(heads) + 1
          BY <4>1, <4>3, <5>1, <5>3
        <5> QED
          BY <5>1, <5>2, <5>3
      <4> QED
        BY <4>4 DEF Rising
    <3> QED
      BY <1>1, <2>1, <3>1
  <2> QED
    BY <1>1, <2>3, <2>11, <2>12 DEF Ahead
<1>14. Complete'
  BY <1>1 DEF HInv, Complete, Based, SavedBased
<1> QED
  BY <1>11, <1>13, <1>14 DEF HInv

\* A processed block is scanned, and what was stays.
LEMMA ScannedMore ==
    ASSUME NEW S, NEW b
    PROVE  /\ Has(S \cup {b}, Len(b))
           /\ \A n : Has(S, n) => Has(S \cup {b}, n)
           /\ \A lo, hi : Covers(S, lo, hi) => Covers(S \cup {b}, lo, hi)
BY DEF Has, Covers

\* Processing a block of the chain, below the heads that wait.
LEMMA ProcessHeights ==
    ASSUME IInv, HInv, NEW b \in Block, Processes(b), Holds(chain, b), Under(Len(b), heads)
    PROVE  OnRing(chain, c') /\ TipUnder(c', heads) /\ scanned' = scanned \cup {b}
<1> DEFINE r == Ref(b)
           i == r.num % RingSize
<1>1. c' = record(c, r)
  <2>1. Here \in Within(c)
    BY HereHandled DEF Within
  <2>2. PICK mode \in ScanModes(b), open \in MayStayOpen(b) : Install(processBlock(Here, b, mode, open))
    BY DEF Processes
  <2>3. processBlock(Here, b, mode, open).c = record(c, Ref(b))
    BY <2>1, ProcessedHandled
  <2> QED
    BY <2>2, <2>3 DEF Install
<1>2. OnRef(chain, r) /\ r.num = Len(b)
  BY DEF OnRef, Ref, Number
<1>3. c \in Ring
  BY Typed DEF IInv
<1>4. /\ c'.tip = r \/ (c.tip # NoRef /\ c'.tip = c.tip)
      /\ c'.refs = [c.refs EXCEPT ![i] = r]
  BY <1>1 DEF record
<1>5. OnRing(chain, c) /\ TipUnder(c, heads)
  BY DEF HInv, Straight, Ahead
<1> HIDE DEF r, i
<1>6. \A j \in 0..(RingSize - 1) : c'.refs[j] = r \/ c'.refs[j] = c.refs[j]
  BY <1>3, <1>4 DEF Ring
<1>7. OnRing(chain, c')
  BY <1>2, <1>4, <1>5, <1>6 DEF OnRing
<1>8. TipUnder(c', heads)
  BY <1>2, <1>4, <1>5 DEF TipUnder
<1> QED
  BY <1>7, <1>8 DEF Processes

\* headExtend: the first block followed, or one that leaves no gap;
LEMMA ExtendBlockHeights ==
    ASSUME IInv, HInv, ExtendBlock PROVE HInv'
<1> DEFINE b == work.head
           S == scanned \cup {b}
<1>1. /\ work.pc = "extend" /\ Processes(b) /\ work' = [pc |-> "extended", head |-> Len(b)]
      /\ base' = (IF base = 0 THEN Len(b) ELSE base)
      /\ UNCHANGED <<chain, heads, views, last, saved>>
  BY ProcessProcesses DEF ExtendBlock, Process, Number, node, world
<1>2. /\ b \in Block /\ Len(b) \in Nat /\ Len(b) >= 1 /\ last \in Nat /\ base \in Nat
      /\ saved.last \in Nat
  BY <1>1, Typed, WorkCases, BlockIsSeq DEF IInv, Heights, SavedType
<1>3. /\ Holds(chain, b) /\ Under(Len(b), heads) /\ Rising(heads)
      /\ OnRefs(chain, saved.refs) /\ OnHeads(chain, heads) /\ OnViews(chain, views)
  BY <1>1 DEF HInv, Straight, OnWork, Ahead, WorkUnder
<1>4. OnRing(chain, c') /\ TipUnder(c', heads) /\ scanned' = S
  BY <1>1, <1>2, <1>3, ProcessHeights
<1>5. Straight'
  <2>1. OnWork(chain, work')
    BY <1>1 DEF OnWork
  <2> QED
    BY <1>1, <1>3, <1>4, <2>1 DEF Straight
<1>6. Ahead'
  <2>1. WorkUnder(work', heads)
    BY <1>1 DEF WorkUnder, FillUnder
  <2> QED
    BY <1>1, <1>3, <1>4, <2>1 DEF Ahead
<1>7. Complete /\ Based /\ SavedBased
  BY DEF HInv, Complete
<1>8. Has(S, Len(b)) /\ \A lo, hi : Covers(scanned, lo, hi) => Covers(S, lo, hi)
  BY ScannedMore
<1> HIDE DEF b, S
<1>9. last = 0 => base = 0
  BY <1>1, <1>2, <1>7 DEF Based
<1>10. base = 0 => last = 0 /\ ~(Resume /\ saved.last > 0)
  BY <1>2, <1>7 DEF Based, SavedBased
<1>11. Working(S, work', last)
  <2>1. last > 0 => Len(b) <= last + 1
    BY <1>1, <1>7 DEF Complete, Working, b
  <2> QED
    BY <1>1, <1>8, <2>1 DEF Working, Filling
<1>12. base' > 0 => Covers(S, base', last)
  <2>1. CASE base = 0
    BY <1>1, <1>2, <1>10, <2>1 DEF Covers
  <2>2. CASE base # 0
    BY <1>1, <1>2, <1>7, <1>8, <2>2 DEF Complete
  <2> QED
    BY <2>1, <2>2
<1>13. Based'
  BY <1>1, <1>2, <1>9 DEF Based
<1>14. SavedBased'
  BY <1>1, <1>2, <1>4, <1>7, <1>8, <1>10 DEF SavedBased
<1>15. Complete'
  BY <1>1, <1>4, <1>11, <1>12, <1>13, <1>14 DEF Complete
<1> QED
  BY <1>5, <1>6, <1>15 DEF HInv

\* catchUpScan: the head of a gap;
LEMMA CatchUpHeights ==
    ASSUME IInv, HInv, CatchUpHead PROVE HInv'
<1> DEFINE b == work.head
           S == scanned \cup {b}
<1>1. /\ work.pc = "catchup" /\ Processes(b) /\ views' = {chain}
      /\ work' = [pc |-> "fill", n |-> Len(b) - 1, from |-> work.from, highest |-> Len(b)]
      /\ UNCHANGED <<chain, heads, last, saved, base>>
  BY ProcessProcesses DEF CatchUpHead, Process, Fill, Number, node, world
<1>2. b \in Block /\ Len(b) \in Nat /\ chain \in Block
  BY <1>1, Typed, WorkCases, BlockIsSeq DEF IInv, Heights
<1>3. /\ Holds(chain, b) /\ Under(Len(b), heads) /\ Rising(heads)
      /\ OnRefs(chain, saved.refs) /\ OnHeads(chain, heads)
  BY <1>1 DEF HInv, Straight, OnWork, Ahead, WorkUnder
<1>4. OnRing(chain, c') /\ TipUnder(c', heads) /\ scanned' = S
  BY <1>1, <1>2, <1>3, ProcessHeights
<1>5. Straight'
  <2>1. OnWork(chain, work') /\ OnViews(chain, views')
    BY <1>1, <1>2, HeldSelf DEF OnWork, OnViews
  <2> QED
    BY <1>1, <1>3, <1>4, <2>1 DEF Straight
<1>6. Complete /\ Based /\ SavedBased /\ work.from = last + 1
  BY <1>1 DEF HInv, Complete, Working
<1>7. Has(S, Len(b)) /\ \A lo, hi : Covers(scanned, lo, hi) => Covers(S, lo, hi)
  BY ScannedMore
<1> HIDE DEF b, S
<1>8. Ahead'
  <2>1. WorkUnder(work', heads)
    BY <1>1, <1>3 DEF WorkUnder, FillUnder
  <2> QED
    BY <1>1, <1>3, <1>4, <2>1 DEF Ahead
<1>9. Working(S, work', last)
  <2>1. Covers(S, Len(b) - 1 + 1, Len(b)) /\ Len(b) - 1 < Len(b)
    BY <1>2, <1>7 DEF Covers
  <2> QED
    BY <1>1, <1>6, <2>1 DEF Working, Filling
<1>10. base > 0 => Covers(S, base, last)
  BY <1>6, <1>7 DEF Complete
<1>11. Based' /\ SavedBased'
  BY <1>1, <1>4, <1>6, <1>7 DEF Based, SavedBased
<1>12. Complete'
  BY <1>1, <1>4, <1>9, <1>10, <1>11 DEF Complete
<1> QED
  BY <1>5, <1>8, <1>12 DEF HInv

\* A session that ends, but not between a block and lastProcessed.
LEMMA EndHeights ==
    ASSUME HInv, EndSession, UNCHANGED <<chain, c, saved, last, base, scanned>>,
           work.pc # "extended"
    PROVE  HInv'
<1>1. heads' = <<>> /\ work' = Idle /\ views' = {}
  BY DEF EndSession
<1>2. Straight'
  BY <1>1 DEF HInv, Straight, OnHeads, OnViews, OnWork, Idle
<1>3. Ahead'
  BY <1>1 DEF Ahead, Rising, WorkUnder, FillUnder, TipUnder, Under, Idle
<1>4. Working(scanned, work', last)
  BY <1>1 DEF Working, Filling, Idle
<1>5. Based' /\ SavedBased'
  BY <1>1 DEF HInv, Complete, Based, SavedBased, Idle
<1> QED
  BY <1>2, <1>3, <1>4, <1>5 DEF HInv, Complete

\* a block up to a head announced meanwhile;
LEMMA DrainHeights ==
    ASSUME IInv, HInv, DrainBlock PROVE HInv'
<1>1. work.pc = "drain" /\ Types
  BY DEF DrainBlock, IInv
<1>2. CASE NotServed(work.g)
  <2>1. EndSession /\ UNCHANGED <<chain, c, saved, last, base, scanned>>
    BY <1>2 DEF NotServed, world, memory, disk
  <2> QED
    BY <1>1, <2>1, EndHeights
<1>3. ASSUME NEW v \in views \cup {chain}, v \in Block, work.g \in 1..Len(v),
             Processes(BlockAt(v, work.g)),
             work' = IF work.g = work.to THEN [work.fill EXCEPT !.highest = work.to]
                     ELSE [work EXCEPT !.g = work.g + 1],
             UNCHANGED <<chain, heads, views, last, saved, base>>
      PROVE  HInv'
  <2> DEFINE b == BlockAt(v, work.g)
             S == scanned \cup {b}
  <2>1. /\ Processes(b)
        /\ work' = IF work.g = work.to THEN [work.fill EXCEPT !.highest = work.to]
                   ELSE [work EXCEPT !.g = work.g + 1]
        /\ UNCHANGED <<chain, heads, views, last, saved, base>>
    BY <1>3
  <2>2. /\ work \in [pc : {"drain"}, g : Heights, to : Heights, past : SUBSET Block, fill : FillWork]
        /\ work.g <= work.to /\ chain \in Block /\ Len(chain) \in Nat
    BY <1>1, Typed, WorkCases DEF Heights
  <2>3. work.g \in 1..Len(v) /\ work.g \in Nat /\ work.to \in Nat /\ work.fill \in FillWork
    BY <1>3, <2>2 DEF Heights
  <2>4. b \in Block /\ Len(b) = work.g /\ Holds(chain, b)
    <3>1. Holds(chain, v)
      BY <2>2, HeldSelf DEF HInv, Straight, OnViews
    <3> QED
      BY <1>3, <2>2, <2>3, <3>1, PrefixBlock, HeldPrefix
  <2>5. /\ Under(work.to, heads) /\ Rising(heads) /\ heads \in Seq(Block)
        /\ OnRefs(chain, saved.refs) /\ OnHeads(chain, heads) /\ OnViews(chain, views)
    BY <1>1, Typed DEF HInv, Straight, Ahead, WorkUnder
  <2>6. Under(Len(b), heads)
    <3>1. \A i \in 1..Len(heads) : Len(heads[i]) \in Nat
      BY <2>5, BlockIsSeq DEF Heights
    <3> QED
      BY <2>2, <2>3, <2>4, <2>5, <3>1 DEF Under
  <2>7. OnRing(chain, c') /\ TipUnder(c', heads) /\ scanned' = S
    BY <2>1, <2>4, <2>6, ProcessHeights
  <2>8. Has(S, work.g) /\ \A lo, hi : Covers(scanned, lo, hi) => Covers(S, lo, hi)
    BY <2>4, ScannedMore
  <2>9. \A n : Has(scanned, n) => Has(S, n)
    BY ScannedMore
  <2> HIDE DEF b, S
  <2>10. /\ Complete /\ Based /\ SavedBased /\ Filling(scanned, work.fill, last)
         /\ Covers(scanned, work.fill.highest + 1, work.g - 1) /\ work.fill.highest < work.g
    BY <1>1 DEF HInv, Complete, Working
  <2> DEFINE fill == work.fill
  <2>11. /\ fill.pc = "fill" /\ fill.n \in Nat /\ fill.highest \in Nat /\ fill.n < fill.highest
         /\ fill.from = last + 1 /\ Covers(scanned, fill.n + 1, fill.highest)
    BY <2>3, <2>10 DEF Filling, FillWork, Heights
  <2>12. CASE work.g = work.to
    <3>1. work' = [fill EXCEPT !.highest = work.to]
      BY <2>1, <2>12
    <3>2. /\ work'.pc = "fill" /\ work'.n = fill.n /\ work'.highest = work.to /\ work'.from = fill.from
      BY <2>3, <3>1 DEF FillWork
    <3> HIDE DEF fill
    <3>3. Covers(S, fill.n + 1, work.to)
      <4>1. ASSUME NEW n \in (fill.n + 1)..work.to PROVE Has(S, n)
        <5>1. \/ n \in (fill.n + 1)..fill.highest
              \/ n \in (fill.highest + 1)..(work.g - 1) \/ n = work.g
          BY <2>3, <2>11, <2>12
        <5> QED
          BY <2>8, <2>9, <2>10, <2>11, <5>1 DEF Covers, fill
      <4> QED
        BY <4>1 DEF Covers
    <3>4. Working(S, work', last)
      <4>1. fill.n < work.to /\ fill.from = last + 1
        BY <2>3, <2>10, <2>11, <2>12 DEF fill
      <4>2. Filling(S, work', last)
        BY <3>2, <3>3, <4>1 DEF Filling
      <4> QED
        BY <3>2, <4>2 DEF Working
    <3>5. OnWork(chain, work') /\ WorkUnder(work', heads)
      BY <2>5, <3>2 DEF OnWork, WorkUnder, FillUnder
    <3>6. Straight' /\ Ahead'
      BY <2>1, <2>5, <2>7, <3>5 DEF Straight, Ahead
    <3>7. Based' /\ SavedBased'
      BY <1>1, <2>1, <2>7, <2>8, <2>10, <3>2 DEF Based, SavedBased
    <3>8. Complete'
      BY <2>1, <2>7, <2>8, <2>10, <3>4, <3>7 DEF Complete
    <3> QED
      BY <3>6, <3>8 DEF HInv
  <2>13. CASE work.g # work.to
    <3>1. work' = [work EXCEPT !.g = work.g + 1]
      BY <2>1, <2>13
    <3>2. /\ work'.pc = "drain" /\ work'.g = work.g + 1 /\ work'.to = work.to
          /\ work'.fill = work.fill
      BY <2>2, <3>1
    <3>3. Covers(S, fill.highest + 1, work.g + 1 - 1) /\ fill.highest < work.g + 1
      <4>1. ASSUME NEW n \in (fill.highest + 1)..(work.g + 1 - 1) PROVE Has(S, n)
        <5>1. n \in (fill.highest + 1)..(work.g - 1) \/ n = work.g
          BY <2>3, <2>11
        <5> QED
          BY <2>8, <2>9, <2>10, <5>1 DEF Covers
      <4> QED
        BY <2>3, <2>10, <2>11, <4>1 DEF Covers
    <3>4. Filling(S, fill, last)
      BY <2>8, <2>11 DEF Filling
    <3>5. Working(S, work', last)
      <4>1. Filling(S, work', last)
        BY <3>2 DEF Filling
      <4>2. /\ Filling(S, work'.fill, last) /\ Covers(S, work'.fill.highest + 1, work'.g - 1)
            /\ work'.fill.highest < work'.g
        <5>1. work'.fill = fill /\ work'.g = work.g + 1
          BY <3>2
        <5>2. Filling(S, work'.fill, last)
          BY <3>4, <5>1
        <5>3. Covers(S, work'.fill.highest + 1, work'.g - 1)
          BY <2>3, <2>11, <3>3, <5>1
        <5>4. work'.fill.highest < work'.g
          BY <3>3, <5>1
        <5> QED
          BY <5>2, <5>3, <5>4
      <4> QED
        BY <3>2, <4>1, <4>2 DEF Working
    <3>6. OnWork(chain, work') /\ WorkUnder(work', heads)
      BY <2>5, <3>2 DEF OnWork, WorkUnder, FillUnder
    <3>7. Straight' /\ Ahead'
      BY <2>1, <2>5, <2>7, <3>6 DEF Straight, Ahead
    <3>8. Based' /\ SavedBased'
      BY <1>1, <2>1, <2>7, <2>8, <2>10, <3>2 DEF Based, SavedBased
    <3>9. Complete'
      BY <2>1, <2>7, <2>8, <2>10, <3>5, <3>8 DEF Complete
    <3> QED
      BY <3>7, <3>9 DEF HInv
  <2> QED
    BY <2>12, <2>13
<1> QED
  BY <1>2, <1>3, DrainReads, ProcessProcesses DEF Process, node, world

\* the next block below;
LEMMA FillHeights ==
    ASSUME IInv, HInv, FillBlock PROVE HInv'
<1>1. work.pc = "fill" /\ Types /\ ~(work.n < work.from)
  BY DEF FillBlock, Local, IInv
<1>2. PICK v \in views :
        \/ /\ Len(v) >= work.n /\ Processes(BlockAt(v, work.n))
           /\ work' = Life(work.highest, work.n, [work EXCEPT !.n = work.n - 1])
           /\ UNCHANGED <<chain, heads, views, last, saved, base>>
        \/ EndSession /\ UNCHANGED <<chain, c, saved, last, base, scanned>>
  BY ProcessProcesses DEF FillBlock, Process, node, world, memory, disk
<1>3. CASE EndSession /\ UNCHANGED <<chain, c, saved, last, base, scanned>>
  BY <1>1, <1>3, EndHeights
<1>4. CASE /\ Len(v) >= work.n /\ Processes(BlockAt(v, work.n))
           /\ work' = Life(work.highest, work.n, [work EXCEPT !.n = work.n - 1])
           /\ UNCHANGED <<chain, heads, views, last, saved, base>>
  <2> DEFINE b == BlockAt(v, work.n)
             S == scanned \cup {b}
             w == [work EXCEPT !.n = work.n - 1]
  <2>1. /\ work \in FillWork /\ v \in Block /\ Len(v) \in Nat /\ chain \in Block
        /\ heads \in Seq(Block) /\ last \in Nat
    BY <1>1, Typed, WorkCases, BlockIsSeq DEF Heights
  <2>2. /\ Complete /\ Based /\ SavedBased /\ work.n < work.highest /\ work.from = last + 1
        /\ Covers(scanned, work.n + 1, work.highest)
    BY <1>1 DEF HInv, Complete, Working, Filling
  <2>3. work.n \in 1..Len(v) /\ work.n \in Nat /\ work.highest \in Nat
    BY <1>1, <1>4, <2>1, <2>2 DEF FillWork, Heights
  <2>4. b \in Block /\ Len(b) = work.n /\ Holds(chain, b)
    BY <2>1, <2>3, PrefixBlock, HeldPrefix DEF HInv, Straight, OnViews
  <2>5. /\ Under(work.highest, heads) /\ Rising(heads)
        /\ OnRefs(chain, saved.refs) /\ OnHeads(chain, heads) /\ OnViews(chain, views)
    BY <1>1 DEF HInv, Straight, Ahead, WorkUnder, FillUnder
  <2>6. Under(Len(b), heads)
    <3>1. \A i \in 1..Len(heads) : Len(heads[i]) \in Nat
      BY <2>1, BlockIsSeq DEF Heights
    <3> QED
      BY <2>2, <2>3, <2>4, <2>5, <3>1 DEF Under
  <2>7. OnRing(chain, c') /\ TipUnder(c', heads) /\ scanned' = S
    BY <1>4, <2>4, <2>6, ProcessHeights
  <2>8. Has(S, work.n) /\ \A lo, hi : Covers(scanned, lo, hi) => Covers(S, lo, hi)
    BY <2>4, ScannedMore
  <2>9. \A n : Has(scanned, n) => Has(S, n)
    BY ScannedMore
  <2>10. /\ w.pc = "fill" /\ w.n = work.n - 1 /\ w.from = work.from /\ w.highest = work.highest
    BY <2>1 DEF FillWork
  <2>11. work'.pc = "life" /\ work'.next = w
    BY <1>4 DEF Life
  <2> HIDE DEF b, S, w
  <2>12. Filling(S, w, last)
    <3>1. ASSUME NEW n \in (work.n - 1 + 1)..work.highest PROVE Has(S, n)
      <4>1. n = work.n \/ n \in (work.n + 1)..work.highest
        BY <2>3
      <4> QED
        BY <2>2, <2>8, <2>9, <4>1 DEF Covers
    <3>2. work.n - 1 < work.highest
      BY <2>2, <2>3
    <3> QED
      BY <2>2, <2>10, <3>1, <3>2 DEF Filling, Covers
  <2>13. Working(S, work', last)
    BY <2>11, <2>12 DEF Working, Filling
  <2>14. OnWork(chain, work') /\ WorkUnder(work', heads)
    BY <2>5, <2>10, <2>11 DEF OnWork, WorkUnder, FillUnder
  <2>15. Straight' /\ Ahead'
    BY <1>4, <2>5, <2>7, <2>14 DEF Straight, Ahead
  <2>16. Based' /\ SavedBased'
    BY <1>1, <1>4, <2>2, <2>7, <2>8, <2>11 DEF Based, SavedBased
  <2>17. Complete'
    BY <1>4, <2>2, <2>7, <2>8, <2>13, <2>16 DEF Complete
  <2> QED
    BY <2>15, <2>17 DEF HInv
<1> QED
  BY <1>2, <1>3, <1>4

\* What is saved is of the chain,
LEMMA SaveStraight ==
    ASSUME Types, OnRing(chain, c), NEW n, saveState(n, c)
    PROVE  saved' = saved \/ (saved' = [last |-> n, refs |-> snapshot(c)] /\ n # 0
                              /\ OnRefs(chain, saved'.refs))
<1>1. c \in Ring
  BY Typed
<1>2. saved' = saved \/ (saved' = [last |-> n, refs |-> snapshot(c)] /\ n # 0)
  BY DEF saveState
<1>3. ASSUME NEW r \in snapshot(c) PROVE OnRef(chain, r)
  <2>1. c.tip # NoRef
    BY <1>3 DEF snapshot
  <2>2. PICK m \in floorOf(c)..c.tip.num : Held(c, m) /\ r = at(c, m)
    BY <1>3, <2>1 DEF snapshot
  <2>3. c.tip.num \in Nat /\ floorOf(c) \in Nat
    BY <1>1, <2>1, RingNumbers DEF Heights
  <2>4. m % RingSize \in 0..(RingSize - 1)
    BY <2>3, RingAssumption
  <2> QED
    BY <2>2, <2>4 DEF Held, at, OnRing
<1> QED
  BY <1>2, <1>3 DEF OnRefs

\* and what is restored too.
LEMMA RestoreStraight ==
    ASSUME NEW state \in [last : 0..Bound.height, refs : SUBSET HeaderRef], restore(state),
           NEW ch, OnRefs(ch, state.refs)
    PROVE  OnRing(ch, c') /\ (state.refs = {} => c'.tip = NoRef)
<1> DEFINE R == state.refs
           tip == CHOOSE r \in R : \A q \in R : q.num <= r.num
           here(i) == {r \in R : r.num % RingSize = i}
           top(i) == CHOOSE r \in here(i) : \A q \in here(i) : q.num <= r.num
<1>1. c' = Rebuilt(R) \/ c' = newChainState
  BY DEF restore
<1>2. OnRing(ch, newChainState) /\ newChainState.tip = NoRef
  BY DEF newChainState, OnRing
<1>3. R \in SUBSET HeaderRef /\ OnRefs(ch, R)
  OBVIOUS
<1>4. R = {} => Rebuilt(R) = newChainState
  BY DEF Rebuilt
<1>5. ASSUME R # {} PROVE OnRing(ch, Rebuilt(R))
  <2>1. /\ Rebuilt(R).tip = tip
        /\ Rebuilt(R).refs = [i \in 0..(RingSize - 1) |-> IF here(i) = {} THEN NoRef ELSE top(i)]
    BY <1>5 DEF Rebuilt
  <2>2. tip \in R
    BY <1>3, <1>5, HighestRef
  <2>3. ASSUME NEW i \in 0..(RingSize - 1), here(i) # {} PROVE top(i) \in R
    <3>1. here(i) \in SUBSET HeaderRef /\ here(i) \in SUBSET R
      BY <1>3
    <3> HIDE DEF here
    <3>2. top(i) \in here(i)
      BY <2>3, <3>1, HighestRef
    <3> QED
      BY <3>1, <3>2
  <2> HIDE DEF tip, here, top, R
  <2> QED
    BY <1>3, <2>1, <2>2, <2>3 DEF OnRing, OnRefs
<1> HIDE DEF R
<1> QED
  BY <1>1, <1>2, <1>4, <1>5 DEF R

\* A handler is done with its blocks: everything up to its head was scanned.
LEMMA AdvanceHeights ==
    ASSUME Steady, IInv, HInv, Extended \/ CaughtUp PROVE HInv'
<1>1. Types /\ work \in Work /\ last \in Nat /\ base \in Nat /\ saved.last \in Nat
  BY Typed DEF IInv, Heights, SavedType
<1>2. PICK n : /\ last' = n /\ saveState(n, c) /\ work' = Life(n, 0, Idle)
               /\ \/ work.pc = "extended" /\ n = work.head /\ views' = views
                  \/ work.pc = "fill" /\ Local /\ n = work.highest /\ views' = {}
  BY DEF Extended, CaughtUp, Advance
<1>3. UNCHANGED <<chain, heads, c, base, scanned>>
  BY DEF Extended, CaughtUp, node, world, history
<1>4. /\ OnRing(chain, c) /\ OnRefs(chain, saved.refs) /\ OnHeads(chain, heads)
      /\ OnViews(chain, views) /\ Rising(heads) /\ TipUnder(c, heads)
      /\ Based /\ SavedBased /\ (base > 0 => Covers(scanned, base, last))
      /\ Working(scanned, work, last)
  BY DEF HInv, Straight, Ahead, Complete
<1>5. \/ saved' = saved
      \/ saved' = [last |-> n, refs |-> snapshot(c)] /\ n # 0 /\ OnRefs(chain, saved'.refs)
  BY <1>1, <1>2, <1>4, SaveStraight
<1>6. work'.pc = "life" /\ work'.next = Idle
  BY <1>2 DEF Life
<1>7. Straight'
  <2>1. OnWork(chain, work') /\ OnViews(chain, views')
    BY <1>2, <1>4, <1>6 DEF OnWork, OnViews
  <2> QED
    BY <1>3, <1>4, <1>5, <2>1 DEF Straight
<1>8. Ahead'
  <2>1. WorkUnder(work', heads)
    BY <1>6 DEF WorkUnder, FillUnder, Idle
  <2> QED
    BY <1>3, <1>4, <2>1 DEF Ahead
<1>9. n \in Nat /\ n > 0 /\ base > 0 /\ Covers(scanned, base, n)
  <2>1. CASE work.pc = "extended"
    <3>1. n = work.head /\ n \in Nat /\ n > 0
      BY <1>1, <1>2, <2>1, WorkCases DEF Heights
    <3>2. Has(scanned, n) /\ (last > 0 => n <= last + 1) /\ base > 0
          /\ (last = 0 => base = n)
      BY <1>4, <2>1, <3>1 DEF Working, Based
    <3>3. ASSUME NEW m \in base..n PROVE Has(scanned, m)
      <4>1. m = n \/ m \in base..last
        BY <1>1, <3>1, <3>2
      <4> QED
        BY <1>4, <3>2, <4>1 DEF Covers
    <3> QED
      BY <3>1, <3>2, <3>3 DEF Covers
  <2>2. CASE work.pc = "fill"
    <3>1. n = work.highest /\ n \in Nat /\ n > 0 /\ work.n \in Nat
      BY <1>1, <1>2, <2>2, WorkCases DEF Heights, FillWork
    <3>2. /\ base > 0 /\ work.from = last + 1 /\ Covers(scanned, work.n + 1, n)
      BY <1>4, <2>2, <3>1 DEF Working, Filling, Based
    <3>3. work.n < work.from \/ work.n = 0
      BY <1>2, <2>2, <3>1 DEF Local, Steady
    <3>4. ASSUME NEW m \in base..n PROVE Has(scanned, m)
      <4>1. m \in base..last \/ m \in (work.n + 1)..n
        BY <1>1, <3>1, <3>2, <3>3
      <4> QED
        BY <1>4, <3>2, <4>1 DEF Covers
    <3> QED
      BY <3>1, <3>2, <3>4 DEF Covers
  <2> QED
    BY <1>2, <2>1, <2>2
<1>10. Working(scanned, work', n)
  BY <1>6 DEF Working, Filling, Idle
<1>11. Based'
  BY <1>2, <1>3, <1>6, <1>9 DEF Based
<1>12. SavedBased'
  <2>1. CASE saved' = saved
    BY <1>3, <1>4, <2>1 DEF SavedBased
  <2>2. CASE saved' = [last |-> n, refs |-> snapshot(c)] /\ n # 0
    BY <1>3, <1>9, <2>2 DEF SavedBased
  <2> QED
    BY <1>5, <2>1, <2>2
<1>13. Complete'
  BY <1>2, <1>3, <1>9, <1>10, <1>11, <1>12 DEF Complete
<1> QED
  BY <1>7, <1>8, <1>13 DEF HInv

\* A head on a chain that only grows extends the tip or leaves a gap, and it
\* extends the tip only if it leaves none above lastProcessed.
LEMMA HeadKind ==
    ASSUME Types, HInv, heads # <<>>
    PROVE  /\ Classified(Head(heads)) \in {"extend", "gap"}
           /\ Classified(Head(heads)) = "extend" => (last > 0 => Len(Head(heads)) <= last + 1)
           /\ Classified(Head(heads)) = "gap" => c.tip # NoRef \/ last > 0
<1> DEFINE h == Head(heads)
           r == [num |-> Number(h), hash |-> h, parent |-> Parent(h)]
           kind == classify(c, r)
<1>1. heads \in Seq(Block) /\ c \in Ring /\ chain \in Block /\ last \in Nat
  BY Typed DEF Heights
<1>2. h \in Block /\ Len(h) \in Nat /\ Holds(chain, h)
  <2>1. 1 \in 1..Len(heads) /\ h = heads[1] /\ heads[1] \in Block
    BY <1>1
  <2> QED
    BY <2>1, BlockIsSeq DEF HInv, Straight, OnHeads, Heights
<1>3. Rising(heads) /\ TipUnder(c, heads)
  BY DEF HInv, Ahead
<1>4. ASSUME c.tip # NoRef
      PROVE  /\ c.tip.num \in Nat /\ c.tip.num < Len(h)
             /\ Len(h) = c.tip.num + 1 => Parent(h) = c.tip.hash
  <2>1. c.tip \in HeaderRef
    BY <1>1, <1>4 DEF Ring
  <2>2. c.tip.hash \in Block /\ c.tip.num \in Nat
    BY <2>1 DEF HeaderRef, Heights
  <2>3. Holds(chain, c.tip.hash) /\ c.tip.num = Len(c.tip.hash)
    BY <1>4 DEF HInv, Straight, OnRing, OnRef
  <2>4. Under(c.tip.num, heads)
    BY <1>3, <1>4 DEF TipUnder
  <2>5. c.tip.num < Len(h)
    BY <1>1, <1>3, <2>4, UnderTail
  <2>6. Len(h) = c.tip.num + 1 => Parent(h) = c.tip.hash
    BY <1>1, <1>2, <2>2, <2>3, HeldParent
  <2> QED
    BY <2>2, <2>5, <2>6
<1>5. r.num = Len(h) /\ r.hash = h /\ r.parent = Parent(h)
  BY DEF Number
<1>6. Classified(h) = IF kind = "extend" /\ last > 0 /\ Len(h) > last + 1 THEN "gap" ELSE kind
  BY DEF Classified, Number
<1> HIDE DEF h, r
<1>7. kind \in {"extend", "gap"} /\ (kind = "gap" => c.tip # NoRef)
  <2>1. CASE c.tip = NoRef
    BY <2>1 DEF classify
  <2>2. CASE c.tip # NoRef
    <3>1. c.tip.num \in Nat /\ c.tip.num < Len(h)
      BY <1>4, <2>2
    <3>2. CASE Len(h) = c.tip.num + 1
      BY <1>4, <1>5, <2>2, <3>2 DEF classify
    <3>3. CASE Len(h) # c.tip.num + 1
      <4>1. Len(h) > c.tip.num + 1
        BY <1>2, <3>1, <3>3
      <4> QED
        BY <1>5, <2>2, <3>3, <4>1 DEF classify
    <3> QED
      BY <3>2, <3>3
  <2> QED
    BY <2>1, <2>2
<1> HIDE DEF kind
<1>8. /\ Classified(h) \in {"extend", "gap"}
      /\ Classified(h) = "extend" => (last > 0 => Len(h) <= last + 1)
      /\ Classified(h) = "gap" => c.tip # NoRef \/ last > 0
  BY <1>1, <1>2, <1>6, <1>7
<1> QED
  BY <1>8 DEF h

\* The dispatch goroutine takes a head.
LEMMA HeadHeights ==
    ASSUME IInv, HInv, DrainHead \/ onHead PROVE HInv'
<1> DEFINE h == Head(heads)
<1>1. /\ Types /\ work \in Work /\ heads \in Seq(Block) /\ heads # <<>> /\ last \in Nat
      /\ base \in Nat
  BY Typed DEF IInv, Heights, DrainHead, onHead
<1>2. /\ heads' = Tail(heads)
      /\ UNCHANGED <<chain, c, saved, last, base, scanned, views>>
  BY DEF DrainHead, onHead, node, world, memory, disk, history
<1>3. h \in Block /\ Len(h) \in Nat /\ Holds(chain, h) /\ OnHeads(chain, Tail(heads))
  <2>1. /\ 1 \in 1..Len(heads) /\ h = heads[1] /\ heads[1] \in Block
        /\ Len(Tail(heads)) = Len(heads) - 1 /\ Len(heads) \in Nat
        /\ \A i \in 1..Len(Tail(heads)) : Tail(heads)[i] = heads[i + 1]
    BY <1>1
  <2>2. \A i \in 1..Len(heads) : Holds(chain, heads[i])
    BY DEF HInv, Straight, OnHeads
  <2>3. \A i \in 1..Len(Tail(heads)) : i + 1 \in 1..Len(heads)
    BY <2>1
  <2>4. OnHeads(chain, Tail(heads))
    BY <2>1, <2>2, <2>3 DEF OnHeads
  <2> QED
    BY <2>1, <2>2, <2>4, BlockIsSeq DEF Heights
<1>4. /\ Rising(Tail(heads)) /\ Under(Len(h), Tail(heads))
      /\ \A n : Under(n, heads) => Under(n, Tail(heads)) /\ n < Len(h)
  BY <1>1, UnderTail DEF HInv, Ahead
<1>5. /\ OnRing(chain, c) /\ OnRefs(chain, saved.refs) /\ OnViews(chain, views)
      /\ TipUnder(c, heads) /\ WorkUnder(work, heads) /\ Based /\ SavedBased
      /\ (base > 0 => Covers(scanned, base, last)) /\ Working(scanned, work, last)
  BY DEF HInv, Straight, Ahead, Complete
<1>6. TipUnder(c, Tail(heads))
  BY <1>4, <1>5 DEF TipUnder
<1>7. ASSUME OnWork(chain, work'), WorkUnder(work', Tail(heads)), Working(scanned, work', last),
             Based'
      PROVE  HInv'
  <2>1. Straight' /\ Ahead'
    BY <1>2, <1>3, <1>4, <1>5, <1>6, <1>7 DEF Straight, Ahead
  <2>2. SavedBased'
    BY <1>2, <1>5 DEF SavedBased
  <2> QED
    BY <1>2, <1>5, <1>7, <2>1, <2>2 DEF HInv, Complete
<1>8. CASE DrainHead
  <2>1. work.pc = "fill" /\ work \in FillWork
    BY <1>1, <1>8, WorkCases DEF DrainHead
  <2>2. work.highest \in Nat /\ work.highest < Len(h)
    BY <1>4, <1>5, <2>1 DEF WorkUnder, FillUnder, FillWork, Heights
  <2>3. work' = [pc |-> "drain", g |-> work.highest + 1, to |-> Len(h),
                                 past |-> views \ {chain}, fill |-> work]
    BY <1>3, <1>8, <2>2 DEF DrainHead, Number
  <2> HIDE DEF h
  <2>4. /\ work'.pc = "drain" /\ work'.g = work.highest + 1 /\ work'.to = Len(h)
        /\ work'.fill = work
    BY <2>3
  <2>5. OnWork(chain, work') /\ WorkUnder(work', Tail(heads))
    BY <1>4, <2>4 DEF OnWork, WorkUnder, FillUnder
  <2>6. Working(scanned, work', last)
    <3>1. Filling(scanned, work', last)
      BY <2>4 DEF Filling
    <3>2. Filling(scanned, work, last)
      BY <1>5 DEF Working
    <3>3. Covers(scanned, work.highest + 1, work.highest + 1 - 1)
      BY <2>2 DEF Covers
    <3>4. work.highest < work.highest + 1
      BY <2>2
    <3>5. Filling(scanned, work'.fill, last)
      BY <2>4, <3>2
    <3>6. Covers(scanned, work'.fill.highest + 1, work'.g - 1) /\ work'.fill.highest < work'.g
      BY <2>2, <2>4, <3>3, <3>4
    <3> QED
      BY <2>4, <3>1, <3>5, <3>6 DEF Working
  <2>7. Based'
    BY <1>2, <1>5, <2>1, <2>4 DEF Based
  <2> QED
    BY <1>7, <2>5, <2>6, <2>7
<1>9. CASE onHead
  <2>1. work.pc = "idle"
    BY <1>9 DEF onHead
  <2>2. /\ Classified(h) \in {"extend", "gap"}
        /\ Classified(h) = "extend" => (last > 0 => Len(h) <= last + 1)
        /\ Classified(h) = "gap" => c.tip # NoRef \/ last > 0
    BY <1>1, HeadKind
  <2>3. /\ c.tip # NoRef \/ last > 0 => base > 0
        /\ ~(base > 0 /\ last = 0)
    BY <1>5, <2>1 DEF Based
  <2>4. CASE Classified(h) = "extend"
    <3>1. work' = [pc |-> "extend", head |-> h]
      BY <1>9, <2>4 DEF onHead
    <3> HIDE DEF h
    <3>2. work'.pc = "extend" /\ work'.head = h
      BY <3>1
    <3>3. OnWork(chain, work') /\ WorkUnder(work', Tail(heads))
      BY <1>3, <1>4, <3>2 DEF OnWork, WorkUnder, FillUnder
    <3>4. Working(scanned, work', last)
      BY <2>2, <2>4, <3>2 DEF Working, Filling
    <3>5. Based'
      BY <1>2, <2>3, <3>2 DEF Based
    <3> QED
      BY <1>7, <3>3, <3>4, <3>5
  <2>5. CASE Classified(h) = "gap"
    <3>1. work' = [pc |-> "catchup", head |-> h, from |-> last + 1]
      BY <1>9, <2>5 DEF onHead
    <3> HIDE DEF h
    <3>2. work'.pc = "catchup" /\ work'.head = h /\ work'.from = last + 1
      BY <3>1
    <3>3. OnWork(chain, work') /\ WorkUnder(work', Tail(heads))
      BY <1>3, <1>4, <3>2 DEF OnWork, WorkUnder, FillUnder
    <3>4. Working(scanned, work', last)
      BY <3>2 DEF Working, Filling
    <3>5. Based'
      BY <1>2, <2>2, <2>3, <2>5, <3>2 DEF Based
    <3> QED
      BY <1>7, <3>3, <3>4, <3>5
  <2> QED
    BY <2>2, <2>4, <2>5
<1> QED
  BY <1>8, <1>9

\* updateLifecycles leaves heights alone and goes back to its handler.
LEMMA BatchHeights == ASSUME IInv, HInv, Batch PROVE HInv'
<1>1. PICK s \in Within(c) : /\ Install(s) /\ UNCHANGED <<chain, final, saved, last, base, scanned>>
                             /\ EndSession \/ Onward
  BY DEF Batch
<1>2. c' = c
  BY <1>1 DEF Install, Within
<1>3. work \in Work
  BY Typed DEF IInv
<1>4. CASE Onward
  <2>1. work.pc \in {"life", "recheck", "lookup"} /\ heads' = heads /\ views' = views
    BY <1>4 DEF Onward, Batch
  <2>2. work.next \in AfterLife
    BY <1>3, <2>1, WorkCases
  <2>3. work.next.pc \in {"idle", "fill"}
    BY <2>2 DEF AfterLife, FillWork, Idle
  <2>4. FillUnder(work.next, heads) /\ Filling(scanned, work.next, last)
    BY <2>1 DEF HInv, Ahead, WorkUnder, Complete, Working
  <2>5. OnWork(chain, work') /\ WorkUnder(work', heads) /\ Working(scanned, work', last)
    <3>1. CASE work' = work.next
      <4>1. work'.pc \in {"idle", "fill"} /\ FillUnder(work', heads) /\ Filling(scanned, work', last)
        BY <2>3, <2>4, <3>1
      <4> QED
        BY <4>1 DEF OnWork, WorkUnder, Working
    <3>2. CASE work'.pc \in {"recheck", "lookup"} /\ work'.next = work.next
      <4>1. FillUnder(work', heads) /\ Filling(scanned, work', last)
        BY <3>2 DEF FillUnder, Filling
      <4>2. FillUnder(work'.next, heads) /\ Filling(scanned, work'.next, last)
        BY <2>4, <3>2
      <4> QED
        BY <3>2, <4>1, <4>2 DEF OnWork, WorkUnder, Working
    <3> QED
      BY <1>4, <3>1, <3>2 DEF Onward
  <2>6. Based'
    BY <1>1, <1>2, <2>1 DEF HInv, Complete, Based
  <2>7. SavedBased'
    BY <1>1 DEF HInv, Complete, SavedBased
  <2>8. Straight' /\ Ahead'
    BY <1>1, <1>2, <2>1, <2>5 DEF HInv, Straight, Ahead
  <2> QED
    BY <1>1, <2>5, <2>6, <2>7, <2>8 DEF HInv, Complete
<1>5. CASE EndSession
  BY <1>1, <1>2, <1>5, EndHeights DEF Batch
<1> QED
  BY <1>1, <1>4, <1>5

\* A process that starts goes on from what was saved, or follows anew.
LEMMA RestartHeights ==
    ASSUME IInv, EndSession, restore(saved'), chain' = chain, OnRefs(chain, saved'.refs),
           SavedType', saved'.last = 0 => saved'.refs = {},
           Resume /\ saved'.last > 0 => base > 0 /\ Covers(scanned, base, saved'.last)
    PROVE  HInv'
<1>1. heads' = <<>> /\ work' = Idle /\ views' = {} /\ work'.pc = "idle"
  BY DEF EndSession, Idle
<1>2. saved' \in [last : 0..Bound.height, refs : SUBSET HeaderRef] /\ saved'.last \in Nat
  BY DEF SavedType
<1>3. OnRing(chain, c') /\ (saved'.refs = {} => c'.tip = NoRef)
  BY <1>2, RestoreStraight
<1>4. Straight'
  BY <1>1, <1>3 DEF Straight, OnHeads, OnViews, OnWork
<1>5. Ahead'
  BY <1>1 DEF Ahead, Rising, WorkUnder, FillUnder, TipUnder, Under
<1>6. Working(scanned', work', last')
  BY <1>1 DEF Working, Filling
<1>7. CASE Resume /\ saved'.last > 0
  <2>1. last' = saved'.last /\ scanned' = scanned /\ base' = base
    BY <1>7 DEF restore
  <2>2. Based' /\ SavedBased' /\ Covers(scanned', base', last')
    BY <1>1, <1>2, <1>7, <2>1 DEF Based, SavedBased
  <2> QED
    BY <1>4, <1>5, <1>6, <2>2 DEF HInv, Complete
<1>8. CASE ~(Resume /\ saved'.last > 0)
  <2>1. base' = 0 /\ scanned' = {}
    BY <1>8 DEF restore
  <2>2. last' = 0
    BY <1>2, <1>8 DEF restore
  <2>3. c'.tip = NoRef
    <3>1. CASE Resume
      BY <1>2, <1>3, <1>8, <3>1
    <3>2. CASE ~Resume
      BY <3>2 DEF restore, newChainState
    <3> QED
      BY <3>1, <3>2
  <2>4. Based' /\ SavedBased'
    BY <1>1, <1>8, <2>1, <2>2, <2>3 DEF Based, SavedBased
  <2> QED
    BY <1>4, <1>5, <1>6, <2>1, <2>4 DEF HInv, Complete
<1> QED
  BY <1>7, <1>8

\* A chain that only grows is followed without a hole.
LEMMA HeightsKept ==
    ASSUME Steady, IInv, Counted, Low, HInv, [Next]_vars PROVE HInv'
<1>1. Types
  BY DEF IInv
<1>2. ASSUME UNCHANGED <<chain, c, saved, heads, views, work, last, base, scanned>> PROVE HInv'
  <2>1. Straight' /\ Ahead'
    BY <1>2 DEF HInv, Straight, Ahead
  <2>2. Complete'
    BY <1>2 DEF HInv, Complete, Based, SavedBased
  <2> QED
    BY <2>1, <2>2 DEF HInv
<1>3. /\ OnRing(chain, c) /\ OnRefs(chain, saved.refs) /\ SavedBased /\ OnWork(chain, work)
      /\ Based /\ (base > 0 => Covers(scanned, base, last))
  BY DEF HInv, Straight, Complete
<1>4. CASE NodeStep
  <2>1. ASSUME NEW h \in Hash, Gossip(h) \/ Expire(h) PROVE HInv'
    BY <1>2, <2>1 DEF Gossip, Expire, world, memory, disk, history
  <2>2. CASE Finalize \/ Break \/ Mend
    BY <1>2, <2>2 DEF Finalize, Break, Mend, memory, disk, history
  <2> QED
    BY <1>1, <1>4, <2>1, <2>2, GrowHeights, NoReorgs DEF NodeStep
<1>5. CASE Fail
  <2>1. EndSession /\ UNCHANGED <<chain, c, saved, last, base, scanned>> /\ work.pc # "extended"
    BY <1>5 DEF Fail, Local, world, memory, disk
  <2> QED
    BY <2>1, EndHeights
<1>6. CASE Reconnect \/ UNCHANGED vars
  BY <1>2, <1>6 DEF Reconnect, vars, node, world, memory, disk, history
<1>7. CASE Crash
  <2>1. EndSession /\ saved' = saved /\ restore(saved') /\ chain' = chain
    BY <1>7 DEF Crash, disk
  <2>2. SavedType'
    BY <1>1, <2>1 DEF Types, SavedType
  <2> QED
    BY <1>3, <2>1, <2>2, RestartHeights DEF SavedBased
<1>8. CASE Stop
  <2>1. EndSession /\ saveState(last, c) /\ restore(saved') /\ chain' = chain
        /\ work.pc # "extended"
    BY <1>8 DEF Stop
  <2>2. SavedType' /\ last \in Nat /\ base \in Nat
    BY <1>1, <2>1, Typed, SaveTyped DEF Heights
  <2>3. \/ saved' = saved
        \/ saved' = [last |-> last, refs |-> snapshot(c)] /\ last # 0 /\ OnRefs(chain, saved'.refs)
    BY <1>1, <1>3, <2>1, SaveStraight
  <2>4. CASE saved' = saved
    BY <1>3, <2>1, <2>2, <2>4, RestartHeights DEF SavedBased
  <2>5. CASE saved' = [last |-> last, refs |-> snapshot(c)] /\ last # 0 /\ OnRefs(chain, saved'.refs)
    <3>1. saved'.last = last /\ last > 0 /\ base > 0
      BY <1>3, <2>2, <2>5 DEF Based
    <3> QED
      BY <1>3, <2>1, <2>2, <2>5, <3>1, RestartHeights
  <2> QED
    BY <2>3, <2>4, <2>5
<1>9. ASSUME NEW h \in Hash, Notify(h) PROVE HInv'
  <2>1. UNCHANGED <<chain, saved, heads, views, work, last, base, scanned>>
    BY <1>9 DEF Notify, node, world, history
  <2>2. c' = c
    <3>1. c' = Calling(Here, LAMBDA x : OnPending(x, h, CallLegs[h])).c
      BY <1>9 DEF Notify, Install
    <3>2. Calling(Here, LAMBDA x : OnPending(x, h, CallLegs[h])) =
            emitAll(Here, OnPending(t, h, CallLegs[h]))
      BY DEF Calling, Here
    <3>3. emitAll(Here, OnPending(t, h, CallLegs[h])).c = c
      BY DEF emitAll, Here
    <3> QED
      BY <3>1, <3>2, <3>3
  <2> QED
    BY <1>2, <2>1, <2>2
<1>10. CASE HandlerStep
  <2>1. ~Walk /\ ~RescanBlock /\ ~Rescanned
    BY <1>3 DEF Walk, RescanBlock, Rescanned, OnWork
  <2> QED
    BY <1>10, <2>1, ExtendBlockHeights, AdvanceHeights, CatchUpHeights, HeadHeights,
       DrainHeights, FillHeights, ConfirmationsBatch, RecheckBatch, LookupBatch, BatchHeights
       DEF HandlerStep
<1> QED
  BY <1>4, <1>5, <1>6, <1>7, <1>8, <1>9, <1>10, HeadHeights, ConfirmationsBatch, RecheckBatch,
     LookupBatch, BatchHeights DEF Next

\* What every step preserves says that no height is skipped.
LEMMA NothingSkipped == ASSUME Types, HInv PROVE NoSkippedHeight
BY DEF HInv, Complete, Covers, Has, NoSkippedHeight, Number

\* At first nothing is followed.
LEMMA InitHeights == ASSUME Init PROVE HInv
<1>1. /\ c = newChainState /\ saved = NoState /\ heads = <<>> /\ views = {} /\ work = Idle
      /\ last = 0 /\ base = 0 /\ scanned = {} /\ work.pc = "idle"
  BY DEF Init, Idle
<1>2. c.tip = NoRef /\ saved.last = 0 /\ saved.refs = {} /\ OnRing(chain, c)
  BY <1>1 DEF newChainState, NoState, OnRing
<1>3. Straight
  BY <1>1, <1>2 DEF Straight, OnRefs, OnHeads, OnViews, OnWork
<1>4. Ahead
  BY <1>1 DEF Ahead, Rising, WorkUnder, FillUnder, TipUnder, Under
<1>5. Complete
  BY <1>1, <1>2 DEF Complete, Working, Filling, Based, SavedBased
<1> QED
  BY <1>3, <1>4, <1>5 DEF HInv

-----------------------------------------------------------------------------
(* Finality, when it never decides against a block still to be handled *)

FInv == Lasting(Here) /\ Agreed

\* No block is added to those still to be handled but the node's own.
NoneNew == \A b \in Unhandled' : b \in Unhandled \/ b = chain'

\* What they are is in the queue, the views and the handler's place.
LEMMA FewerLeft ==
    ASSUME ToSet(heads') \subseteq ToSet(heads) \cup {chain'}, views' \subseteq views \cup {chain'},
           work'.pc \in {"extend", "catchup"} => work' = work \/ work'.head \in ToSet(heads)
    PROVE  NoneNew
BY DEF NoneNew, Unhandled

\* Where a handler holds no block.
Bare(w) == w.pc \notin {"extend", "catchup"}

\* The first head, and the others, are of the queue.
LEMMA QueueParts ==
    ASSUME heads \in Seq(Block)
    PROVE  /\ heads # <<>> => Head(heads) \in ToSet(heads)
           /\ heads # <<>> => ToSet(Tail(heads)) \subseteq ToSet(heads)
           /\ \A b \in Block : ToSet(Append(heads, b)) \subseteq ToSet(heads) \cup {b}
<1>1. heads # <<>> => 1 \in DOMAIN heads /\ Head(heads) = heads[1]
  OBVIOUS
<1>2. ASSUME heads # <<>> PROVE ToSet(Tail(heads)) \subseteq ToSet(heads)
  <2>1. \A i \in 1..Len(Tail(heads)) : Tail(heads)[i] = heads[i + 1] /\ i + 1 \in 1..Len(heads)
    BY <1>2
  <2>2. Tail(heads) \in Seq(Block)
    BY <1>2
  <2> QED
    BY <2>1, <2>2 DEF ToSet
<1>3. ASSUME NEW b \in Block PROVE ToSet(Append(heads, b)) \subseteq ToSet(heads) \cup {b}
  <2>1. Append(heads, b) \in Seq(Block) /\ Len(Append(heads, b)) = Len(heads) + 1
    OBVIOUS
  <2>2. \A i \in 1..(Len(heads) + 1) :
          Append(heads, b)[i] = IF i <= Len(heads) THEN heads[i] ELSE b
    OBVIOUS
  <2> QED
    BY <2>1, <2>2 DEF ToSet
<1> QED
  BY <1>1, <1>2, <1>3 DEF ToSet

\* A step that leaves the node's chain, and what it has finalized, alone.
LEMMA AgreedStays ==
    ASSUME Agreed, NoneNew, chain' = chain, final' = final
    PROVE  Agreed' /\ Decided' = Decided
<1>1. Agrees(chain, final)
  BY DEF Agrees
<1>2. \A b : Agrees(b, final)' <=> Agrees(b, final)
  BY DEF Agrees
<1> QED
  BY <1>1, <1>2 DEF Agreed, NoneNew, Decided

\* The rows, once a result is installed.
LEMMA InstallLasting ==
    ASSUME NEW s, Lasting(s), Lasting(Here), Install(s), chain' = chain, final' = final
    PROVE  Lasting(Here)'
<1>1. t' = s.t /\ db' = IF broken THEN db ELSE s.db
  BY DEF Install
<1>2. Numbered(s.t) /\ RowsNumbered(s.db) /\ RowsDecided(s.db) /\ RowsNumbered(db)
      /\ RowsDecided(db)
  BY DEF Lasting, Here
<1>3. RowsNumbered(db)' /\ RowsDecided(db)' /\ Numbered(t)'
  BY <1>1, <1>2 DEF RowsNumbered, RowsDecided, Numbered, Decided, IsMined
<1> QED
  BY <1>3 DEF Lasting, Here

\* Without one.
LEMMA RowsStay ==
    ASSUME Lasting(Here), t' = t, db' = db, Decided \subseteq Decided' PROVE Lasting(Here)'
<1>1. Numbered(t) /\ RowsNumbered(db) /\ RowsDecided(db)
  BY DEF Lasting, Here
<1>2. RowsNumbered(db)' /\ RowsDecided(db)' /\ Numbered(t)'
  BY <1>1 DEF RowsNumbered, RowsDecided, Numbered, IsMined
<1> QED
  BY <1>2 DEF Lasting, Here

\* The finalized part of the chain never changes, and agrees with what the
\* chain becomes.
LEMMA ChainFinal ==
    ASSUME chain \in Block, chain' \in Block, final \in Nat, final <= Len(chain),
           final <= Len(chain'), final' = final, \A i \in 1..final : chain'[i] = chain[i],
           Agreed, NoneNew
    PROVE  Agreed' /\ Decided' = Decided
<1>1. /\ chain \in Seq(Body) /\ Len(chain) \in Nat /\ chain' \in Seq(Body) /\ Len(chain') \in Nat
  BY BlockIsSeq DEF Heights
<1>2. ASSUME NEW b PROVE Agrees(b, final)' <=> Agrees(b, final)
  <2>1. \A i \in 1..Len(b) : i <= final => i \in 1..final
    BY <1>1
  <2> QED
    BY <2>1 DEF Agrees
<1>3. Agrees(chain', final)
  <2>1. \A i \in 1..Len(chain') : i <= final => i \in 1..final
    BY <1>1
  <2> QED
    BY <2>1 DEF Agrees
<1>4. BlockAt(chain', final) = BlockAt(chain, final)
  <2>1. \A i \in 1..final : chain[i] \in Body /\ chain'[i] \in Body
    BY <1>1
  <2>2. /\ \A i \in 1..(final - 1 + 1) : SubSeq(chain, 1, final)[i] = chain[1 + i - 1]
        /\ SubSeq(chain, 1, final) \in Seq(Body)
        /\ Len(SubSeq(chain, 1, final)) = IF 1 <= final THEN final - 1 + 1 ELSE 0
    BY <1>1, <2>1, SubSeqProperties
  <2>3. /\ \A i \in 1..(final - 1 + 1) : SubSeq(chain', 1, final)[i] = chain'[1 + i - 1]
        /\ SubSeq(chain', 1, final) \in Seq(Body)
        /\ Len(SubSeq(chain', 1, final)) = IF 1 <= final THEN final - 1 + 1 ELSE 0
    BY <1>1, <2>1, SubSeqProperties
  <2> DEFINE x == SubSeq(chain, 1, final)  y == SubSeq(chain', 1, final)
  <2>4. /\ x \in Seq(Body) /\ y \in Seq(Body) /\ Len(x) = final /\ Len(y) = final
        /\ \A i \in 1..final : x[i] = y[i]
    BY <1>1, <2>2, <2>3
  <2> HIDE DEF x, y
  <2>5. x = y
    BY <2>4
  <2> QED
    BY <2>5 DEF BlockAt, x, y
<1> QED
  BY <1>2, <1>3, <1>4 DEF Agreed, NoneNew, Decided

\* A session that ends leaves nothing.
LEMMA EndNoneNew == ASSUME EndSession PROVE NoneNew
<1>1. ToSet(heads') = {} /\ views' = {} /\ work'.pc = "idle"
  BY DEF EndSession, Idle, ToSet
<1> QED
  BY <1>1, FewerLeft

\* No handler adds a block but the node's own.
LEMMA BlocksNoneNew ==
    ASSUME IInv,
           \/ ExtendBlock \/ Extended \/ CatchUpHead \/ DrainHead \/ DrainBlock \/ FillBlock
           \/ CaughtUp \/ Walk \/ RescanBlock \/ Rescanned
    PROVE  NoneNew
<1>1. Types /\ heads \in Seq(Block)
  BY Typed DEF IInv
<1>2. ASSUME heads' = heads, views' \subseteq views \cup {chain}, chain' = chain, Bare(work')
      PROVE  NoneNew
  BY <1>2, FewerLeft DEF Bare
<1>3. CASE ExtendBlock \/ CatchUpHead
  <2>1. /\ heads' = heads /\ chain' = chain /\ views' \subseteq views \cup {chain}
        /\ Bare(work')
    BY <1>3 DEF ExtendBlock, CatchUpHead, Process, Fill, Bare, node, world
  <2> QED
    BY <1>2, <2>1
<1>4. CASE Extended \/ CaughtUp \/ Rescanned
  <2>1. /\ heads' = heads /\ chain' = chain /\ views' \subseteq views \cup {chain}
        /\ Bare(work')
    BY <1>4 DEF Extended, CaughtUp, Rescanned, Advance, Life, Bare, node, world
  <2> QED
    BY <1>2, <2>1
<1>5. CASE DrainHead
  <2>1. /\ heads # <<>> /\ heads' = Tail(heads) /\ views' = views /\ Bare(work')
    BY <1>5 DEF DrainHead, Bare
  <2>2. ToSet(heads') \subseteq ToSet(heads)
    BY <1>1, <2>1, QueueParts
  <2> QED
    BY <2>1, <2>2, FewerLeft DEF Bare
<1>6. CASE DrainBlock
  <2>1. CASE NotServed(work.g)
    BY <2>1, EndNoneNew DEF NotServed
  <2>2. CASE ~NotServed(work.g)
    <3>1. /\ heads' = heads /\ chain' = chain /\ views' = views
          /\ work' = IF work.g = work.to THEN [work.fill EXCEPT !.highest = work.to]
                     ELSE [work EXCEPT !.g = work.g + 1]
      BY <1>6, <2>2 DEF DrainBlock, Process, node, world
    <3>2. work \in [pc : {"drain"}, g : Heights, to : Heights, past : SUBSET Block, fill : FillWork]
      BY <1>1, <1>6, Typed, WorkCases DEF DrainBlock
    <3>3. Bare([work EXCEPT !.g = work.g + 1])
      BY <3>2 DEF Bare
    <3>4. Bare([work.fill EXCEPT !.highest = work.to])
      BY <3>2 DEF Bare, FillWork
    <3> QED
      BY <1>2, <3>1, <3>3, <3>4
  <2> QED
    BY <2>1, <2>2
<1>7. CASE FillBlock \/ RescanBlock
  <2>1. CASE EndSession
    BY <2>1, EndNoneNew
  <2>2. CASE ~EndSession
    <3>1. /\ heads' = heads /\ chain' = chain /\ views' = views
          /\ \/ work' = Life(work.highest, work.n, [work EXCEPT !.n = work.n - 1])
             \/ work.pc = "rescan" /\ work' = [work EXCEPT !.n = work.n + 1]
      BY <1>7, <2>2 DEF FillBlock, RescanBlock, Process, node, world
    <3>2. CASE work' = Life(work.highest, work.n, [work EXCEPT !.n = work.n - 1])
      <4>1. Bare(work')
        BY <3>2 DEF Life, Bare
      <4> QED
        BY <1>2, <3>1, <4>1
    <3>3. CASE work.pc = "rescan" /\ work' = [work EXCEPT !.n = work.n + 1]
      <4>1. work \in [pc : {"rescan"}, n : 1..(Bound.height + 1), to : Heights]
        BY <1>1, <3>3, Typed, WorkCases
      <4>2. Bare(work')
        BY <3>3, <4>1 DEF Bare
      <4> QED
        BY <1>2, <3>1, <4>2
    <3> QED
      BY <3>1, <3>2, <3>3
  <2> QED
    BY <2>1, <2>2
<1>8. CASE Walk
  <2>1. ASSUME NEW n, NotServed(n) PROVE NoneNew
    BY <2>1, EndNoneNew DEF NotServed
  <2>2. ASSUME NEW n, Reverted(n) PROVE NoneNew
    <3>1. /\ heads' = heads /\ chain' = chain /\ views' = {chain} /\ Bare(work')
      BY <2>2 DEF Reverted, Rescan, Bare, node, world
    <3> QED
      BY <1>2, <3>1
  <2>3. ASSUME NEW m, work' = [work EXCEPT !.from = m], UNCHANGED <<node, heads, views>>
        PROVE  NoneNew
    <3>1. work \in [pc : {"walk"}, head : Heights, from : 0..Bound.height]
      BY <1>1, <1>8, Typed, WorkCases DEF Walk
    <3>2. Bare(work') /\ chain' = chain /\ heads' = heads /\ views' = views
      BY <2>3, <3>1 DEF Bare, node, world
    <3> QED
      BY <1>2, <3>2
  <2> QED
    BY <1>8, <2>1, <2>2, <2>3 DEF Walk
<1> QED
  BY <1>3, <1>4, <1>5, <1>6, <1>7, <1>8

\* Nor do the lookups,
LEMMA BatchNoneNew == ASSUME IInv, Batch PROVE NoneNew
<1>1. work.next \in AfterLife
  BY Typed, WorkCases DEF IInv, Batch
<1>2. EndSession \/ Onward
  BY DEF Batch
<1>3. CASE Onward
  <2>1. Bare(work')
    BY <1>1, <1>3 DEF Onward, Bare, AfterLife, FillWork, Idle
  <2> QED
    BY <1>3, <2>1, FewerLeft DEF Onward, Bare
<1> QED
  BY <1>2, <1>3, EndNoneNew

\* and onHead takes the block it goes to handle from the queue.
LEMMA HeadNoneNew == ASSUME IInv, onHead PROVE NoneNew
<1>1. /\ heads \in Seq(Block) /\ heads # <<>> /\ heads' = Tail(heads) /\ views' = views
  BY Typed DEF IInv, onHead
<1>2. Bare(work') \/ work'.head = Head(heads)
  <2>1. Classified(Head(heads)) \in {"stale", "extend", "gap", "reorg"}
    BY DEF Classified, classify
  <2> QED
    BY <2>1 DEF onHead, Bare, Idle
<1> QED
  BY <1>1, <1>2, QueueParts, FewerLeft DEF Bare

\* The chain grows,
LEMMA ExtendFinal ==
    ASSUME IInv, FInv, NEW body \in Body, Extend(body) PROVE FInv'
<1> DEFINE ch == Append(chain, body)
<1>1. /\ Adopt(ch) /\ chain' = ch
      /\ heads' = heads \/ heads' = Append(heads, ch)
      /\ views' = {} \/ views' = views \cup {ch}
      /\ work' = work /\ final' = final /\ t' = t /\ db' = db
  BY DEF Extend, Announce, Coalesce, Adopt, memory, disk, rows
<1>2. chain \in Block /\ chain \in Seq(Body) /\ Len(chain) \in Nat /\ final \in Nat
      /\ final <= Len(chain) /\ heads \in Seq(Block)
  BY BlockIsSeq DEF IInv, Types, ChainType, QueueType, Heights
<1>3. ch \in Seq(Body) /\ Len(ch) = Len(chain) + 1 /\ \A i \in 1..Len(chain) : ch[i] = chain[i]
  BY <1>2
<1>4. chain' \in Block
  <2>1. Types'
    BY ExtendTyped DEF IInv
  <2> QED
    BY <2>1 DEF Types, ChainType
<1> HIDE DEF ch
<1>5. final <= Len(chain') /\ \A i \in 1..final : chain'[i] = chain[i]
  <2>1. chain' = ch /\ \A i \in 1..final : i \in 1..Len(chain)
    BY <1>1, <1>2
  <2> QED
    BY <1>2, <1>3, <2>1
<1>6. ToSet(heads') \subseteq ToSet(heads) \cup {chain'}
  <2>1. ch \in Block
    BY <1>1, <1>4
  <2>2. ToSet(Append(heads, ch)) \subseteq ToSet(heads) \cup {ch}
    BY <1>2, <2>1, QueueParts
  <2> QED
    BY <1>1, <2>2
<1>7. NoneNew
  <2>1. views' \subseteq views \cup {chain'} /\ work' = work
    BY <1>1
  <2> QED
    BY <1>6, <2>1, FewerLeft
<1>8. Agreed' /\ Decided' = Decided
  BY <1>1, <1>2, <1>4, <1>5, <1>7, ChainFinal DEF FInv
<1> QED
  BY <1>1, <1>8, RowsStay DEF FInv

\* or loses blocks that are not final.
LEMMA ReorgFinal ==
    ASSUME IInv, FInv, NEW k \in 1..Bound.height, NEW bodies \in Seq(Body), Reorg(k, bodies)
    PROVE  FInv'
<1> DEFINE base0 == BlockAt(chain, Len(chain) - k)
           ch == base0 \o bodies
<1>1. /\ Adopt(ch) /\ chain' = ch
      /\ heads' = heads \/ heads' = Append(heads, ch)
      /\ views' = {} \/ views' = views \cup {ch}
      /\ work' = work /\ final' = final /\ t' = t /\ db' = db
      /\ k <= Len(chain) - Len(Genesis) /\ k <= Len(chain) - final
  BY DEF Reorg, Announce, Coalesce, Adopt, memory, disk, rows
<1>2. chain \in Block /\ chain \in Seq(Body) /\ Len(chain) \in Heights /\ final \in Nat
      /\ Len(Genesis) \in Heights /\ final <= Len(chain) /\ heads \in Seq(Block)
  BY BlockIsSeq, IndexerAssumption DEF IInv, Types, ChainType, QueueType
<1>3. Len(chain) - k \in 1..Len(chain) /\ final <= Len(chain) - k
  BY <1>1, <1>2 DEF Heights
<1>4. base0 \in Seq(Body) /\ Len(base0) = Len(chain) - k
  BY <1>2, <1>3, PrefixBlock, BlockIsSeq
<1>5. \A i \in 1..final : base0[i] = chain[i]
  <2> DEFINE n == Len(chain) - k
  <2>1. n \in 1..Len(chain) /\ final <= n /\ n \in Nat
    BY <1>2, <1>3 DEF Heights
  <2>2. \A i \in 1..n : chain[i] \in Body
    BY <1>2, <2>1 DEF Heights
  <2> HIDE DEF n
  <2>3. \A i \in 1..(n - 1 + 1) : SubSeq(chain, 1, n)[i] = chain[1 + i - 1]
    BY <1>2, <2>1, <2>2, SubSeqProperties
  <2>4. \A i \in 1..final : BlockAt(chain, n)[i] = chain[i]
    BY <1>2, <2>1, <2>3 DEF BlockAt
  <2> QED
    BY <2>4 DEF n
<1>6. chain' \in Block
  <2>1. Types'
    BY ReorgTyped DEF IInv
  <2> QED
    BY <2>1 DEF Types, ChainType
<1>7. ch \in Seq(Body) /\ Len(ch) = Len(base0) + Len(bodies)
      /\ \A i \in 1..Len(base0) : ch[i] = base0[i]
  <2> HIDE DEF base0
  <2> QED
    BY <1>4
<1> HIDE DEF base0, ch
<1>8. final <= Len(chain') /\ \A i \in 1..final : chain'[i] = chain[i]
  <2>1. Len(bodies) \in Nat
    OBVIOUS
  <2>2. Len(base0) \in Nat /\ final <= Len(base0)
    BY <1>3, <1>4
  <2>3. final <= Len(ch) /\ \A i \in 1..final : i \in 1..Len(base0)
    BY <1>2, <1>7, <2>1, <2>2
  <2>4. chain' = ch
    BY <1>1
  <2> QED
    BY <1>5, <1>7, <2>3, <2>4
<1>9. ToSet(heads') \subseteq ToSet(heads) \cup {chain'}
  <2>1. ch \in Block
    BY <1>1, <1>6
  <2>2. ToSet(Append(heads, ch)) \subseteq ToSet(heads) \cup {ch}
    BY <1>2, <2>1, QueueParts
  <2> QED
    BY <1>1, <2>2
<1>10. NoneNew
  <2>1. views' \subseteq views \cup {chain'} /\ work' = work
    BY <1>1
  <2> QED
    BY <1>9, <2>1, FewerLeft
<1>11. Agreed' /\ Decided' = Decided
  BY <1>1, <1>2, <1>6, <1>8, <1>10, ChainFinal DEF FInv
<1> QED
  BY <1>1, <1>11, RowsStay DEF FInv

\* More of it is decided, in favour of what is still to be handled.
LEMMA FinalizeFinal ==
    ASSUME IInv, FInv, Finalize, ~FinalAhead PROVE FInv'
<1>1. /\ final' \in (final + 1)..Len(chain) /\ \A b \in Unhandled : Agrees(b, final')
      /\ UNCHANGED <<chain, heads, views, work, t, db>>
  BY DEF Finalize, memory, disk, rows
<1>2. chain \in Block /\ Len(chain) \in Nat /\ final \in Nat /\ final <= Len(chain)
      /\ final' \in Nat /\ final < final' /\ final' <= Len(chain)
  BY <1>1, BlockIsSeq DEF IInv, Types, ChainType, Heights
<1>3. Unhandled' = Unhandled
  BY <1>1 DEF Unhandled
<1>4. \A b : Agrees(b, final)' <=> Agrees(b, final')
  BY <1>1 DEF Agrees
<1>5. Agreed'
  BY <1>1, <1>3, <1>4 DEF Agreed
<1>6. Decided \subseteq Decided'
  <2>0. chain \in Seq(Body)
    BY <1>2, BlockIsSeq
  <2>1. \A n \in 0..Len(chain) : \A i \in 1..n : BlockAt(chain, n)[i] = chain[i]
    <3> SUFFICES ASSUME NEW n \in 0..Len(chain), NEW i \in 1..n PROVE BlockAt(chain, n)[i] = chain[i]
      OBVIOUS
    <3>1. n \in Int /\ 1 \in Int /\ n - 1 + 1 = n /\ 1 + i - 1 = i /\ \A j \in 1..n : chain[j] \in Body
      BY <1>2, <2>0
    <3>2. \A j \in 1..(n - 1 + 1) : SubSeq(chain, 1, n)[j] = chain[1 + j - 1]
      BY <2>0, <3>1, SubSeqProperties
    <3> QED
      BY <3>1, <3>2 DEF BlockAt
  <2>2. \A n \in 0..Len(chain) : Len(BlockAt(chain, n)) = n
    <3> SUFFICES ASSUME NEW n \in 0..Len(chain) PROVE Len(BlockAt(chain, n)) = n
      OBVIOUS
    <3>1. n \in Int /\ 1 \in Int /\ \A j \in 1..n : chain[j] \in Body
      BY <1>2, <2>0
    <3>2. Len(SubSeq(chain, 1, n)) = IF 1 <= n THEN n - 1 + 1 ELSE 0
      BY <2>0, <3>1, SubSeqProperties
    <3> QED
      BY <1>2, <3>1, <3>2 DEF BlockAt
  <2>3. final \in 0..Len(chain) /\ final' \in 0..Len(chain) /\ \A i \in 1..final : i \in 1..final'
    BY <1>2
  <2>4. Decided' = OnChain(BlockAt(chain, final'))
    BY <1>1 DEF Decided, OnChain, BlockAt
  <2> DEFINE m == final'  x == BlockAt(chain, final)  y == BlockAt(chain, m)
  <2>5. /\ Len(x) = final /\ Len(y) = m /\ final <= m
        /\ \A i \in 1..final : x[i] = chain[i] /\ y[i] = chain[i]
    BY <1>2, <2>1, <2>2, <2>3
  <2>6. final \in Nat /\ m \in Nat
    BY <1>2
  <2> HIDE DEF m, x, y
  <2>7. \A i \in 1..Len(x) : i \in 1..Len(y) /\ y[i] = x[i]
    BY <2>5, <2>6
  <2>8. OnChain(x) \subseteq OnChain(y)
    BY <2>7 DEF OnChain
  <2> QED
    BY <2>4, <2>8 DEF Decided, m, x, y
<1> QED
  BY <1>1, <1>5, <1>6, RowsStay DEF FInv

\* A step without a result,
LEMMA QuietFinal ==
    ASSUME FInv, NoneNew, UNCHANGED <<chain, final, t, db>> PROVE FInv'
BY AgreedStays, RowsStay DEF FInv

\* one whose result is,
LEMMA ResultFinal ==
    ASSUME FInv, NoneNew, NEW s, Lasting(s), Install(s), chain' = chain, final' = final
    PROVE  FInv'
BY AgreedStays, InstallLasting DEF FInv

\* and one that installs a method's.
LEMMA CallFinal ==
    ASSUME IInv, FInv, NoneNew, NEW r, Sound(r), Reports(t, r), Numbered(r.t), Earned(r),
           Install(emitAll(Here, r)), chain' = chain, final' = final
    PROVE  FInv'
<1>1. Here \in Handled /\ Here.t = t /\ Lasting(Here)
  BY HereHandled DEF Here, FInv
<1>2. Lasting(emitAll(Here, r))
  BY <1>1, EmitLasting
<1> QED
  BY <1>2, ResultFinal

\* A timer touches neither state nor block.
LEMMA ExpireFinal == ASSUME IInv, FInv, NEW h \in Hash, Expire(h) PROVE FInv'
<1>1. /\ t' = [t EXCEPT !.txs[h].stale = TRUE]
      /\ UNCHANGED <<chain, final, heads, views, work, db>>
  BY DEF Expire, world, disk, rows
<1>2. t \in TrackerState /\ t.txs \in [Hash -> Tx]
  BY DEF IInv, Stored, Good, TrackerState
<1>3. t'.txs = [t.txs EXCEPT ![h] = [t.txs[h] EXCEPT !.stale = TRUE]]
  BY <1>1, <1>2 DEF TrackerState
<1>4. \A g \in Hash : /\ t'.txs[g].state = t.txs[g].state /\ t'.txs[g].num = t.txs[g].num
                       /\ t'.txs[g].block = t.txs[g].block
  <2>1. t.txs[h] \in Tx
    BY <1>2
  <2>2. [t.txs[h] EXCEPT !.stale = TRUE].state = t.txs[h].state
    BY <2>1 DEF Tx
  <2>3. [t.txs[h] EXCEPT !.stale = TRUE].num = t.txs[h].num
    BY <2>1 DEF Tx
  <2>4. [t.txs[h] EXCEPT !.stale = TRUE].block = t.txs[h].block
    BY <2>1 DEF Tx
  <2> QED
    BY <1>2, <1>3, <2>2, <2>3, <2>4
<1>5. Numbered(t')
  BY <1>4 DEF FInv, Lasting, Here, Numbered, IsMined
<1>6. NoneNew /\ Decided' = Decided /\ Agreed'
  <2>1. NoneNew
    BY <1>1, FewerLeft
  <2> QED
    BY <1>1, <2>1, AgreedStays DEF FInv
<1>7. Lasting(Here)'
  <2>1. RowsNumbered(db) /\ RowsDecided(db)
    BY DEF FInv, Lasting, Here
  <2>2. RowsNumbered(db)' /\ RowsDecided(db)' /\ Numbered(t)'
    BY <1>1, <1>5, <1>6, <2>1 DEF RowsNumbered, RowsDecided, Numbered, IsMined
  <2> QED
    BY <2>2 DEF Lasting, Here
<1> QED
  BY <1>6, <1>7 DEF FInv

\* A process takes mined transactions from mined rows.
LEMMA RestoreFinal ==
    ASSUME IInv, FInv, EndSession, NEW state, restore(state), UNCHANGED <<chain, final, db>>
    PROVE  FInv'
<1> DEFINE from == [h \in Hash |-> IF h \in ActiveRows
                                   THEN [db[h].tx EXCEPT !.state = db[h].status] ELSE NoTx]
<1>1. t'.txs = from
  BY DEF restore, Import
<1>2. ASSUME NEW h \in Hash, from[h].state = "mined" PROVE from[h].num = Len(from[h].block)
  <2>1. h \in ActiveRows
    BY <1>2, NoTxStorable
  <2>2. db[h].tx \in Tx
    BY DEF IInv, Stored, SaneRows, RowType
  <2> DEFINE x == db[h].tx  y == [x EXCEPT !.state = db[h].status]
  <2>3. from[h] = y
    BY <2>1
  <2> HIDE DEF from
  <2>4. y.state = db[h].status /\ y.num = x.num /\ y.block = x.block
    <3> HIDE DEF x
    <3>1. x \in Tx
      BY <2>2 DEF x
    <3> QED
      BY <3>1 DEF Tx
  <2> HIDE DEF y
  <2>5. db[h].status = "mined"
    BY <1>2, <2>3, <2>4
  <2>6. x.num = Len(x.block)
    BY <2>5 DEF FInv, Lasting, Here, RowsNumbered
  <2> QED
    BY <2>3, <2>4, <2>6
<1> HIDE DEF from
<1>3. Numbered(t')
  BY <1>1, <1>2 DEF Numbered, IsMined
<1>4. Decided' = Decided /\ Agreed'
  BY EndNoneNew, AgreedStays DEF FInv
<1>5. Lasting(Here)'
  <2>1. RowsNumbered(db) /\ RowsDecided(db)
    BY DEF FInv, Lasting, Here
  <2>2. RowsNumbered(db)' /\ RowsDecided(db)' /\ Numbered(t)'
    BY <1>3, <1>4, <2>1 DEF RowsNumbered, RowsDecided, Numbered, IsMined
  <2> QED
    BY <2>2 DEF Lasting, Here
<1> QED
  BY <1>4, <1>5 DEF FInv

\* A notification, and a reorg's ancestor, install a method's result.
LEMMA NotifyFinal == ASSUME IInv, FInv, NEW h \in Hash, Notify(h) PROVE FInv'
<1> DEFINE r == OnPending(t, h, CallLegs[h])
<1>1. Good(t) /\ Numbered(t) /\ CallLegs[h] \in SUBSET LegKind
  BY IndexerAssumption DEF IInv, Stored, FInv, Lasting, Here, LegKind
<1>2. /\ Install(Calling(Here, LAMBDA x : OnPending(x, h, CallLegs[h])))
      /\ UNCHANGED <<chain, final, heads, views, work>>
  BY DEF Notify, node, world
<1>3. Calling(Here, LAMBDA x : OnPending(x, h, CallLegs[h])) = emitAll(Here, r)
  BY DEF Calling, Here
<1>4. Install(emitAll(Here, r))
  BY <1>2, <1>3
<1>5. Sound(r)
  BY <1>1, OnPendingSound
<1>6. Reports(t, r)
  BY <1>1, OnPendingReports DEF Keyed
<1>7. Numbered(r.t) /\ Earned(r)
  BY <1>1, OthersNumbered, OthersEarned
<1>8. NoneNew
  BY <1>2, FewerLeft
<1> HIDE DEF r
<1> QED
  BY <1>2, <1>4, <1>5, <1>6, <1>7, <1>8, CallFinal

LEMMA RevertedFinal ==
    ASSUME IInv, FInv, NoneNew, NEW ancestor, Reverted(ancestor) PROVE FInv'
<1> DEFINE R == AboveAncestor(t, ancestor)
           r == DemoteAll(t, R)
<1>1. Good(t) /\ Numbered(t)
  BY DEF IInv, Stored, FInv, Lasting, Here
<1>2. Install(Calling(Here, LAMBDA x : OnReorg(x, ancestor))) /\ chain' = chain /\ final' = final
  BY DEF Reverted, node, world
<1>3. Calling(Here, LAMBDA x : OnReorg(x, ancestor)) = emitAll(Here, OnReorg(t, ancestor))
  BY DEF Calling, Here
<1>4. OnReorg(t, ancestor) = r
  BY DEF OnReorg
<1>5. R \in SUBSET Hash /\ \A h \in R : IsMined(t, h)
  BY DEF AboveAncestor
<1>6. Numbered(r.t) /\ Earned(r)
  <2>1. Earned(OnReorg(t, ancestor))
    BY OthersEarned
  <2>2. Numbered(OnReorg(t, ancestor).t)
    <3>1. CASE Hash = {}
      BY <3>1 DEF Numbered
    <3>2. ASSUME NEW h \in Hash PROVE Numbered(OnReorg(t, ancestor).t)
      BY <1>1, OthersNumbered
    <3> QED
      BY <3>1, <3>2
  <2> QED
    BY <1>4, <2>1, <2>2
<1> HIDE DEF R
<1>7. Sound(r)
  BY <1>1, <1>5, DemoteAllSound
<1>8. Reports(t, r)
  BY <1>1, <1>5, DemoteAllReports
<1>9. Install(emitAll(Here, r))
  BY <1>2, <1>3, <1>4
<1> HIDE DEF r
<1> QED
  BY <1>2, <1>6, <1>7, <1>8, <1>9, CallFinal

\* A processed block that agrees decides its transactions.
LEMMA ProcessFinal ==
    ASSUME TagMode, IInv, FInv, NoneNew, NEW b \in Block, Processes(b), Agrees(b, final),
           chain' = chain, final' = final
    PROVE  FInv'
<1>1. /\ chain \in Block /\ final \in Nat /\ final <= Len(chain) /\ Len(chain) \in Nat
      /\ fin \in 0..final
  BY BlockIsSeq DEF IInv, Types, ChainType, Heights
<1>2. Here \in Within(c) /\ Lasting(Here) /\ Finality
  BY <1>1, HereHandled DEF Within, FInv, Finality
<1>3. Decides(b)
  <2> SUFFICES ASSUME Number(b) <= final PROVE TxsOf(b) \subseteq Decided
    BY DEF Decides
  <2>1. Len(b) \in 1..final
    BY <1>1, BlockNumber DEF Number, Heights
  <2>2. b[Len(b)] = chain[Len(b)]
    BY <1>1, <2>1 DEF Agrees
  <2> QED
    BY <1>1, <2>1, <2>2, FinalDecides DEF TxsOf
<1>4. PICK mode \in ScanModes(b), open \in MayStayOpen(b) : Install(processBlock(Here, b, mode, open))
  BY DEF Processes
<1>5. Lasting(processBlock(Here, b, mode, open))
  BY <1>2, <1>3, ProcessedHandled
<1> QED
  BY <1>4, <1>5, ResultFinal

\* What a batch finds, it reads on the node's chain.
LEMMA BatchFinal == ASSUME TagMode, IInv, FInv, Batch PROVE FInv'
<1>1. NoneNew /\ chain' = chain /\ final' = final
  BY BatchNoneNew DEF Batch
<1>2. PICK s : Install(s) /\ Lasting(s)
  BY DEF Batch, FInv
<1> QED
  BY <1>1, <1>2, ResultFinal

\* Every step of a handler,
LEMMA HandlerFinal == ASSUME TagMode, IInv, FInv, HandlerStep PROVE FInv'
<1>1. CASE ExtendBlock \/ CatchUpHead \/ DrainBlock \/ FillBlock \/ RescanBlock
  <2>1. chain' = chain /\ final' = final
    BY <1>1 DEF ExtendBlock, CatchUpHead, DrainBlock, FillBlock, RescanBlock, NotServed, node, world
  <2>2. NoneNew
    BY <1>1, BlocksNoneNew
  <2>3. ASSUME NEW b \in Block, Processes(b), Near(b) PROVE FInv'
    BY <2>1, <2>2, <2>3, ProcessFinal DEF Near, FInv
  <2> QED
    BY <1>1, <2>1, <2>2, <2>3, BlockProcessed, QuietFinal
<1>2. CASE Extended \/ DrainHead \/ CaughtUp \/ Rescanned
  <2>1. UNCHANGED <<chain, final, t, db>>
    BY <1>2 DEF Extended, DrainHead, CaughtUp, Rescanned, node, world, memory, disk, rows
  <2>2. NoneNew
    BY <1>2, BlocksNoneNew
  <2> QED
    BY <2>1, <2>2, QuietFinal
<1>3. CASE Walk
  <2>1. NoneNew
    BY <1>3, BlocksNoneNew
  <2>2. ASSUME NEW n, NotServed(n) PROVE UNCHANGED <<chain, final, t, db>>
    BY <2>2 DEF NotServed, world, memory, disk, rows
  <2>3. ASSUME NEW n, Reverted(n) PROVE FInv'
    BY <2>1, <2>3, RevertedFinal
  <2>4. UNCHANGED <<chain, final, t, db>> \/ \E n : Reverted(n)
    BY <1>3, <2>2 DEF Walk, node, world, memory, disk, rows
  <2> QED
    BY <2>1, <2>3, <2>4, QuietFinal
<1>4. ASSUME Batch PROVE FInv'
  BY <1>4, BatchFinal
<1> QED
  BY <1>1, <1>2, <1>3, <1>4, ConfirmationsBatch, RecheckBatch, LookupBatch DEF HandlerStep

\* of the node,
LEMMA NodeFinal == ASSUME ~FinalAhead, IInv, FInv, NodeStep PROVE FInv'
<1>1. \A body \in Body : <<body>> \in Seq(Body)
  OBVIOUS
<1>2. \A b1, b2 \in Body : <<b1, b2>> \in Seq(Body)
  OBVIOUS
<1>3. ASSUME NEW h \in Hash, Gossip(h) PROVE FInv'
  <2>1. UNCHANGED <<chain, final, t, db, heads, views, work>>
    BY <1>3 DEF Gossip, world, memory, disk, rows
  <2> QED
    BY <2>1, FewerLeft, QuietFinal
<1>4. CASE Break \/ Mend
  <2>1. UNCHANGED <<chain, final, t, db, heads, views, work>>
    BY <1>4 DEF Break, Mend, memory, disk, rows
  <2> QED
    BY <2>1, FewerLeft, QuietFinal
<1> QED
  BY <1>1, <1>2, <1>3, <1>4, ExtendFinal, ReorgFinal, ExpireFinal, FinalizeFinal DEF NodeStep

\* and any other.
LEMMA FinalStays == ASSUME ~FinalAhead, TagMode, IInv, FInv, [Next]_vars PROVE FInv'
<1>1. CASE Fail
  <2>1. EndSession /\ UNCHANGED <<chain, final, t, db>>
    BY <1>1 DEF Fail, world, memory, disk, rows
  <2> QED
    BY <2>1, EndNoneNew, QuietFinal
<1>2. CASE Reconnect \/ UNCHANGED vars
  <2>1. UNCHANGED <<chain, final, t, db, heads, views, work>>
    BY <1>2 DEF Reconnect, vars, node, world, memory, disk, rows
  <2> QED
    BY <2>1, FewerLeft, QuietFinal
<1>3. CASE Crash \/ Stop
  <2>1. EndSession /\ UNCHANGED <<chain, final, db>> /\ \E state : restore(state)
    BY <1>3 DEF Crash, Stop, disk, rows
  <2> QED
    BY <2>1, RestoreFinal
<1>4. CASE onHead
  <2>1. UNCHANGED <<chain, final, t, db>>
    BY <1>4 DEF onHead, node, world, memory, disk, rows
  <2> QED
    BY <1>4, <2>1, HeadNoneNew, QuietFinal
<1>5. ASSUME Batch PROVE FInv'
  BY <1>5, BatchFinal
<1> QED
  BY <1>1, <1>2, <1>3, <1>4, <1>5, NodeFinal, HandlerFinal, NotifyFinal, ConfirmationsBatch,
     RecheckBatch, LookupBatch DEF Next

\* Nothing is stored, or announced, at first.
LEMMA InitFinal == ASSUME Init PROVE FInv
<1>1. t = NewTracker /\ db = [h \in Hash |-> NoRow] /\ Unhandled = {}
  <2>1. ToSet(heads) = {} /\ views = {} /\ work.pc = "idle"
    BY DEF Init, ToSet
  <2> QED
    BY <2>1 DEF Init, Unhandled
<1>2. \A h \in Hash : t.txs[h].state = "none" /\ db[h].status = "none"
  BY <1>1, NoTxStorable DEF NewTracker, NoRow
<1> QED
  BY <1>1, <1>2 DEF FInv, Agreed, Lasting, Here, Numbered, IsMined, RowsNumbered, RowsDecided

-----------------------------------------------------------------------------
(* The ring, on a chain that reorgs, while every head is heard *)

\* A fork, or a lower head, is found above the ring's floor: findAncestor
\* never gives up on a header that the node does not have any more.
InReach ==
    work.pc = "walk" /\ NextChunk(c, work.from) = {} =>
        /\ floorOf(c) < work.head
        /\ \A n \in 0..floorOf(c) : Held(c, n) => Canonical(at(c, n).hash)

\* The heads that wait rise one by one at most, up to the node's, and none is of
\* the head before it.
NoneAbove(n, hs) == hs # <<>> => Len(Head(hs)) <= n + 1
Queued(ch, hs) ==
    /\ \A i \in 1..(Len(hs) - 1) : Len(hs[i + 1]) <= Len(hs[i]) + 1 /\ ~Holds(hs[i], hs[i + 1])
    /\ hs # <<>> => hs[Len(hs)] = ch

\* Block b is behind them: it is the node's head, or the first of them is not of
\* it, or it is of one of them.
Behind(ch, hs, b) ==
    IF hs = <<>> THEN b = ch
    ELSE ~Holds(b, Head(hs)) \/ \E i \in 1..Len(hs) : Holds(hs[i], b)

\* The headers of the ring, and its tip's slot.
Header(r) == r.num = Len(r.hash)
Headers(ring) ==
    /\ \A i \in 0..(RingSize - 1) : ring.refs[i] # NoRef => Header(ring.refs[i])
    /\ IF ring.tip = NoRef THEN \A i \in 0..(RingSize - 1) : ring.refs[i] = NoRef
       ELSE ring.refs[ring.tip.num % RingSize] = ring.tip

\* The headers up to number n are ancestors of b, or b.
OnLine(ring, b, n) == \A m \in 0..n : Held(ring, m) => Holds(b, at(ring, m).hash)

\* Those up to the tip are its ancestors, and lastProcessed is its number.
Lined(ring) == ring.tip # NoRef => OnLine(ring, ring.tip.hash, ring.tip.num)
Standing(ring, l) == Lined(ring) /\ l = IF ring.tip = NoRef THEN 0 ELSE ring.tip.num

\* No head is far above the tip, which is the node's head once none waits.
Arrived(ch, hs, ring) ==
    ring.tip # NoRef => NoneAbove(ring.tip.num, hs) /\ Behind(ch, hs, ring.tip.hash)

\* The same of a handler that works for the head numbered n.
Target(ch, hs, n) == NoneAbove(n, hs) /\ (hs = <<>> => Len(ch) = n)

\* headExtend: the head that follows the tip.
Extending(ch, hs, b, ring) ==
    /\ NoneAbove(Len(b), hs) /\ Behind(ch, hs, b)
    /\ ring.tip # NoRef => Len(b) = ring.tip.num + 1 /\ Holds(b, ring.tip.hash)

\* findAncestor, from a number below the head's and the tip's.
Walking(ch, hs, w, ring, l) ==
    /\ Standing(ring, l) /\ ring.tip # NoRef /\ Target(ch, hs, w.head)
    /\ w.from <= w.head /\ w.from <= ring.tip.num

\* processRange has come to number n: the headers below are of the chain.
Rescanning(ch, hs, w, vs, ring) ==
    /\ ring.tip # NoRef /\ Target(ch, hs, w.to) /\ OnLine(ring, ch, w.n - 1)
    /\ ring.tip.num < w.n + RingSize
    /\ w.n > w.to => Held(ring, w.to)
    /\ \A v \in vs : Holds(ch, v)

Handling == {"extend", "extended", "walk", "rescan"}
Settling == {"life", "recheck", "lookup"}

OnTrack(ch, hs, w, vs, ring, l) ==
    /\ w.pc \in {"idle"} \cup Settling \cup Handling
    /\ w.pc \in {"idle"} \cup Settling => Standing(ring, l) /\ Arrived(ch, hs, ring)
    /\ w.pc \in Settling => w.next = Idle
    /\ w.pc = "extend" => Standing(ring, l) /\ Extending(ch, hs, w.head, ring)
    /\ w.pc = "extended" => /\ Lined(ring) /\ Arrived(ch, hs, ring)
                            /\ ring.tip # NoRef /\ ring.tip.num = w.head
    /\ w.pc = "walk" => Walking(ch, hs, w, ring, l)
    /\ w.pc = "rescan" => Rescanning(ch, hs, w, vs, ring)
    /\ vs # {} <=> w.pc = "rescan"

RInv == heard => /\ conn /\ Queued(chain, heads) /\ Headers(c)
                 /\ OnTrack(chain, heads, work, views, c, last)

-----------------------------------------------------------------------------
\* A block of a block of the chain is of the chain;
LEMMA HeldOn ==
    ASSUME NEW ch \in Block, NEW b \in Block, NEW d \in Block, Holds(ch, b), Holds(b, d)
    PROVE  Holds(ch, d)
<1>1. Len(d) \in 1..Len(b) /\ d = BlockAt(b, Len(d))
  BY BlockIsSeq DEF Holds, Heights
<1>2. Holds(ch, BlockAt(b, Len(d)))
  BY <1>1, HeldPrefix
<1> QED
  BY <1>1, <1>2

\* of two of the same chain the shorter is of the longer;
LEMMA HeldBelow ==
    ASSUME NEW ch \in Block, NEW b \in Block, NEW d \in Block, Holds(ch, b), Holds(ch, d),
           Len(d) <= Len(b)
    PROVE  Holds(b, d)
<1>1. Len(d) \in 1..Len(b)
  BY BlockIsSeq DEF Heights
<1>2. BlockAt(b, Len(d)) = BlockAt(ch, Len(d))
  BY <1>1, HeldPrefix
<1> QED
  BY <1>2 DEF Holds

\* one that is as long is the same.
LEMMA HeldWhole ==
    ASSUME NEW ch \in Block, NEW b \in Block, Holds(ch, b), Len(ch) <= Len(b)
    PROVE  b = ch
<1>1. Len(b) = Len(ch) /\ ch \in Seq(Body)
  BY BlockIsSeq DEF Holds, Heights
<1>2. SubSeq(ch, 1, Len(ch)) = ch
  BY <1>1, SubSeqFull
<1> QED
  BY <1>1, <1>2 DEF Holds, BlockAt

\* A block of the chain has the bodies of the chain.
LEMMA HeldBodies ==
    ASSUME NEW ch \in Block, NEW b \in Block, Holds(ch, b)
    PROVE  \A i \in 1..Len(b) : b[i] = ch[i]
<1>1. /\ ch \in Seq(Body) /\ Len(b) \in 1..Len(ch) /\ Len(b) \in Nat
  BY BlockIsSeq DEF Holds, Heights
<1>2. \A i \in 1..Len(b) : ch[i] \in Body
  BY <1>1
<1>3. \A i \in 1..(Len(b) - 1 + 1) : SubSeq(ch, 1, Len(b))[i] = ch[1 + i - 1]
  BY <1>1, <1>2, SubSeqProperties
<1> QED
  BY <1>1, <1>3 DEF Holds, BlockAt

\* What the ring holds, by slot and by number.
LEMMA HeaderFacts ==
    ASSUME NEW ring \in Ring, Headers(ring)
    PROVE  /\ \A i \in 0..(RingSize - 1) : ring.refs[i] # NoRef =>
                /\ ring.refs[i].hash \in Block
                /\ ring.refs[i].num = Len(ring.refs[i].hash) /\ ring.refs[i].num \in Heights
           /\ \A n \in Nat : n % RingSize \in 0..(RingSize - 1)
           /\ \A n \in Nat : Held(ring, n) =>
                /\ at(ring, n) = ring.refs[n % RingSize] /\ at(ring, n).num = n
                /\ at(ring, n) # NoRef
           /\ ring.tip # NoRef =>
                /\ ring.tip.hash \in Block
                /\ ring.tip.num = Len(ring.tip.hash) /\ ring.tip.num \in Heights
                /\ Held(ring, ring.tip.num) /\ at(ring, ring.tip.num) = ring.tip
<1>1. \A n \in Nat : n % RingSize \in 0..(RingSize - 1)
  BY RingAssumption
<1>2. \A i \in 0..(RingSize - 1) : ring.refs[i] # NoRef =>
                /\ ring.refs[i].hash \in Block
                /\ ring.refs[i].num = Len(ring.refs[i].hash) /\ ring.refs[i].num \in Heights
  <2>1. \A i \in 0..(RingSize - 1) : ring.refs[i] # NoRef => ring.refs[i] \in HeaderRef
    BY DEF Ring
  <2>2. \A i \in 0..(RingSize - 1) : ring.refs[i] # NoRef => Header(ring.refs[i])
    BY DEF Headers
  <2> QED
    BY <2>1, <2>2 DEF HeaderRef, Header
<1>3. \A n \in Nat : Held(ring, n) =>
                /\ at(ring, n) = ring.refs[n % RingSize] /\ at(ring, n).num = n
                /\ at(ring, n) # NoRef
  BY DEF Held, at
<1>4. ASSUME ring.tip # NoRef
      PROVE  /\ ring.tip.hash \in Block
             /\ ring.tip.num = Len(ring.tip.hash) /\ ring.tip.num \in Heights
             /\ Held(ring, ring.tip.num) /\ at(ring, ring.tip.num) = ring.tip
  <2>1. ring.tip.num \in Nat
    BY <1>4, RingNumbers DEF Heights
  <2>2. ring.refs[ring.tip.num % RingSize] = ring.tip
    BY <1>4 DEF Headers
  <2>3. ring.tip.num % RingSize \in 0..(RingSize - 1)
    BY <1>1, <2>1
  <2> QED
    BY <1>2, <1>4, <2>2, <2>3 DEF Held, at
<1> QED
  BY <1>1, <1>2, <1>3, <1>4

-----------------------------------------------------------------------------
\* A step that leaves all of this alone keeps it,
LEMMA TrackStays ==
    ASSUME RInv, UNCHANGED <<chain, heads, conn, work, views, c, last, heard>>
    PROVE  RInv'
BY DEF RInv

\* and so does one that ends the session.
LEMMA TrackEnds ==
    ASSUME EndSession PROVE RInv'
BY DEF RInv, EndSession

\* A chain that becomes another keeps what it needs of the old one.
LEMMA AdoptTrack ==
    ASSUME Types, RInv, heard, NEW new \in Block, chain' = new, Len(new) <= Len(chain) + 1,
           heads' = Append(heads, new), views' = (IF views = {} THEN {} ELSE views \cup {new}),
           views = {} \/ \A b \in Block : Holds(chain, b) => Holds(new, b),
           ~Holds(chain, new),
           UNCHANGED <<work, c, last>>
    PROVE  /\ Queued(chain', heads') /\ Headers(c')
           /\ OnTrack(chain', heads', work', views', c', last')
<1> DEFINE hs == Append(heads, new)
<1>1. /\ chain \in Block /\ Len(chain) \in Nat /\ heads \in Seq(Block) /\ work \in Work /\ c \in Ring
      /\ views \in SUBSET Block /\ Len(new) \in Nat
  BY Typed, BlockIsSeq DEF Heights
<1>2. /\ Queued(chain, heads) /\ Headers(c)
      /\ OnTrack(chain, heads, work, views, c, last)
  BY DEF RInv
<1>3. /\ hs \in Seq(Block) /\ Len(hs) = Len(heads) + 1 /\ hs[Len(heads) + 1] = new
      /\ \A i \in 1..Len(heads) : hs[i] = heads[i] /\ heads[i] \in Block
      /\ Len(heads) \in Nat /\ hs # <<>>
  BY <1>1, AppendProperties
<1>4. heads # <<>> => Head(hs) = Head(heads)
  BY <1>1, <1>3
<1>5. heads = <<>> => Head(hs) = new
  BY <1>1, <1>3
<1> HIDE DEF hs
<1>6. Queued(new, hs)
  <2>1. ASSUME NEW i \in 1..(Len(hs) - 1)
        PROVE  Len(hs[i + 1]) <= Len(hs[i]) + 1 /\ ~Holds(hs[i], hs[i + 1])
    <3>1. CASE i = Len(heads)
      <4>1. hs[i] = chain /\ hs[i + 1] = new
        BY <1>2, <1>3, <3>1 DEF Queued
      <4> QED
        BY <4>1
    <3>2. CASE i # Len(heads)
      <4>1. i \in 1..(Len(heads) - 1) /\ i \in 1..Len(heads) /\ i + 1 \in 1..Len(heads)
        BY <1>3, <3>2
      <4> QED
        BY <1>2, <1>3, <4>1 DEF Queued
    <3> QED
      BY <3>1, <3>2
  <2>2. hs[Len(hs)] = new
    BY <1>3
  <2> QED
    BY <2>1, <2>2 DEF Queued
<1>7. \A b \in Block : Behind(chain, heads, b) => Behind(new, hs, b)
  <2> SUFFICES ASSUME NEW b \in Block, Behind(chain, heads, b),
                      Holds(b, Head(hs)), \A i \in 1..Len(hs) : ~Holds(hs[i], b)
               PROVE  FALSE
    BY <1>3 DEF Behind
  <2>1. CASE heads = <<>>
    BY <1>5, <2>1 DEF Behind
  <2>2. CASE heads # <<>>
    <3>1. PICK i \in 1..Len(heads) : Holds(heads[i], b)
      BY <1>4, <2>2 DEF Behind
    <3>2. i \in 1..Len(hs) /\ hs[i] = heads[i]
      BY <1>3
    <3> QED
      BY <3>1, <3>2
  <2> QED
    BY <2>1, <2>2
<1>8. \A n \in Nat : NoneAbove(n, heads) /\ (heads = <<>> => Len(chain) <= n) => NoneAbove(n, hs)
  BY <1>1, <1>3, <1>4, <1>5 DEF NoneAbove
<1>9. c.tip # NoRef => c.tip.num \in Nat /\ c.tip.num = Len(c.tip.hash) /\ c.tip.hash \in Block
  <2>1. c.tip # NoRef =>
          c.tip.num \in Heights /\ c.tip.num = Len(c.tip.hash) /\ c.tip.hash \in Block
    BY <1>1, <1>2, HeaderFacts
  <2> QED
    BY <2>1 DEF Heights
<1>10. Arrived(chain, heads, c) => Arrived(new, hs, c)
  <2>1. \A b \in Block : heads = <<>> /\ Behind(chain, heads, b) => Len(chain) <= Len(b)
    BY <1>1 DEF Behind
  <2> QED
    BY <1>7, <1>8, <1>9, <2>1 DEF Arrived
<1>11. \A n \in Nat : Target(chain, heads, n) => Target(new, hs, n)
  BY <1>1, <1>3, <1>8 DEF Target
<1>12. ASSUME work.pc = "extend" PROVE Extending(new, hs, work.head, c)
  <2>1. work.head \in Block /\ Len(work.head) \in Nat
    BY <1>1, <1>12, WorkCases, BlockIsSeq DEF Heights
  <2>2. Extending(chain, heads, work.head, c)
    BY <1>2, <1>12 DEF OnTrack
  <2>3. heads = <<>> => Len(chain) <= Len(work.head)
    BY <1>1, <2>2 DEF Extending, Behind
  <2> QED
    BY <1>7, <1>8, <2>1, <2>2, <2>3 DEF Extending
<1>13. ASSUME work.pc = "walk" PROVE Walking(new, hs, work, c, last)
  <2>1. work.head \in Nat
    BY <1>1, <1>13, WorkCases DEF Heights
  <2> QED
    BY <1>2, <1>11, <1>13, <2>1 DEF OnTrack, Walking
<1>14. ASSUME work.pc = "rescan" PROVE Rescanning(new, hs, work, views', c)
  <2>1. work.to \in Nat
    BY <1>1, <1>14, WorkCases DEF Heights
  <2>2. views # {} /\ Rescanning(chain, heads, work, views, c)
    BY <1>2, <1>14 DEF OnTrack
  <2>3. \A b \in Block : Holds(chain, b) => Holds(new, b)
    BY <2>2
  <2>4. \A v \in views' : Holds(new, v)
    BY <1>1, <2>2, <2>3, HeldSelf DEF Rescanning
  <2>5. OnLine(c, new, work.n - 1)
    <3>1. \A m \in Nat : Held(c, m) => at(c, m).hash \in Block
      BY <1>1, RingNumbers DEF HeaderRef
    <3>2. work.n \in Nat
      BY <1>1, <1>14, WorkCases
    <3>3. \A m \in 0..(work.n - 1) : m \in Nat
      BY <3>2
    <3> QED
      BY <2>2, <2>3, <3>1, <3>3 DEF Rescanning, OnLine
  <2> QED
    BY <1>11, <2>1, <2>2, <2>4, <2>5 DEF Rescanning
<1>15. OnTrack(new, hs, work, views', c, last)
  BY <1>2, <1>10, <1>12, <1>13, <1>14 DEF OnTrack
<1> QED
  BY <1>2, <1>6, <1>15 DEF hs

\* The node's chain grows,
LEMMA ExtendTrack == ASSUME Types, RInv, NEW body \in Body, Extend(body) PROVE RInv'
<1> DEFINE new == Append(chain, body)
<1>1. /\ chain' = new
      /\ views' = (IF views = {} THEN {} ELSE views \cup {new})
      /\ UNCHANGED <<conn, work, c, last>>
      /\ heard' => heard /\ (conn => heads' = Append(heads, new))
  BY DEF Extend, Announce, Coalesce, Adopt, memory
<1>2. chain \in Block /\ chain \in Seq(Body) /\ Len(chain) \in Nat
  BY BlockIsSeq, Typed DEF Heights
<1>3. new \in Block /\ Len(new) = Len(chain) + 1
  <2>1. Types'
    BY ExtendTyped
  <2>2. chain' \in Block
    BY <2>1 DEF Types, ChainType
  <2> QED
    BY <1>1, <1>2, <2>2, AppendProperties
<1>4. \A b \in Block : Holds(chain, b) => Holds(new, b)
  BY <1>2, HeldGrows
<1> HIDE DEF new
<1>5. ~Holds(chain, new)
  BY <1>2, <1>3 DEF Holds
<1>6. ASSUME heard'
      PROVE  /\ conn' /\ Queued(chain', heads') /\ Headers(c')
             /\ OnTrack(chain', heads', work', views', c', last')
  <2>1. heard /\ conn /\ heads' = Append(heads, new)
    BY <1>1, <1>6 DEF RInv
  <2>2. /\ views = {} \/ \A b \in Block : Holds(chain, b) => Holds(new, b)
        /\ ~Holds(chain, new) /\ Len(new) <= Len(chain) + 1
    BY <1>2, <1>3, <1>4, <1>5
  <2>3. /\ Queued(chain', heads') /\ Headers(c')
        /\ OnTrack(chain', heads', work', views', c', last')
    BY <1>1, <1>3, <2>1, <2>2, AdoptTrack
  <2> QED
    BY <1>1, <2>1, <2>3
<1> QED
  BY <1>6 DEF RInv

\* or some of it is replaced, while nothing is prefetched.
LEMMA ReorgTrack ==
    ASSUME ~MidScan, Types, RInv, NEW k \in 1..Bound.height, NEW bodies \in Seq(Body),
           Len(bodies) \in 1..2, Reorg(k, bodies)
    PROVE  RInv'
<1> DEFINE m == Len(chain) - k
           base0 == BlockAt(chain, m)
           new == base0 \o bodies
<1>1. /\ Adopt(new) /\ chain' = new /\ views = {} /\ views' = {}
      /\ UNCHANGED <<conn, work, c, last>> /\ bodies[1] # chain[m + 1]
      /\ heard' => heard /\ (conn => heads' = Append(heads, new))
      /\ k <= Len(chain) - Len(Genesis)
  <2>1. Adopt(new) /\ views = {} /\ bodies[1] # chain[m + 1] /\ k <= Len(chain) - Len(Genesis)
    BY DEF Reorg
  <2>2. heard' => heard /\ (conn => heads' = Append(heads, chain'))
    BY DEF Reorg, Announce, Coalesce
  <2> HIDE DEF new
  <2> QED
    BY <2>1, <2>2 DEF Adopt, memory
<1>2. /\ chain \in Block /\ chain \in Seq(Body) /\ Len(chain) \in Nat /\ Len(Genesis) \in Heights
  BY BlockIsSeq, Typed, IndexerAssumption DEF Heights, RInv
<1>3. /\ m \in 1..Len(chain) /\ m \in Nat /\ m + 1 \in 1..Len(chain) /\ k \in Nat /\ k >= 1
  BY <1>1, <1>2 DEF Heights
<1>4. /\ base0 \in Seq(Body) /\ Len(base0) = m /\ \A i \in 1..m : base0[i] = chain[i]
  <2>1. base0 \in Block /\ Len(base0) = m /\ Holds(chain, base0)
    BY <1>2, <1>3, PrefixBlock, HeldSelf
  <2> HIDE DEF base0
  <2> QED
    BY <1>2, <2>1, BlockIsSeq, HeldBodies
<1>5. new \in Block
  <2>1. Types'
    BY ReorgTyped
  <2> QED
    BY <1>1, <2>1 DEF Types, ChainType
<1> HIDE DEF base0
<1> HIDE DEF m
<1>6. /\ Len(new) = m + Len(bodies) /\ new[m + 1] = bodies[1] /\ \A i \in 1..m : new[i] = chain[i]
  <2>1. Len(bodies) \in Nat /\ Len(bodies) >= 1
    OBVIOUS
  <2>2. /\ Len(new) = Len(base0) + Len(bodies)
        /\ \A i \in 1..(Len(base0) + Len(bodies)) :
             new[i] = IF i <= Len(base0) THEN base0[i] ELSE bodies[i - Len(base0)]
    BY <1>4, ConcatProperties
  <2>3. m + 1 \in 1..(m + Len(bodies)) /\ ~(m + 1 <= m) /\ m + 1 - m = 1
    BY <1>3, <2>1
  <2>4. \A i \in 1..m : i \in 1..(m + Len(bodies)) /\ i <= m
    BY <1>3, <2>1
  <2> QED
    BY <1>4, <2>2, <2>3, <2>4
<1> HIDE DEF new
<1>7. Len(new) <= Len(chain) + 1 /\ m <= Len(new) /\ m + 1 \in 1..Len(new)
  <2> DEFINE l == Len(bodies)
             top == Len(chain)
             tall == Len(new)
  <2>1. l \in 1..2 /\ top \in Nat /\ m \in Nat /\ m + 1 <= top /\ m >= 1 /\ tall = m + l
    BY <1>2, <1>3, <1>6
  <2> HIDE DEF l, top, tall
  <2>2. tall <= top + 1 /\ m <= tall /\ m + 1 \in 1..tall
    BY <2>1
  <2> QED
    BY <2>2 DEF top, tall
\* The new chain is not the beginning of the old one.
<1>8. ~Holds(chain, new)
  BY <1>1, <1>2, <1>5, <1>6, <1>7, HeldBodies
<1>9. ASSUME heard'
       PROVE  /\ conn' /\ Queued(chain', heads') /\ Headers(c')
              /\ OnTrack(chain', heads', work', views', c', last')
  <2>1. heard /\ conn /\ heads' = Append(heads, new)
    BY <1>1, <1>9 DEF RInv
  <2>2. views' = (IF views = {} THEN {} ELSE views \cup {new})
    BY <1>1
  <2>3. /\ Queued(chain', heads') /\ Headers(c')
        /\ OnTrack(chain', heads', work', views', c', last')
    BY <1>1, <1>5, <1>7, <1>8, <2>1, <2>2, AdoptTrack
  <2> QED
    BY <1>1, <2>1, <2>3
<1> QED
  BY <1>9 DEF RInv

\* The waiting heads once the first is taken.
LEMMA TakeQueued ==
    ASSUME NEW hs \in Seq(Block), hs # <<>>, NEW ch, Queued(ch, hs)
    PROVE  /\ Queued(ch, Tail(hs)) /\ Head(hs) \in Block /\ Target(ch, Tail(hs), Len(Head(hs)))
           /\ Behind(ch, Tail(hs), Head(hs))
<1>1. /\ Len(Tail(hs)) = Len(hs) - 1 /\ Len(hs) \in Nat \ {0} /\ Head(hs) = hs[1]
      /\ Tail(hs) \in Seq(Block) /\ \A i \in 1..Len(Tail(hs)) : Tail(hs)[i] = hs[i + 1]
      /\ Head(hs) \in Block
  BY HeadTailProperties
<1> DEFINE tl == Tail(hs)
<1>2. tl # <<>> <=> Len(hs) > 1
  <2>1. Len(tl) = Len(hs) - 1 /\ tl \in Seq(Block) /\ Len(hs) \in Nat \ {0}
    BY <1>1
  <2> HIDE DEF tl
  <2> QED
    BY <2>1
<1> HIDE DEF tl
<1>3. \A i \in 1..Len(tl) : tl[i] = hs[i + 1] /\ i + 1 \in 1..Len(hs)
  BY <1>1 DEF tl
<1>4. \A i \in 1..(Len(tl) - 1) : /\ i \in 1..Len(tl) /\ i + 1 \in 1..Len(tl)
                                 /\ i + 1 \in 1..(Len(hs) - 1)
  BY <1>1 DEF tl
<1>5. \A i \in 1..(Len(tl) - 1) :
        Len(tl[i + 1]) <= Len(tl[i]) + 1 /\ ~Holds(tl[i], tl[i + 1])
  BY <1>3, <1>4 DEF Queued
<1>6. tl # <<>> => tl[Len(tl)] = ch
  BY <1>1, <1>2, <1>3 DEF Queued, tl
<1>7. Queued(ch, tl)
  BY <1>3, <1>5, <1>6 DEF Queued
<1>8. tl = <<>> => Head(hs) = ch
  BY <1>1, <1>2 DEF Queued
<1>9. tl # <<>> => Len(Head(tl)) <= Len(Head(hs)) + 1 /\ ~Holds(Head(hs), Head(tl))
  <2>1. tl # <<>> => 1 \in 1..(Len(hs) - 1) /\ Head(tl) = tl[1] /\ tl[1] = hs[2]
    BY <1>1, <1>2 DEF tl
  <2>2. ASSUME tl # <<>> PROVE Len(hs[1 + 1]) <= Len(hs[1]) + 1 /\ ~Holds(hs[1], hs[1 + 1])
    BY <2>1, <2>2 DEF Queued
  <2> QED
    BY <1>1, <2>1, <2>2
<1>10. Target(ch, tl, Len(Head(hs)))
  BY <1>8, <1>9 DEF Target, NoneAbove
<1>11. Behind(ch, tl, Head(hs))
  BY <1>8, <1>9 DEF Behind
<1> QED
  BY <1>1, <1>7, <1>8, <1>10, <1>11 DEF tl

\* A header that is held is one of its number.
LEMMA HeldHeader ==
    ASSUME NEW ring \in Ring, Headers(ring), NEW n \in Nat,
           Held(ring, n)
    PROVE  /\ at(ring, n).hash \in Block /\ Len(at(ring, n).hash) = n
           /\ at(ring, n) \in HeaderRef /\ at(ring, n) # NoRef /\ at(ring, n).num = n
<1>1. n % RingSize \in 0..(RingSize - 1)
  BY RingAssumption
<1>2. ring.refs[n % RingSize] # NoRef /\ ring.refs[n % RingSize].num = n
  BY DEF Held
<1>3. ring.refs[n % RingSize].num = Len(ring.refs[n % RingSize].hash)
  BY <1>1, <1>2, HeaderFacts
<1>4. at(ring, n) \in HeaderRef
  BY RingNumbers
<1> QED
  BY <1>2, <1>3, <1>4 DEF at, HeaderRef

\* A head is a parent's if it extends the chain that ends in it.
LEMMA ParentHeld ==
    ASSUME NEW h \in Block, NEW b \in Block, Parent(h) = b, Len(h) = Len(b) + 1
    PROVE  Holds(h, b)
<1>1. Len(h) - 1 = Len(b) /\ Len(b) <= Len(h)
  BY BlockIsSeq DEF Heights
<1>2. Parent(h) = BlockAt(h, Len(b))
  BY <1>1 DEF Parent, Front, BlockAt
<1> QED
  BY <1>1, <1>2 DEF Holds

\* A head that the ring has is an ancestor of the tip, or the tip: once it is
\* taken the tip is behind those that follow.
LEMMA StillBehind ==
    ASSUME NEW hs \in Seq(Block), hs # <<>>, NEW ch \in Block, Queued(ch, hs),
           NEW b \in Block, Behind(ch, hs, b), Holds(b, Head(hs))
    PROVE  Behind(ch, Tail(hs), b)
<1> DEFINE h == Head(hs)
           tl == Tail(hs)
<1>1. /\ Len(tl) = Len(hs) - 1 /\ Len(hs) \in Nat \ {0} /\ h = hs[1] /\ h \in Block
      /\ \A i \in 1..Len(tl) : tl[i] = hs[i + 1]
  BY HeadTailProperties
<1>2. Behind(ch, tl, h)
  BY TakeQueued
<1>3. PICK i \in 1..Len(hs) : Holds(hs[i], b)
  BY DEF Behind
<1> HIDE DEF h, tl
<1>4. CASE i = 1
  <2>1. Holds(h, b) /\ Holds(b, h)
    BY <1>1, <1>3, <1>4 DEF h
  <2>2. b = h
    BY <1>1, <2>1, HeldWhole, BlockIsSeq DEF Holds, Heights
  <2> QED
    BY <1>2, <2>2 DEF tl
<1>5. CASE i # 1
  <2>1. i - 1 \in 1..Len(tl) /\ i - 1 + 1 = i
    BY <1>1, <1>5
  <2>2. Holds(tl[i - 1], b) /\ tl # <<>>
    <3>1. tl[i - 1] = hs[i] /\ Len(tl) # 0
      BY <1>1, <2>1
    <3>2. tl # <<>>
      BY <3>1
    <3> QED
      BY <1>3, <3>1, <3>2
  <2> QED
    BY <2>1, <2>2 DEF Behind, tl
<1> QED
  BY <1>4, <1>5

\* A head is taken: it follows the tip, or is below it, or starts a walk.
LEMMA HeadTrack == ASSUME Types, RInv, onHead PROVE RInv'
<1> DEFINE h == Head(heads)
           tl == Tail(heads)
<1>1. /\ conn /\ work.pc = "idle" /\ heads # <<>> /\ heads' = tl
      /\ work' = CASE Classified(h) = "stale"  -> Idle
                   [] Classified(h) = "extend" -> [pc |-> "extend", head |-> h]
                   [] Classified(h) = "gap"    -> [pc |-> "catchup", head |-> h, from |-> last + 1]
                   [] Classified(h) = "reorg"  -> [pc |-> "walk", head |-> Number(h),
                                                  from |-> WalkFrom(Number(h))]
      /\ UNCHANGED <<chain, conn, views, c, last, heard>>
  BY DEF onHead, node, world, memory, history
<1> SUFFICES ASSUME heard
             PROVE  /\ Queued(chain, tl) /\ Headers(c)
                    /\ OnTrack(chain, tl, work', views, c, last)
  BY <1>1 DEF RInv
<1>2. /\ heads \in Seq(Block) /\ c \in Ring /\ chain \in Block /\ last \in Nat
  BY Typed
<1>3. /\ Queued(chain, heads) /\ Headers(c)
      /\ Standing(c, last) /\ Arrived(chain, heads, c) /\ views = {}
  BY <1>1 DEF RInv, OnTrack
<1>4. /\ Queued(chain, tl) /\ h \in Block /\ Target(chain, tl, Len(h)) /\ Behind(chain, tl, h)
  BY <1>1, <1>2, <1>3, TakeQueued
<1>5. c.tip # NoRef => /\ Len(h) <= c.tip.num + 1 /\ c.tip.num \in Nat /\ c.tip.num = last
                       /\ c.tip.hash \in Block /\ c.tip.num = Len(c.tip.hash)
  <2>1. c.tip # NoRef => Len(h) <= c.tip.num + 1 /\ c.tip.num = last
    BY <1>1, <1>3 DEF Arrived, NoneAbove, Standing
  <2> QED
    BY <1>2, <1>3, <2>1, HeaderFacts DEF Heights
<1>6. Len(h) \in Nat /\ Len(h) >= 1
  BY <1>4, BlockIsSeq DEF Heights
<1> DEFINE r == [num |-> Number(h), hash |-> h, parent |-> Parent(h)]
<1>7. r.num = Len(h) /\ r.hash = h /\ r.parent = Parent(h)
  BY DEF Number
<1>8. Classified(h) = IF classify(c, r) = "extend" /\ last > 0 /\ Len(h) > last + 1 THEN "gap"
                      ELSE classify(c, r)
  BY DEF Classified, Number
<1> HIDE DEF h, tl, r
<1>9. CASE c.tip = NoRef
  <2>1. last = 0
    BY <1>3, <1>9 DEF Standing
  <2>2. Classified(h) = "extend"
    BY <1>8, <1>9, <2>1 DEF classify
  <2>3. work' = [pc |-> "extend", head |-> h]
    BY <1>1, <2>2
  <2>4. Extending(chain, tl, work'.head, c)
    BY <1>4, <1>9, <2>3 DEF Extending, Target
  <2> QED
    BY <1>3, <1>4, <2>3, <2>4 DEF OnTrack, Settling, Handling
<1>10. CASE c.tip # NoRef
  <2>1. ~(Len(h) > c.tip.num + 1) /\ ~(Len(h) > last + 1)
    BY <1>5, <1>6, <1>10
  <2>2. Classified(h) = classify(c, r)
    BY <1>8, <2>1
  <2>3. CASE Parent(h) = c.tip.hash /\ Len(h) = c.tip.num + 1
    <3>1. work' = [pc |-> "extend", head |-> h]
      BY <1>1, <1>7, <2>2, <2>3 DEF classify
    <3>2. Holds(h, c.tip.hash)
      BY <1>4, <1>5, <1>10, <2>3, ParentHeld
    <3>3. Extending(chain, tl, work'.head, c)
      BY <1>4, <2>3, <3>1, <3>2 DEF Extending, Target
    <3> QED
      BY <1>3, <1>4, <3>1, <3>3 DEF OnTrack, Settling, Handling
  <2>4. CASE /\ ~(Parent(h) = c.tip.hash /\ Len(h) = c.tip.num + 1)
             /\ Len(h) <= c.tip.num /\ Held(c, Len(h)) /\ at(c, Len(h)).hash = h
    <3>1. Classified(h) = "stale"
      BY <1>7, <1>10, <2>1, <2>2, <2>4 DEF classify
    <3>2. work' = Idle
      BY <1>1, <3>1
    <3>3. NoneAbove(c.tip.num, tl)
      <4>1. tl # <<>> => Len(Head(tl)) <= Len(h) + 1
        BY <1>4 DEF Target, NoneAbove
      <4>2. ASSUME tl # <<>> PROVE Len(Head(tl)) \in Nat
        <5>1. tl \in Seq(Block)
          BY <1>1, <1>2 DEF tl
        <5>2. Head(tl) \in Block
          BY <4>2, <5>1
        <5> QED
          BY <5>2, BlockIsSeq DEF Heights
      <4> QED
        BY <1>5, <1>6, <1>10, <2>4, <4>1, <4>2 DEF NoneAbove
    <3>4. Behind(chain, tl, c.tip.hash)
      <4>1. Len(h) \in 0..c.tip.num
        BY <1>5, <1>6, <1>10, <2>4
      <4>2. Holds(c.tip.hash, h)
        BY <1>3, <1>10, <2>4, <4>1 DEF Standing, Lined, OnLine
      <4>3. Behind(chain, heads, c.tip.hash)
        BY <1>3, <1>10 DEF Arrived
      <4> QED
        BY <1>1, <1>2, <1>3, <1>5, <1>10, <4>2, <4>3, StillBehind DEF h, tl
    <3>5. Arrived(chain, tl, c)
      BY <3>3, <3>4 DEF Arrived
    <3> QED
      BY <1>3, <1>4, <3>2, <3>5 DEF OnTrack, Settling, Handling, Idle
  <2>5. CASE /\ ~(Parent(h) = c.tip.hash /\ Len(h) = c.tip.num + 1)
             /\ ~(Len(h) <= c.tip.num /\ Held(c, Len(h)) /\ at(c, Len(h)).hash = h)
    <3>1. Classified(h) = "reorg"
      BY <1>7, <1>10, <2>1, <2>2, <2>5 DEF classify
    <3>2. work' = [pc |-> "walk", head |-> Len(h), from |-> WalkFrom(Len(h))]
      BY <1>1, <3>1 DEF Number
    <3>3. WalkFrom(Len(h)) <= Len(h) /\ WalkFrom(Len(h)) <= c.tip.num
      BY <1>5, <1>6, <1>10 DEF WalkFrom
    <3>4. Walking(chain, tl, work', c, last)
      BY <1>3, <1>4, <1>10, <3>2, <3>3 DEF Walking
    <3> QED
      BY <1>3, <1>4, <3>2, <3>4 DEF OnTrack, Settling, Handling
  <2> QED
    BY <2>3, <2>4, <2>5
<1> QED
  BY <1>9, <1>10

\* Numbers less than a ring apart have slots of their own.
LEMMA ApartSlots ==
    ASSUME NEW a \in Nat, NEW b \in Nat, a < b, b < a + RingSize
    PROVE  a % RingSize # b % RingSize
<1>1. RingSize \in Nat \ {0}
  BY RingAssumption
<1>2. /\ a = RingSize * (a \div RingSize) + (a % RingSize)
      /\ b = RingSize * (b \div RingSize) + (b % RingSize)
  BY <1>1
<1> SUFFICES ASSUME a % RingSize = b % RingSize PROVE FALSE
  OBVIOUS
<1> DEFINE x == a \div RingSize
           y == b \div RingSize
<1>3. x \in Int /\ y \in Int
  BY <1>1
<1>4. b - a = RingSize * y - RingSize * x
  BY <1>1, <1>2
<1> HIDE DEF x, y
<1>5. RingSize * y - RingSize * x = RingSize * (y - x)
  BY <1>1, <1>3
<1>6. y - x >= 1 => RingSize * (y - x) >= RingSize
  BY <1>1, <1>3
<1>7. y - x <= 0 => RingSize * (y - x) <= 0
  BY <1>1, <1>3
<1> QED
  BY <1>1, <1>3, <1>4, <1>5, <1>6, <1>7

\* A block is recorded, and every header below stays on its line.
LEMMA RecordTrack ==
    ASSUME NEW ring \in Ring, Headers(ring),
           NEW b \in Block,
           ring.tip # NoRef => ring.tip.num < Len(b) + RingSize
    PROVE  /\ Headers(record(ring, Ref(b))) /\ Held(record(ring, Ref(b)), Len(b))
           /\ record(ring, Ref(b)).tip =
                IF ring.tip = NoRef \/ Len(b) >= ring.tip.num THEN Ref(b) ELSE ring.tip
           /\ record(ring, Ref(b)).tip # NoRef
           /\ \A d : Holds(d, b) /\ OnLine(ring, d, Len(b) - 1) =>
                OnLine(record(ring, Ref(b)), d, Len(b))
<1> DEFINE r == Ref(b)
           s == r.num % RingSize
           new == record(ring, r)
<1>1. /\ new.refs = [ring.refs EXCEPT ![s] = r]
      /\ new.tip = IF ring.tip = NoRef \/ r.num >= ring.tip.num THEN r ELSE ring.tip
  BY DEF record
<1>2. /\ r.num = Len(b) /\ r.hash = b /\ Len(b) \in Nat /\ Len(b) >= 1 /\ r # NoRef
  BY BlockIsSeq, IndexerAssumption DEF Ref, Number, Heights
<1>3. s \in 0..(RingSize - 1) /\ RingSize \in Nat \ {0}
  BY <1>2, RingAssumption
<1>4. ring.refs \in [0..(RingSize - 1) -> HeaderRef \cup {NoRef}]
  BY DEF Ring
<1>5. s = Len(b) % RingSize
  BY <1>2
<1> HIDE DEF r, s, new
<1>6. /\ new.refs[s] = r
      /\ \A i \in 0..(RingSize - 1) : i # s => new.refs[i] = ring.refs[i]
  BY <1>1, <1>3, <1>4
<1>7. new.tip = IF ring.tip = NoRef \/ Len(b) >= ring.tip.num THEN r ELSE ring.tip
  BY <1>1, <1>2
<1>8. new.tip # NoRef
  BY <1>2, <1>7
<1>9. Held(new, Len(b)) /\ at(new, Len(b)) = r
  BY <1>2, <1>5, <1>6 DEF Held, at
<1>10. ASSUME NEW m \in Nat, Held(new, m), m # Len(b)
       PROVE  Held(ring, m) /\ at(new, m) = at(ring, m)
  <2>1. m % RingSize \in 0..(RingSize - 1)
    BY <1>3
  <2>2. m % RingSize # s
    BY <1>2, <1>6, <1>10 DEF Held
  <2> QED
    BY <1>6, <1>10, <2>1, <2>2 DEF Held, at
<1>11. Headers(new)
  <2>1. ASSUME NEW i \in 0..(RingSize - 1), new.refs[i] # NoRef PROVE Header(new.refs[i])
    <3>1. CASE i = s
      BY <1>2, <1>6, <3>1 DEF Header
    <3>2. CASE i # s
      BY <1>6, <2>1, <3>2 DEF Headers
    <3> QED
      BY <3>1, <3>2
  <2>2. new.refs[new.tip.num % RingSize] = new.tip
    <3>1. CASE new.tip = r
      BY <1>2, <1>5, <1>6, <3>1
    <3>2. CASE new.tip # r
      <4>1. ring.tip # NoRef /\ new.tip = ring.tip /\ ~(Len(b) >= ring.tip.num)
        BY <1>7, <3>2
      <4> DEFINE n == ring.tip.num
      <4>2. n \in Nat /\ Len(b) < n /\ n < Len(b) + RingSize
        BY <1>2, <4>1, RingNumbers DEF Heights
      <4>3. ring.refs[n % RingSize] = ring.tip
        BY <4>1 DEF Headers
      <4> HIDE DEF n
      <4>4. n % RingSize # Len(b) % RingSize /\ n % RingSize \in 0..(RingSize - 1)
        BY <1>2, <1>3, <4>2, ApartSlots
      <4>5. new.refs[n % RingSize] = ring.tip
        BY <1>5, <1>6, <4>3, <4>4
      <4> QED
        BY <4>1, <4>5 DEF n
    <3> QED
      BY <3>1, <3>2
  <2> QED
    BY <1>8, <2>1, <2>2 DEF Headers
<1>12. ASSUME NEW d, Holds(d, b), OnLine(ring, d, Len(b) - 1) PROVE OnLine(new, d, Len(b))
  <2> SUFFICES ASSUME NEW m \in 0..Len(b), Held(new, m) PROVE Holds(d, at(new, m).hash)
    BY DEF OnLine
  <2>1. CASE m = Len(b)
    BY <1>2, <1>9, <1>12, <2>1
  <2>2. CASE m # Len(b)
    <3>1. m \in Nat /\ m \in 0..(Len(b) - 1)
      BY <1>2, <2>2
    <3> QED
      BY <1>10, <1>12, <2>2, <3>1 DEF OnLine
  <2> QED
    BY <2>1, <2>2
<1>13. /\ Headers(new) /\ Held(new, Len(b)) /\ new.tip # NoRef
       /\ new.tip = IF ring.tip = NoRef \/ Len(b) >= ring.tip.num THEN r ELSE ring.tip
       /\ \A d : Holds(d, b) /\ OnLine(ring, d, Len(b) - 1) => OnLine(new, d, Len(b))
  BY <1>7, <1>8, <1>9, <1>11, <1>12
<1> QED
  BY <1>13 DEF new, r

\* A step that processes a block records it.
LEMMA ProcessRing ==
    ASSUME IInv, NEW b \in Block, NEW next, Process(b, next)
    PROVE  c' = record(c, Ref(b)) /\ work' = next
<1>1. Here \in Within(c)
  BY HereHandled DEF Within
<1>2. PICK mode \in ScanModes(b), open \in MayStayOpen(b) : Install(processBlock(Here, b, mode, open)) /\ work' = next
  BY DEF Process
<1>3. processBlock(Here, b, mode, open).c = record(c, Ref(b))
  BY <1>1, ProcessedHandled
<1> QED
  BY <1>2, <1>3 DEF Install

\* headExtend: the head becomes the tip;
LEMMA ExtendBlockTrack == ASSUME IInv, RInv, ExtendBlock PROVE RInv'
<1> DEFINE b == work.head
           new == record(c, Ref(b))
<1>1. /\ work.pc = "extend" /\ Process(b, [pc |-> "extended", head |-> Len(b)])
      /\ UNCHANGED <<chain, heads, conn, views, last, heard>>
  BY DEF ExtendBlock, Number, node, world
<1>2. b \in Block /\ Len(b) \in Nat /\ Len(b) >= 1 /\ c \in Ring /\ chain \in Block
  BY <1>1, Typed, WorkCases, BlockIsSeq DEF IInv, Heights
<1>3. c' = new /\ work' = [pc |-> "extended", head |-> Len(b)]
  BY <1>1, <1>2, ProcessRing
<1> SUFFICES ASSUME heard
             PROVE  /\ conn /\ Queued(chain, heads) /\ Headers(new)
                    /\ OnTrack(chain, heads, work', views, new, last)
  BY <1>1, <1>3 DEF RInv
<1>4. /\ conn /\ Queued(chain, heads) /\ Headers(c) /\ Standing(c, last)
      /\ Extending(chain, heads, b, c) /\ views = {}
  BY <1>1 DEF RInv, OnTrack
<1> HIDE DEF b, new
<1>5. c.tip # NoRef => /\ Len(b) = c.tip.num + 1 /\ Holds(b, c.tip.hash) /\ c.tip.num \in Nat
                       /\ c.tip.hash \in Block
  <2>1. c.tip # NoRef => Len(b) = c.tip.num + 1 /\ Holds(b, c.tip.hash)
    BY <1>4 DEF Extending
  <2>2. c.tip # NoRef => c.tip.hash \in Block /\ c.tip.num \in Heights
    BY <1>2, <1>4, HeaderFacts
  <2> QED
    BY <2>1, <2>2 DEF Heights
<1>6. c.tip # NoRef => c.tip.num < Len(b) + RingSize
  BY <1>2, <1>5, RingAssumption
<1>7. /\ Headers(new) /\ Held(new, Len(b)) /\ new.tip # NoRef
      /\ new.tip = IF c.tip = NoRef \/ Len(b) >= c.tip.num THEN Ref(b) ELSE c.tip
      /\ \A d : Holds(d, b) /\ OnLine(c, d, Len(b) - 1) => OnLine(new, d, Len(b))
  BY <1>2, <1>4, <1>6, RecordTrack DEF new
<1>8. new.tip = Ref(b) /\ Ref(b).num = Len(b) /\ Ref(b).hash = b
  BY <1>2, <1>5, <1>7 DEF Ref, Number
<1>9. OnLine(c, b, Len(b) - 1)
  <2>1. CASE c.tip = NoRef
    <3>1. \A m \in Nat : ~Held(c, m)
      <4>1. \A m \in Nat : m % RingSize \in 0..(RingSize - 1)
        BY RingAssumption
      <4> QED
        BY <1>4, <2>1, <4>1 DEF Headers, Held
    <3>2. \A m \in 0..(Len(b) - 1) : m \in Nat
      BY <1>2
    <3> QED
      BY <3>1, <3>2 DEF OnLine
  <2>2. CASE c.tip # NoRef
    <3>1. OnLine(c, c.tip.hash, c.tip.num) /\ Len(b) - 1 = c.tip.num
      BY <1>2, <1>4, <1>5, <2>2 DEF Standing, Lined
    <3>2. \A m \in Nat : Held(c, m) => at(c, m).hash \in Block
      BY <1>2, RingNumbers DEF HeaderRef
    <3> SUFFICES ASSUME NEW m \in 0..c.tip.num, Held(c, m) PROVE Holds(b, at(c, m).hash)
      BY <3>1 DEF OnLine
    <3>3. m \in Nat /\ Holds(c.tip.hash, at(c, m).hash)
      BY <1>5, <2>2, <3>1 DEF OnLine
    <3> QED
      BY <1>2, <1>5, <2>2, <3>2, <3>3, HeldOn
  <2> QED
    BY <2>1, <2>2
<1>10. Lined(new)
  BY <1>2, <1>7, <1>8, <1>9, HeldSelf DEF Lined
<1>11. Arrived(chain, heads, new)
  BY <1>2, <1>4, <1>8 DEF Arrived, Extending
<1> QED
  BY <1>3, <1>4, <1>7, <1>8, <1>10, <1>11 DEF OnTrack, Settling, Handling

\* it is what was processed last.
LEMMA ExtendedTrack == ASSUME RInv, Extended PROVE RInv'
<1>1. /\ work.pc = "extended" /\ last' = work.head /\ work' = Life(work.head, 0, Idle)
      /\ UNCHANGED <<chain, heads, conn, views, c, heard>>
  BY DEF Extended, Advance, node, world, history
<1> SUFFICES ASSUME heard
             PROVE  /\ conn /\ Queued(chain, heads) /\ Headers(c)
                    /\ OnTrack(chain, heads, work', views, c, last')
  BY <1>1 DEF RInv
<1>2. /\ conn /\ Queued(chain, heads) /\ Headers(c)
      /\ Lined(c) /\ Arrived(chain, heads, c) /\ c.tip # NoRef /\ c.tip.num = work.head /\ views = {}
  BY <1>1 DEF RInv, OnTrack
<1>3. Standing(c, last')
  BY <1>1, <1>2 DEF Standing
<1> QED
  BY <1>1, <1>2, <1>3 DEF OnTrack, Settling, Handling, Life

\* A session that is over, or that missed a head, owes nothing.
LEMMA TrackUnheard ==
    ASSUME ~heard' PROVE RInv'
BY DEF RInv

\* The chain is compared from the header that OnReorg went back to.
LEMMA RevertTrack ==
    ASSUME IInv, RInv, heard, work.pc = "walk", NEW m \in Nat, Reverted(m), m <= work.head,
           OnLine(c, chain, m), c.tip.num < m + 1 + RingSize, m = work.head => Held(c, m)
    PROVE  RInv'
<1>1. /\ work' = [pc |-> "rescan", n |-> m + 1, to |-> work.head] /\ views' = {chain}
      /\ UNCHANGED <<chain, heads, conn, heard>>
      /\ c' = Calling(Here, LAMBDA x : OnReorg(x, m)).c
  BY DEF Reverted, Rescan, Install, node, world, history
<1>2. c' = c
  <2>1. Calling(Here, LAMBDA x : OnReorg(x, m)) = emitAll(Here, OnReorg(t, m))
    BY DEF Calling, Here
  <2>2. emitAll(Here, OnReorg(t, m)).c = c
    BY DEF emitAll, Here
  <2> QED
    BY <1>1, <2>1, <2>2
<1>3. /\ conn /\ Queued(chain, heads) /\ Headers(c)
      /\ Walking(chain, heads, work, c, last)
  BY DEF RInv, OnTrack
<1>4. work.head \in Nat /\ chain \in Block
  BY Typed, WorkCases DEF IInv, Heights
<1>5. Rescanning(chain, heads, work', views', c)
  <2>1. m + 1 - 1 = m /\ (m + 1 > work.head => m = work.head)
    BY <1>4
  <2> QED
    BY <1>1, <1>3, <1>4, <2>1, HeldSelf DEF Rescanning, Walking
<1>6. OnTrack(chain, heads, work', views', c, last')
  BY <1>1, <1>5 DEF OnTrack, Settling, Handling
<1> QED
  BY <1>1, <1>2, <1>3, <1>6 DEF RInv

\* findAncestor.
LEMMA WalkTrack == ASSUME IInv, RInv, InReach, Walk PROVE RInv'
<1> DEFINE chunk == NextChunk(c, work.from)
           same == {n \in chunk : n <= Len(chain) /\ at(c, n).hash = BlockAt(chain, n)}
<1>1. /\ work.pc = "walk" /\ work \in Work /\ c \in Ring /\ chain \in Block
      /\ work \in [pc : {"walk"}, head : Heights, from : 0..Bound.height]
      /\ RingSize \in Nat \ {0} /\ floorOf(c) \in Nat
  BY Typed, WorkCases, RingAssumption, RingNumbers DEF IInv, Walk
<1>2. \/ chunk = {} /\ Reverted(floorOf(c))
      \/ NotServed(Top(chunk))
      \/ same # {} /\ Reverted(Top(same))
      \/ /\ chunk # {} /\ work' = [work EXCEPT !.from = Bottom(chunk) - 1]
         /\ UNCHANGED <<node, heads, conn, views, memory, disk, history>>
  BY DEF Walk
<1>3. chunk = {} => /\ floorOf(c) < work.head
                    /\ \A n \in 0..floorOf(c) : Held(c, n) => Canonical(at(c, n).hash)
  BY <1>1 DEF InReach
<1>4. \A n \in chunk : /\ n \in Nat /\ n > floorOf(c) /\ n <= work.from /\ Held(c, n)
                       /\ n \in 1..Bound.height
  <2>1. chunk \in SUBSET Candidates(c, work.from)
    BY DEF NextChunk
  <2>2. Bound.height \in Nat
    BY IndexerAssumption
  <2> QED
    BY <1>1, <2>1, <2>2 DEF Candidates
<1>5. same \in SUBSET chunk
  OBVIOUS
<1>6. \A n \in same : n <= Len(chain) /\ at(c, n).hash = BlockAt(chain, n)
  OBVIOUS
<1> HIDE DEF chunk, same
<1>7. CASE ~heard
  <2>1. UNCHANGED chain /\ ~heard'
    BY <1>2, <1>7 DEF Reverted, NotServed, EndSession, node, world, history
  <2> QED
    BY <2>1, TrackUnheard
<1>8. CASE heard
  <2>1. /\ Headers(c) /\ Walking(chain, heads, work, c, last)
        /\ conn /\ Queued(chain, heads) /\ views = {}
    BY <1>1, <1>8 DEF RInv, OnTrack
  <2>2. c.tip # NoRef /\ Lined(c) /\ work.from <= work.head /\ work.from <= c.tip.num
    BY <2>1 DEF Walking, Standing
  <2>3. c.tip.hash \in Block /\ c.tip.num \in Nat
    BY <1>1, <2>2, RingNumbers DEF Heights, HeaderRef
  <2>4. work.head \in Nat /\ work.from \in Nat
    BY <1>1 DEF Heights
  <2>5. CASE chunk = {} /\ Reverted(floorOf(c))
    <3>1. OnLine(c, chain, floorOf(c))
      BY <1>3, <2>5 DEF OnLine, Canonical
    <3>2. c.tip.num < floorOf(c) + 1 + RingSize
      BY <1>1, <2>2, <2>3 DEF floorOf
    <3>3. floorOf(c) <= work.head /\ floorOf(c) # work.head
      BY <1>1, <1>3, <2>4, <2>5
    <3> QED
      BY <1>1, <1>8, <2>5, <3>1, <3>2, <3>3, RevertTrack
  <2>6. CASE NotServed(Top(chunk))
    BY <2>6, TrackEnds DEF NotServed, world
  <2>7. CASE same # {} /\ Reverted(Top(same))
    <3> DEFINE m == Top(same)
    <3>1. m \in same
      <4>1. same \in SUBSET (0..Bound.height)
        BY <1>4, <1>5, IndexerAssumption
      <4> QED
        BY <2>7, <4>1, IndexerAssumption, GreatestExists DEF Top
    <3> HIDE DEF m
    <3>2. /\ m \in Nat /\ m > floorOf(c) /\ m <= work.from /\ Held(c, m) /\ m >= 1
          /\ m <= Len(chain) /\ at(c, m).hash = BlockAt(chain, m)
      BY <1>4, <1>5, <1>6, <3>1
    <3>3. m \in 1..Len(chain) /\ m \in 0..c.tip.num /\ m <= work.head
      BY <1>1, <2>2, <2>3, <2>4, <3>2, BlockIsSeq DEF Heights
    <3>4. Holds(chain, at(c, m).hash)
      BY <1>1, <3>2, <3>3, HeldSelf
    <3>5. \A n \in Nat : Held(c, n) => at(c, n).hash \in Block /\ Len(at(c, n).hash) = n
      BY <1>1, <2>1, HeldHeader
    <3>6. OnLine(c, chain, m)
      <4> SUFFICES ASSUME NEW n \in 0..m, Held(c, n) PROVE Holds(chain, at(c, n).hash)
        BY DEF OnLine
      <4>1. n \in Nat /\ n <= m /\ n \in 0..c.tip.num
        BY <2>3, <3>2, <3>3
      <4>2. Holds(c.tip.hash, at(c, n).hash) /\ Holds(c.tip.hash, at(c, m).hash)
        BY <2>2, <3>2, <3>3, <4>1 DEF Lined, OnLine
      <4>3. Holds(at(c, m).hash, at(c, n).hash)
        BY <2>3, <3>2, <3>5, <4>1, <4>2, HeldBelow
      <4> QED
        BY <1>1, <3>2, <3>4, <3>5, <4>1, <4>3, HeldOn
    <3>7. c.tip.num < m + 1 + RingSize
      BY <1>1, <2>2, <2>3, <3>2 DEF floorOf
    <3>8. Reverted(m)
      BY <2>7 DEF m
    <3> QED
      BY <1>1, <1>8, <3>2, <3>3, <3>6, <3>7, <3>8, RevertTrack
  <2>8. CASE /\ chunk # {} /\ work' = [work EXCEPT !.from = Bottom(chunk) - 1]
             /\ UNCHANGED <<node, heads, conn, views, memory, disk, history>>
    <3>1. Bottom(chunk) \in chunk
      <4>1. \E x \in chunk : \A y \in chunk : x <= y
        <5>1. chunk \in SUBSET Nat
          BY <1>4
        <5> QED
          BY <2>8, <5>1, LeastExists
      <4>2. \E x \in chunk : \A y \in chunk : y >= x
        BY <1>4, <4>1
      <4> QED
        BY <4>2 DEF Bottom
    <3>2. Bottom(chunk) \in Nat /\ Bottom(chunk) <= work.from
      BY <1>4, <3>1
    <3> DEFINE from == Bottom(chunk) - 1
    <3>3. /\ work'.pc = "walk" /\ work'.head = work.head /\ work'.from = from
          /\ UNCHANGED <<chain, heads, conn, views, c, last, heard>>
      BY <1>1, <2>8 DEF node, world, memory, history
    <3>4. from <= work.head /\ from <= c.tip.num
      BY <2>2, <2>3, <2>4, <3>2
    <3> HIDE DEF from
    <3>5. Walking(chain, heads, work', c, last)
      BY <2>1, <3>3, <3>4 DEF Walking
    <3>6. OnTrack(chain, heads, work', views, c, last)
      BY <2>1, <3>3, <3>5 DEF OnTrack, Settling, Handling
    <3> QED
      BY <1>8, <2>1, <3>3, <3>6 DEF RInv
  <2> QED
    BY <1>2, <2>5, <2>6, <2>7, <2>8
<1> QED
  BY <1>7, <1>8

\* A replacement block is the chain's, and so is what the ring holds below it;
LEMMA RescanBlockTrack == ASSUME IInv, RInv, RescanBlock PROVE RInv'
<1>1. /\ work.pc = "rescan" /\ ~(work.n > work.to) /\ c \in Ring /\ chain \in Block
      /\ work \in [pc : {"rescan"}, n : 1..(Bound.height + 1), to : Heights]
      /\ views \in SUBSET Block
  BY Typed, WorkCases DEF IInv, RescanBlock, Local
<1>2. PICK v \in views :
        \/ /\ Len(v) >= work.n
           /\ Process(BlockAt(v, work.n), [work EXCEPT !.n = work.n + 1])
           /\ UNCHANGED <<node, heads, conn, views, last, restored, fin, saved, base, heard>>
        \/ EndSession /\ UNCHANGED world
  BY DEF RescanBlock
<1>3. CASE EndSession /\ UNCHANGED world
  BY <1>3, TrackEnds DEF world
<1>4. CASE /\ Len(v) >= work.n
           /\ Process(BlockAt(v, work.n), [work EXCEPT !.n = work.n + 1])
           /\ UNCHANGED <<node, heads, conn, views, last, restored, fin, saved, base, heard>>
  <2>1. UNCHANGED <<chain, heads, conn, views, last, heard>>
    BY <1>4 DEF node, world
  <2>2. CASE ~heard
    BY <2>1, <2>2, TrackUnheard
  <2>3. CASE heard
    <3> DEFINE n == work.n
               b == BlockAt(v, n)
               new == record(c, Ref(b))
    <3>1. /\ conn /\ Queued(chain, heads) /\ Headers(c) /\ views # {}
          /\ Rescanning(chain, heads, work, views, c)
      BY <1>1, <2>3 DEF RInv, OnTrack
    <3>2. /\ v \in Block /\ Holds(chain, v) /\ n \in 1..Len(v) /\ n \in Nat /\ n >= 1
          /\ work.to \in Nat /\ n <= work.to
      <4>1. v \in Block /\ Len(v) \in Nat
        BY <1>1, BlockIsSeq DEF Heights
      <4> QED
        BY <1>1, <1>4, <3>1, <4>1 DEF Rescanning, Heights
    <3>3. b \in Block /\ Len(b) = n /\ Holds(chain, b)
      BY <1>1, <3>2, PrefixBlock, HeldPrefix
    <3>4. Process(b, [work EXCEPT !.n = work.n + 1])
      BY <1>4
    <3> HIDE DEF b
    <3>5. c' = new /\ work' = [work EXCEPT !.n = work.n + 1]
      BY <3>3, <3>4, ProcessRing
    <3> HIDE DEF new
    <3>6. work'.pc = "rescan" /\ work'.to = work.to /\ work'.n = n + 1
      BY <1>1, <3>5
    <3>7. /\ c.tip # NoRef /\ Target(chain, heads, work.to) /\ OnLine(c, chain, n - 1)
          /\ c.tip.num < n + RingSize /\ \A x \in views : Holds(chain, x)
      BY <3>1 DEF Rescanning
    <3>8. /\ Headers(new) /\ Held(new, n) /\ new.tip # NoRef
          /\ new.tip = IF c.tip = NoRef \/ n >= c.tip.num THEN Ref(b) ELSE c.tip
          /\ \A d : Holds(d, b) /\ OnLine(c, d, n - 1) => OnLine(new, d, n)
      BY <1>1, <3>1, <3>3, <3>7, RecordTrack DEF new
    <3>9. new.tip.num < n + 1 + RingSize
      <4>1. Ref(b).num = n
        BY <3>3 DEF Ref, Number
      <4>2. c.tip.num \in Nat /\ RingSize \in Nat \ {0}
        BY <1>1, <3>7, RingNumbers, RingAssumption DEF Heights
      <4>3. new.tip = Ref(b) \/ new.tip = c.tip
        BY <3>8
      <4> HIDE DEF n
      <4>4. CASE new.tip = Ref(b)
        BY <3>2, <4>1, <4>2, <4>4
      <4>5. CASE new.tip = c.tip
        BY <3>2, <3>7, <4>2, <4>5
      <4> QED
        BY <4>3, <4>4, <4>5
    <3>10. OnLine(new, chain, n)
      BY <3>3, <3>7, <3>8
    <3>11. n + 1 > work.to => Held(new, work.to)
      <4>1. n + 1 > work.to => n = work.to
        BY <3>2
      <4> QED
        BY <3>8, <4>1
    <3> HIDE DEF n
    <3>12. Rescanning(chain, heads, work', views, new)
      <4>1. new.tip.num < work'.n + RingSize
        BY <3>6, <3>9
      <4>2. OnLine(new, chain, work'.n - 1)
        <5>1. work'.n - 1 = n
          BY <3>2, <3>6
        <5> QED
          BY <3>10, <5>1
      <4>5. Target(chain, heads, work'.to)
        BY <3>6, <3>7
      <4>3. work'.n > work'.to => Held(new, work'.to)
        BY <3>6, <3>11
      <4>4. \A x \in views : Holds(chain, x)
        BY <3>7
      <4> QED
        BY <3>8, <4>1, <4>2, <4>3, <4>4, <4>5 DEF Rescanning
    <3>13. OnTrack(chain, heads, work', views, new, last)
      BY <3>1, <3>6, <3>12 DEF OnTrack, Settling, Handling
    <3> QED
      BY <2>1, <2>3, <3>1, <3>5, <3>8, <3>13 DEF RInv
  <2> QED
    BY <2>2, <2>3
<1> QED
  BY <1>2, <1>3, <1>4

\* the last one is the tip, and the node's head if no head waits.
LEMMA RescannedTrack == ASSUME IInv, RInv, Rescanned PROVE RInv'
<1>1. /\ work.pc = "rescan" /\ work.n > work.to /\ last' = work.to /\ views' = {}
      /\ work' = Life(work.to, 0, Idle) /\ c' = resetTip(c, work.to)
      /\ UNCHANGED <<chain, heads, conn, heard>>
  BY DEF Rescanned, Local, Advance, node, world, history
<1>2. /\ c \in Ring /\ chain \in Block
      /\ work \in [pc : {"rescan"}, n : 1..(Bound.height + 1), to : Heights]
  BY <1>1, Typed, WorkCases DEF IInv
<1>3. CASE ~heard
  BY <1>1, <1>3, TrackUnheard
<1>4. CASE heard
  <2> DEFINE n == work.to
             r == at(c, n)
  <2>1. /\ conn /\ Queued(chain, heads) /\ Headers(c)
        /\ Rescanning(chain, heads, work, views, c)
    BY <1>1, <1>4 DEF RInv, OnTrack
  <2>2. n \in Nat /\ n >= 1 /\ n <= work.n - 1 /\ work.n \in Nat
    BY <1>1, <1>2 DEF Heights
  <2>3. Held(c, n) /\ Target(chain, heads, n) /\ OnLine(c, chain, work.n - 1)
    BY <1>1, <2>1 DEF Rescanning
  <2>4. \A m \in Nat : Held(c, m) =>
          at(c, m).hash \in Block /\ Len(at(c, m).hash) = m /\ at(c, m) \in HeaderRef
    BY <1>2, <2>1, HeldHeader
  <2>5. \A m \in 0..n : Held(c, m) => Holds(chain, at(c, m).hash)
    <3>1. \A m \in 0..n : m \in 0..(work.n - 1)
      BY <2>2
    <3> QED
      BY <2>3, <3>1 DEF OnLine
  <2>6. /\ r # NoRef /\ r.num = n /\ r = c.refs[n % RingSize] /\ r.hash \in Block /\ Len(r.hash) = n
        /\ Holds(chain, r.hash)
    <3>1. r # NoRef /\ r.num = n /\ r = c.refs[n % RingSize]
      BY <2>3 DEF Held, at
    <3>2. n \in 0..n
      BY <2>2
    <3> QED
      BY <2>2, <2>3, <2>4, <2>5, <3>1, <3>2
  <2>7. c'.refs = c.refs /\ c'.tip = r
    <3>1. c' = [c EXCEPT !.tip = r]
      BY <1>1, <2>3 DEF resetTip
    <3> QED
      BY <1>2, <3>1 DEF Ring
  <2>8. \A m \in Nat : (Held(c', m) <=> Held(c, m)) /\ at(c', m) = at(c, m)
    BY <2>7 DEF Held, at
  <2>9. last' = n /\ work'.pc = "life" /\ work'.next = Idle
    BY <1>1 DEF Life
  <2> HIDE DEF r, n
  <2>10. Headers(c')
    BY <2>1, <2>6, <2>7 DEF Headers
  <2>11. Lined(c')
    <3> SUFFICES ASSUME NEW m \in 0..n, Held(c', m) PROVE Holds(r.hash, at(c', m).hash)
      BY <2>6, <2>7 DEF Lined, OnLine
    <3>1. m \in Nat /\ m <= n
      BY <2>2
    <3>2. Held(c, m) /\ at(c', m) = at(c, m)
      BY <2>8, <3>1
    <3> QED
      BY <1>2, <2>4, <2>5, <2>6, <3>1, <3>2, HeldBelow
  <2>12. Standing(c', last')
    BY <2>6, <2>7, <2>9, <2>11 DEF Standing
  <2>13. Arrived(chain, heads, c')
    <3>1. heads = <<>> => r.hash = chain
      <4>1. heads = <<>> => Len(chain) = n
        BY <2>3 DEF Target
      <4> QED
        BY <1>2, <2>2, <2>6, <4>1, HeldWhole
    <3>2. ASSUME heads # <<>> PROVE \E i \in 1..Len(heads) : Holds(heads[i], r.hash)
      <4>1. Len(heads) \in 1..Len(heads)
        <5>1. heads \in Seq(Block)
          BY Typed DEF IInv
        <5> QED
          BY <3>2, <5>1
      <4>2. heads[Len(heads)] = chain
        BY <2>1, <3>2 DEF Queued
      <4> QED
        BY <2>6, <4>1, <4>2
    <3> QED
      BY <2>3, <2>6, <2>7, <3>1, <3>2 DEF Arrived, Target, Behind
  <2>14. OnTrack(chain, heads, work', {}, c', last')
    BY <2>9, <2>12, <2>13 DEF OnTrack, Settling, Handling
  <2> QED
    BY <1>1, <1>4, <2>1, <2>10, <2>14 DEF RInv
<1> QED
  BY <1>3, <1>4

\* updateLifecycles stays with the session or ends it,
LEMMA BatchSession ==
    ASSUME \/ Confirmations \/ ConfirmationsCut \/ Recheck \/ RecheckCut \/ Lookup \/ LookupCut
    PROVE  EndSession \/ UNCHANGED <<conn, heard>>
BY DEF Confirmations, ConfirmationsCut, Recheck, RecheckCut, Lookup, LookupCut, Interrupted,
       node, world, history

\* and leaves the ring alone.
LEMMA BatchTrack ==
    ASSUME IInv, RInv, Batch, EndSession \/ UNCHANGED <<conn, heard>>
    PROVE  RInv'
<1>1. PICK s \in Within(c) : /\ Install(s) /\ UNCHANGED <<chain, last>>
                             /\ EndSession \/ Onward
  BY DEF Batch
<1>2. c' = c
  BY <1>1 DEF Install, Within
<1>3. CASE EndSession
  BY <1>1, <1>3, TrackEnds
<1>4. CASE ~EndSession
  <2>1. /\ UNCHANGED <<conn, heard, heads, views>> /\ work.pc \in Settling
        /\ \/ work' = work.next
           \/ work'.pc \in {"recheck", "lookup"} /\ work'.next = work.next
    BY <1>1, <1>4 DEF Batch, Onward, Settling
  <2> SUFFICES ASSUME heard
               PROVE  /\ conn /\ Queued(chain, heads) /\ Headers(c)
                      /\ OnTrack(chain, heads, work', views, c, last)
    BY <1>1, <1>2, <2>1 DEF RInv
  <2>2. /\ conn /\ Queued(chain, heads) /\ Headers(c)
        /\ Standing(c, last) /\ Arrived(chain, heads, c) /\ work.next = Idle
        /\ work.pc # "rescan" /\ views = {}
    BY <2>1 DEF RInv, OnTrack, Settling
  <2>3. work' = Idle \/ (work'.pc \in {"recheck", "lookup"} /\ work'.next = Idle)
    BY <2>1, <2>2
  <2>4. work'.pc \in {"idle"} \cup Settling /\ (work'.pc \in Settling => work'.next = Idle)
        /\ work'.pc \notin Handling
    BY <2>3 DEF Idle, Settling, Handling
  <2>5. OnTrack(chain, heads, work', views, c, last)
    BY <2>2, <2>4 DEF OnTrack, Handling
  <2> QED
    BY <2>2, <2>5
<1> QED
  BY <1>3, <1>4

\* Nothing is caught up with while every head is heard.
LEMMA CatchUpTrack ==
    ASSUME RInv, CatchUpHead \/ DrainHead \/ DrainBlock \/ FillBlock \/ CaughtUp PROVE RInv'
<1>1. work.pc \in {"catchup", "fill", "drain"}
  BY DEF CatchUpHead, DrainHead, DrainBlock, FillBlock, CaughtUp
<1>2. ~heard
  BY <1>1 DEF RInv, OnTrack, Settling, Handling
<1>3. UNCHANGED chain /\ (heard' = heard \/ EndSession)
  BY DEF CatchUpHead, DrainHead, DrainBlock, FillBlock, CaughtUp, NotServed, node, world, history
<1> QED
  BY <1>2, <1>3, TrackUnheard DEF EndSession

\* Every step keeps it, on a chain that does not reorg while a scan prefetches.
LEMMA NextTrack == ASSUME ~MidScan, IInv, RInv, InReach, [Next]_vars PROVE RInv'
<1>1. Types
  BY DEF IInv
<1>2. CASE NodeStep
  <2>1. ASSUME NEW k \in 1..Bound.height, NEW b1 \in Body, Reorg(k, <<b1>>) PROVE RInv'
    <3>1. <<b1>> \in Seq(Body) /\ Len(<<b1>>) \in 1..2
      OBVIOUS
    <3> QED
      BY <1>1, <2>1, <3>1, ReorgTrack
  <2>2. ASSUME NEW k \in 1..Bound.height, NEW b1 \in Body, NEW b2 \in Body, Reorg(k, <<b1, b2>>)
        PROVE  RInv'
    <3>1. <<b1, b2>> \in Seq(Body) /\ Len(<<b1, b2>>) \in 1..2
      OBVIOUS
    <3> QED
      BY <1>1, <2>2, <3>1, ReorgTrack
  <2>3. ASSUME NEW h \in Hash, Gossip(h) \/ Expire(h) PROVE RInv'
    BY <2>3, TrackStays DEF Gossip, Expire, world, memory, history
  <2>4. CASE Finalize \/ Break \/ Mend
    BY <2>4, TrackStays DEF Finalize, Break, Mend, memory, history
  <2> QED
    BY <1>1, <1>2, <2>1, <2>2, <2>3, <2>4, ExtendTrack DEF NodeStep
<1>3. CASE Fail \/ Crash \/ Stop
  BY <1>3, TrackEnds DEF Fail, Crash, Stop, world
<1>4. CASE Reconnect
  <2>1. ~heard' /\ UNCHANGED chain
    BY <1>4 DEF Reconnect, RInv, node, world, history
  <2> QED
    BY <2>1, TrackUnheard
<1>5. CASE UNCHANGED vars
  BY <1>5, TrackStays DEF vars, node, world, memory, history
<1>6. ASSUME NEW h \in Hash, Notify(h) PROVE RInv'
  <2>1. UNCHANGED <<chain, heads, conn, work, views, last, heard>>
    BY <1>6 DEF Notify, node, world, history
  <2>2. c' = c
    <3>1. c' = Calling(Here, LAMBDA x : OnPending(x, h, CallLegs[h])).c
      BY <1>6 DEF Notify, Install
    <3>2. Calling(Here, LAMBDA x : OnPending(x, h, CallLegs[h])) =
            emitAll(Here, OnPending(t, h, CallLegs[h]))
      BY DEF Calling, Here
    <3>3. emitAll(Here, OnPending(t, h, CallLegs[h])).c = c
      BY DEF emitAll, Here
    <3> QED
      BY <3>1, <3>2, <3>3
  <2> QED
    BY <2>1, <2>2, TrackStays
<1>7. CASE onHead
  BY <1>1, <1>7, HeadTrack
<1>8. CASE HandlerStep
  BY <1>8, ExtendBlockTrack, ExtendedTrack, CatchUpTrack, WalkTrack, RescanBlockTrack,
     RescannedTrack, ConfirmationsBatch, RecheckBatch, LookupBatch, BatchSession, BatchTrack
     DEF HandlerStep
<1> QED
  BY <1>2, <1>3, <1>4, <1>5, <1>6, <1>7, <1>8, ConfirmationsBatch, RecheckBatch, LookupBatch,
     BatchSession, BatchTrack DEF Next

\* At first the ring is empty.
LEMMA InitTrack == ASSUME Init PROVE RInv
<1>1. /\ heads = <<>> /\ conn /\ work = Idle /\ views = {} /\ last = 0
      /\ c = newChainState /\ heard
  BY DEF Init, Idle
<1>2. c.tip = NoRef /\ \A i \in 0..(RingSize - 1) : c.refs[i] = NoRef
  BY <1>1 DEF newChainState
<1>3. Headers(c) /\ Standing(c, last) /\ Arrived(chain, heads, c)
  BY <1>1, <1>2 DEF Headers, Standing, Lined, Arrived
<1>4. Queued(chain, heads)
  BY <1>1 DEF Queued
<1>5. work.pc = "idle"
  BY <1>1 DEF Idle
<1>6. OnTrack(chain, heads, work, views, c, last)
  BY <1>1, <1>3, <1>5 DEF OnTrack, Settling, Handling
<1> QED
  BY <1>1, <1>3, <1>4, <1>6 DEF RInv

\* Between two handlers the headers up to lastProcessed are of one chain,
LEMMA TrackLinked == ASSUME IInv, RInv PROVE RingLinked
<1> SUFFICES ASSUME work = Idle, heard, NEW n \in (floorOf(c) + 1)..last, Held(c, n), Held(c, n - 1)
             PROVE  Parent(at(c, n).hash) = at(c, n - 1).hash
  BY DEF RingLinked, Quiet
<1>1. work.pc = "idle" /\ c \in Ring /\ last \in Nat /\ floorOf(c) \in Nat
  BY Typed, RingNumbers DEF IInv, Idle
<1>2. Headers(c) /\ Standing(c, last)
  BY <1>1 DEF RInv, OnTrack
<1>3. n \in Nat /\ n - 1 \in Nat /\ n <= last /\ last # 0 /\ n # 0
  BY <1>1
<1>4. c.tip # NoRef /\ last = c.tip.num /\ c.tip.hash \in Block
  BY <1>1, <1>2, <1>3, HeaderFacts DEF Standing
<1>5. /\ at(c, n).hash \in Block /\ Len(at(c, n).hash) = n
      /\ at(c, n - 1).hash \in Block /\ Len(at(c, n - 1).hash) = n - 1
  BY <1>1, <1>2, <1>3, HeldHeader
<1>6. Holds(c.tip.hash, at(c, n).hash) /\ Holds(c.tip.hash, at(c, n - 1).hash)
  <2>1. n \in 0..c.tip.num /\ n - 1 \in 0..c.tip.num
    BY <1>1, <1>3, <1>4
  <2> QED
    BY <1>2, <1>4, <2>1 DEF Standing, Lined, OnLine
<1>7. n = n - 1 + 1
  BY <1>3
<1> QED
  BY <1>4, <1>5, <1>6, <1>7, HeldParent

\* and once no head waits the last of them is the node's.
LEMMA TrackReaches == ASSUME IInv, RInv PROVE ReachesHead
<1> SUFFICES ASSUME Quiet, heard, last > 0 PROVE Settled
  BY DEF ReachesHead
<1>1. work.pc = "idle" /\ heads = <<>> /\ c \in Ring
  BY Typed DEF IInv, Idle, Quiet
<1>2. Headers(c) /\ Standing(c, last) /\ Arrived(chain, heads, c)
  BY <1>1 DEF RInv, OnTrack
<1>3. c.tip # NoRef /\ last = c.tip.num
  BY <1>2 DEF Standing
<1>4. c.tip.hash = chain /\ c.tip.num = Len(c.tip.hash)
  BY <1>1, <1>2, <1>3, HeaderFacts DEF Arrived, Behind
<1> QED
  BY <1>3, <1>4 DEF Settled

-----------------------------------------------------------------------------
(* Theorems *)

\* The invariant holds in every reachable state.
THEOREM Invariant == Spec => []IInv
<1>1. Init => IInv
  BY InitKept
<1>2. IInv /\ [Next]_vars => IInv'
  BY NextKept
<1> QED
  BY <1>1, <1>2, PTL DEF Spec

\* Every variable keeps its type.
THEOREM TypeCorrect == Spec => []TypeOK
<1>1. IInv => TypeOK
  <2> SUFFICES ASSUME IInv PROVE TypeOK
    OBVIOUS
  <2>1. t \in TrackerState
    BY DEF IInv, Stored, Good
  <2>2. work.pc \in {"idle", "extend", "extended", "catchup", "fill", "drain",
                     "walk", "rescan", "life", "recheck", "lookup"}
    BY WorkCases DEF IInv, Types, WorkType
  <2> QED
    BY <2>1, <2>2 DEF IInv, Types, ChainType, MemoryType, WorkType, TypeOK
<1> QED
  BY <1>1, Invariant, PTL

\* A crash loses no followed payment.
THEOREM FollowedIsStored == ASSUME Keyed PROVE Spec => []TrackedIsStored
<1>1. IInv => TrackedIsStored
  BY DEF IInv, Stored
<1> QED
  BY <1>1, Invariant, PTL

\* Once a block is processed, no pending transaction known to hold a slot that
\* one of its transactions used is left (OnNonceUsed, for every one of them).
THEOREM UsedSlotsReplaced == Spec => KnownSlotsReplaced
<1>1. IInv /\ [Next]_vars => [~LeftPending(TRUE)]_vars
  BY NextClears DEF LeftPending
<1> QED
  BY <1>1, Invariant, PTL DEF Spec, KnownSlotsReplaced

\* A restored pending transaction leaves the list only once it is resolved or
\* the node, asked for its receipt and then for it, still has it: an error in
\* between, at any point, does not lose it (updateLifecycles).
THEOREM RestoredNotLost == Spec => RestoredResolved
<1>1. Init => LInv
  BY DEF Init, LInv, Listed, Counted
<1>2. IInv /\ LInv /\ [Next]_vars => LInv'
  BY NextListed
<1>3. IInv /\ LInv /\ [Next]_vars =>
        [\A h \in restored \ restored' :
           IsPending(t', h) /\ spent'.crashes = spent.crashes =>
               work.pc = "lookup" /\ h \in work.hashes /\ ~t'.txs[h].stale]_vars
  BY NextListed
<1> QED
  BY <1>1, <1>2, <1>3, Invariant, PTL DEF Spec, RestoredResolved

\* `confirmed' is reported only at the configured depth of the node's chain or,
\* by tag, at or below the number the node has finalized: for every block, in
\* every handler, whichever head it works for.  By depth it needs a node whose
\* head is never lower than before (the code counts from the highest header it
\* has seen), by tag nothing.
THEOREM ConfirmedIsDeep == ASSUME TagMode \/ ~MayLower PROVE Spec => []DepthReached
<1> DEFINE J == IInv /\ (~MayLower => Low) /\ DepthReached
<1>1. Init => J
  <2> SUFFICES ASSUME Init PROVE J
    OBVIOUS
  <2>1. IInv /\ Low
    BY InitKept, InitLow
  <2>2. out = {}
    BY DEF Init
  <2> QED
    BY <2>1, <2>2 DEF DepthReached
<1>2. J /\ [Next]_vars => J'
  <2> SUFFICES ASSUME J, [Next]_vars PROVE J'
    OBVIOUS
  <2>1. IInv'
    BY NextKept
  <2>2. ~MayLower => Low'
    BY LowKept DEF NoneLower
  <2>3. DepthReached'
    BY DeepKept
  <2> QED
    BY <2>1, <2>2, <2>3
<1>3. J => DepthReached
  OBVIOUS
<1> HIDE DEF J
<1> QED
  BY <1>1, <1>2, <1>3, PTL DEF Spec

\* On a chain that grows without reorgs no height between the first block
\* followed and lastProcessed is skipped, whatever sessions fail, heads go
\* unannounced and processes crash or stop (onHead, catchUpScan, saveState).
\* It needs a chain that does not reorg and blocks young enough to be caught
\* up with: an interrupted catch-up on a chain that reorgs leaves a hole.
THEOREM NoHeightSkipped == ASSUME Steady PROVE Spec => []NoSkippedHeight
<1> DEFINE J == IInv /\ LInv /\ Low /\ HInv
<1>1. Init => J
  <2> SUFFICES ASSUME Init PROVE J
    OBVIOUS
  <2>1. IInv /\ Low
    BY InitKept, InitLow
  <2>2. LInv
    BY DEF Init, LInv, Listed, Counted
  <2>3. HInv
    BY InitHeights
  <2> QED
    BY <2>1, <2>2, <2>3
<1>2. J /\ [Next]_vars => J'
  <2> SUFFICES ASSUME J, [Next]_vars PROVE J'
    OBVIOUS
  <2>1. IInv'
    BY NextKept
  <2>2. LInv'
    BY NextListed
  <2>3. Counted
    BY DEF LInv
  <2>4. Low'
    BY <2>3, NoReorgs, LowKept DEF NoneLower
  <2>5. HInv'
    BY <2>3, HeightsKept
  <2> QED
    BY <2>1, <2>2, <2>4, <2>5
<1>3. J => NoSkippedHeight
  BY NothingSkipped DEF IInv
<1> HIDE DEF J
<1> QED
  BY <1>1, <1>2, <1>3, PTL DEF Spec

\* A payment confirmed by the finality tag stands in a finalized block for good:
\* whether OnMined confirmed it in the block a scan read, at or below the cached
\* number, or updateLifecycles at its fresh receipt, and whatever was restored in
\* between.  It needs a node that finalizes nothing against what it announced or
\* showed to a scan that is still under way (the code compares no hashes).
THEOREM FinalStaysFinal == ASSUME ~FinalAhead PROVE Spec => []FinalKept
<1>1. CASE TagMode
  <2> DEFINE J == IInv /\ FInv
  <2>1. Init => J
    BY InitKept, InitFinal
  <2>2. J /\ [Next]_vars => J'
    BY <1>1, NextKept, FinalStays
  <2>3. J => FinalKept
    BY DEF FInv, Lasting, Here, RowsDecided, Decided, FinalKept
  <2> HIDE DEF J
  <2> QED
    BY <2>1, <2>2, <2>3, PTL DEF Spec
<1>2. CASE ~TagMode
  <2>1. Init => FinalKept
    BY <1>2 DEF FinalKept
  <2>2. FinalKept /\ [Next]_vars => FinalKept'
    BY <1>2 DEF FinalKept
  <2> QED
    BY <2>1, <2>2, PTL DEF Spec
<1> QED
  BY <1>1, <1>2

\* A ring longer than the chain reaches every fork.
THEOREM ForksInReach == ASSUME RingSize > Bound.height PROVE Spec => []InReach
<1>1. IInv => InReach
  <2> SUFFICES ASSUME IInv, work.pc = "walk"
               PROVE  /\ floorOf(c) < work.head
                      /\ \A n \in 0..floorOf(c) : Held(c, n) => Canonical(at(c, n).hash)
    BY DEF InReach
  <2>1. c \in Ring /\ work.head \in Heights /\ Bound.height \in Nat /\ RingSize \in Nat
    BY Typed, WorkCases, IndexerAssumption, RingAssumption DEF IInv
  <2>2. c.tip # NoRef => c.tip.num \in 1..Bound.height
    BY <2>1, RingNumbers DEF Heights
  <2>3. floorOf(c) = 0
    BY <2>1, <2>2 DEF floorOf
  <2>4. ~Held(c, 0)
    <3>1. Held(c, 0) => at(c, 0).num \in 1..Bound.height /\ at(c, 0).num = 0
      BY <2>1, RingNumbers DEF HeaderRef, Heights, Held, at
    <3> QED
      BY <2>1, <3>1
  <2> QED
    BY <2>1, <2>3, <2>4 DEF Heights
<1> QED
  BY <1>1, Invariant, PTL

\* The headers held link up whenever no handler is at work, so that findAncestor,
\* which compares them with the node's from the top, finds the fork: after any
\* heads, reorgs and lower heads, failed or not (chainState, handleReorg, resetTip).
\* It needs forks above the ring's floor and no reorg during a scan's prefetch.
THEOREM RingIsLinked == ASSUME ~MidScan PROVE Spec /\ []InReach => []RingLinked
<1> DEFINE J == IInv /\ RInv
<1>1. Init => J
  BY InitKept, InitTrack
<1>2. J /\ InReach /\ [Next]_vars => J'
  BY NextKept, NextTrack
<1>3. J => RingLinked
  BY TrackLinked
<1> HIDE DEF J
<1> QED
  BY <1>1, <1>2, <1>3, PTL DEF Spec

\* After every announced head is handled the indexer stands at the node's head,
\* lower ones too (handleReorg, resetTip), whatever the chain comes back to.
THEOREM HeadReached == ASSUME ~MidScan PROVE Spec /\ []InReach => []ReachesHead
<1> DEFINE J == IInv /\ RInv
<1>1. Init => J
  BY InitKept, InitTrack
<1>2. J /\ InReach /\ [Next]_vars => J'
  BY NextKept, NextTrack
<1>3. J => ReachesHead
  BY TrackReaches
<1> HIDE DEF J
<1> QED
  BY <1>1, <1>2, <1>3, PTL DEF Spec

=============================================================================
