---------------------------- MODULE TrackerProofs ----------------------------
(***************************************************************************)
(* Proofs about the tracker under every caller: its invariants, and that   *)
(* it implements the life cycle of Lifecycle.tla.                          *)
(*                                                                         *)
(* Each action is a method or two in sequence, and each method keeps Good  *)
(* (TrackerOpsProofs).  On any such state each method makes a legal move   *)
(* of every transaction and announces it (Legal), and keeps what it knows  *)
(* of where a transaction was first seen (KeepsSeen).                      *)
(*                                                                         *)
(* Then about the memory of endings as bury implements it (Tombstones).    *)
(* MemoryInv says what its two structures owe each other: FIFO entries are *)
(* in the order of their burials and every tombstone has its entry, which  *)
(* FifoBounded needs because compaction throws away everything but         *)
(* matching entries and eviction looks for a victim in the FIFO only.      *)
(* Lemmas on selection (Only) show that burial, eviction and compaction    *)
(* act on the matching entries as on a queue; this gives both refinements. *)
(***************************************************************************)
EXTENDS Tracker, Tombstones, TrackerOpsProofs, QueueLemmas

-----------------------------------------------------------------------------
(* The invariant *)

IInv == Good(t) /\ evs \subseteq Hash \X EventType

\* What a step announces is typed by the events it returned.
LEMMA ToldNamed ==
    ASSUME NEW E, Named(E)
    PROVE  Told(E) \subseteq Hash \X EventType
BY DEF Told, Named

\* A step that installs a sound result keeps the invariant.
LEMMA BecomesIInv ==
    ASSUME NEW r, Sound(r), Becomes(r)
    PROVE  IInv'
BY ToldNamed DEF Sound, Becomes, IInv, Good, Exact, Absent, Founded, Apart

\* The empty tracker satisfies the invariant.
LEMMA InitIInv == Init => IInv
<1>1. NewTracker \in TrackerState
  BY NoTxType DEF NewTracker, TrackerState, NoMemory, Memory
<1>2. \A h \in Hash : NewTracker.txs[h] = NoTx /\ NewTracker.txs[h].state = "none"
  BY DEF NewTracker, NoTx
<1>3. Absent(NewTracker.txs) /\ Founded(NewTracker.txs)
      /\ Apart(NewTracker.txs, NewTracker.tombstones)
  BY <1>2 DEF Absent, Founded, Apart
<1>4. Exact(NewTracker.txs, NewTracker.byNonce)
  BY DEF Exact, NewTracker, NoTx
<1> QED
  BY <1>1, <1>3, <1>4 DEF Init, IInv, Good

\* Every step keeps the invariant.
LEMMA NextIInv == IInv /\ [Next]_vars => IInv'
<1> SUFFICES ASSUME IInv, [Next]_vars PROVE IInv'
  OBVIOUS
<1>0. Good(t) /\ evs \subseteq Hash \X EventType
  BY DEF IInv
<1>1. CASE \E h \in Hash : Pending(h)
  <2>1. PICK h \in Hash, matches \in PendingLegs : Becomes(OnPending(t, h, matches))
    BY <1>1 DEF Pending
  <2>2. matches \in SUBSET LegKind
    BY LegsAssumption
  <2> QED
    BY <1>0, <2>1, <2>2, OnPendingSound, BecomesIInv
<1>2. CASE \E h \in Hash, b \in Block : Mined(h, b)
  <2>1. PICK h \in Hash, b \in Block, transfers \in BlockLegs \cup {{}},
             failed \in BOOLEAN : \E conf, fin, E :
               Becomes(OnMined(t, h, b, NumOf[b], transfers, failed, conf, fin, E))
    BY <1>2 DEF Mined
  <2>2. transfers \in SUBSET LegKind /\ NumOf[b] \in Nat \ {0}
    BY LegsAssumption, NumberAssumption
  <2> QED
    BY <1>0, <2>1, <2>2, OnMinedSound, BecomesIInv
<1>3. CASE \E s \in Slot : NonceUsed(s)
  <2>1. PICK s \in Slot : \E by \in Hash \cup {NoBlock} :
               \E E \in Evictions(t.tombstones, ReplacedOccupants(t, s, by)) :
                 Becomes(OnNonceUsed(t, s, by, E))
    BY <1>3 DEF NonceUsed
  <2> QED
    BY <1>0, <2>1, OnNonceUsedSound, BecomesIInv
<1>4. CASE \E h \in Hash : Verified(h)
  <2>1. PICK h \in Hash, head \in Number : \E E : Becomes(Confirm(t, h, head, E))
    BY <1>4 DEF Verified
  <2> QED
    BY <1>0, <2>1, ConfirmSound, BecomesIInv
<1>5. CASE \E h \in Hash : Vanished(h)
  <2>1. PICK h \in Hash : Becomes(Demote(t, h))
    BY <1>5 DEF Vanished
  <2> QED
    BY <1>0, <2>1, DemoteSound, BecomesIInv
<1>6. CASE \E h \in Hash, b \in Block : Moved(h, b)
  <2>0. PICK h \in Hash, b \in Block, failed \in BOOLEAN : \E conf, fin, E :
          LET d == Demote(t, h)
              m == OnMined(d.t, h, b, NumOf[b], {}, failed, conf, fin, E)
          IN  t' = m.t /\ evs' = Told(d.evs) \cup Told(m.evs)
    BY <1>6 DEF Moved
  <2>1. PICK conf, fin, E :
          LET d == Demote(t, h)
              m == OnMined(d.t, h, b, NumOf[b], {}, failed, conf, fin, E)
          IN  t' = m.t /\ evs' = Told(d.evs) \cup Told(m.evs)
    BY <2>0
  <2> DEFINE d == Demote(t, h)
             m == OnMined(d.t, h, b, NumOf[b], {}, failed, conf, fin, E)
  <2>2. Sound(d)
    BY <1>0, DemoteSound
  <2>3. {} \in SUBSET LegKind /\ NumOf[b] \in Nat \ {0}
    BY NumberAssumption
  <2>4. Sound(m)
    BY <2>2, <2>3, OnMinedSound DEF Sound
  <2>5. t' = m.t /\ evs' = Told(d.evs) \cup Told(m.evs)
    BY <2>1
  <2> HIDE DEF d, m
  <2>6. Good(m.t) /\ Named(m.evs) /\ Named(d.evs)
    BY <2>2, <2>4 DEF Sound
  <2>7. evs' \subseteq Hash \X EventType
    BY <2>5, <2>6, ToldNamed
  <2> QED
    BY <2>5, <2>6, <2>7 DEF IInv, Good, Exact, Absent, Founded, Apart
<1>7. CASE \E h \in Hash, known \in BOOLEAN : Recheck(h, known)
  <2>1. PICK h \in Hash, known \in BOOLEAN : \E E : Becomes(OnDropStale(t, h, known, E))
    BY <1>7 DEF Recheck
  <2> QED
    BY <1>0, <2>1, OnDropStaleSound, BecomesIInv
<1>8. CASE \E ancestor \in Number : Reorg(ancestor)
  <2>1. PICK ancestor \in Number : Becomes(OnReorg(t, ancestor))
    BY <1>8 DEF Reorg
  <2> QED
    BY <1>0, <2>1, OnReorgSound, BecomesIInv
<1>9. CASE \E h \in Hash : Expire(h)
  <2>1. PICK h \in Hash : Expire(h)
    BY <1>9
  <2> DEFINE txs == [t.txs EXCEPT ![h].stale = TRUE]
  <2>2. t' = [t EXCEPT !.txs = txs] /\ evs' = {} /\ t.txs[h].state = "pending"
    BY <1>0, <2>1 DEF Expire, IsPending, Good, TrackerState
  <2>3. /\ t.txs \in [Hash -> Tx]
        /\ t.byNonce \in [Slot -> [Hash -> Nat]]
        /\ t.tombstones \in Memory
    BY <1>0 DEF Good, TrackerState
  <2>4. /\ txs \in [Hash -> Tx]
        /\ \A g \in Hash : /\ txs[g].state = t.txs[g].state
                           /\ txs[g].hasNonce = t.txs[g].hasNonce
                           /\ txs[g].legs = t.txs[g].legs
                           /\ txs[g].auth = t.txs[g].auth
                           /\ txs[g].block = t.txs[g].block
                           /\ txs[g].firstSeenBlock = t.txs[g].firstSeenBlock
                           /\ t.txs[g].state = "none" => txs[g] = t.txs[g]
    BY <2>2, <2>3 DEF Tx
  <2> HIDE DEF txs
  <2>5. Exact(txs, t.byNonce) /\ Absent(txs) /\ Founded(txs) /\ Apart(txs, t.tombstones)
    BY <1>0, <2>4, TimerGood
  <2>6. Good([t EXCEPT !.txs = txs])
    BY <1>0, <2>3, <2>4, <2>5 DEF Good, TrackerState
  <2> QED
    BY <2>2, <2>6 DEF IInv, Good, Exact, Absent, Founded, Apart
<1>10. CASE Restart
  <2>1. PICK old \in SUBSET {h \in Hash : IsPending(t, h)} :
          /\ t' = Import([h \in Hash |->
                      [ExportTx(t, h) EXCEPT !.stale = @ \/ h \in old]])
          /\ evs' = {}
    BY <1>10 DEF Restart
  <2> DEFINE rows == [h \in Hash |-> [ExportTx(t, h) EXCEPT !.stale = @ \/ h \in old]]
  <2>2. t.txs \in [Hash -> Tx]
    BY <1>0 DEF Good, TrackerState
  <2>3. ASSUME NEW h \in Hash
        PROVE  /\ rows[h] \in Tx
               /\ rows[h].state = t.txs[h].state
               /\ rows[h].legs = t.txs[h].legs
               /\ rows[h].auth = t.txs[h].auth
               /\ rows[h].firstSeenBlock = t.txs[h].firstSeenBlock
               /\ t.txs[h].state = "mined" => rows[h].block = t.txs[h].block
               /\ t.txs[h].state = "none" => rows[h] = t.txs[h]
    <3>1. rows[h] = RowOf(t, old, h)
      BY DEF RowOf
    <3> HIDE DEF rows
    <3> QED
      BY <1>0, <3>1, RowFields
  <2>4. rows \in [Hash -> Tx]
    BY <2>3
  <2>5. t' = Import(rows) /\ evs' = {}
    BY <2>1
  <2>6. Absent(rows) /\ Founded(rows)
    BY <1>0, <2>3 DEF Good, Absent, Founded
  <2> HIDE DEF rows
  <2>7. Good(Import(rows))
    BY <2>4, <2>6, ImportGood
  <2> QED
    BY <2>5, <2>7 DEF IInv, Good, Exact, Absent, Founded, Apart
<1>11. CASE UNCHANGED vars
  BY <1>0, <1>11 DEF vars, IInv, Good, Exact, Absent, Founded, Apart
<1> QED
  BY <1>1, <1>2, <1>3, <1>4, <1>5, <1>6, <1>7, <1>8, <1>9, <1>10, <1>11 DEF Next

\* The strengthened invariant holds throughout.
LEMMA Inductive == Spec => []IInv
BY InitIInv, NextIInv, PTL DEF Spec

-----------------------------------------------------------------------------
(***************************************************************************)
(* The tracker's maps keep their types under every order of block scans,   *)
(* notifications, reorgs, timeouts and restarts.                           *)
(***************************************************************************)
THEOREM TypeCorrect == Spec => []TypeOK
<1>1. IInv => TypeOK
  BY DEF IInv, Good, TypeOK
<1> QED
  BY <1>1, Inductive, PTL

(***************************************************************************)
(* The nonce index (byNonce) holds exactly the pending transactions with a *)
(* known slot, each once.                                                  *)
(***************************************************************************)
THEOREM IndexAlwaysExact == Spec => []NonceIndexExact
<1>1. IInv => NonceIndexExact
  BY DEF IInv, Good, Exact, NonceIndexExact, IsPending
<1> QED
  BY <1>1, Inductive, PTL

(***************************************************************************)
(* Only a dropped transaction seen again in the mempool is both followed   *)
(* and remembered as ended.                                                *)
(***************************************************************************)
THEOREM EndingsRevoked == Spec => []TrackedOrBuried
<1>1. IInv => TrackedOrBuried
  BY DEF IInv, Good, Apart, TrackedOrBuried, Tracked, IsPending
<1> QED
  BY <1>1, Inductive, PTL

(***************************************************************************)
(* A mined transaction rests on transfers a block showed, has a leg to     *)
(* report and knows its block.                                             *)
(***************************************************************************)
THEOREM MinedAlwaysFounded == Spec => []MinedIsFounded
<1>1. IInv => MinedIsFounded
  BY DEF IInv, Good, Founded, MinedIsFounded, Tracked, IsMined
<1> QED
  BY <1>1, Inductive, PTL

-----------------------------------------------------------------------------
(* The life cycle *)

\* The status of h in a tracker state.
Stat(st, h) == IF Tracked(st, h) THEN st.txs[h].state
               ELSE IF st.tombstones[h] # "none" THEN st.tombstones[h]
               ELSE "unknown"

\* The types announced for h.
Types(E, h) == {e.typ : e \in {x \in E : x.hash = h}}

\* h may go from s to u while T is announced for it.
Move(s, T, u) == <<s, T, u>> \in LC!Moves

Legal(st, r) == \A h \in Hash : Move(Stat(st, h), Types(r.evs, h), Stat(r.t, h))

KeepsSeen(st, r) ==
    \A h \in Hash : st.txs[h].firstSeenBlock > 0 /\ Tracked(r.t, h) =>
                        r.t.txs[h].firstSeenBlock = st.txs[h].firstSeenBlock

\* What every method promises of the transactions it touches.
Honest(st, r) == Legal(st, r) /\ KeepsSeen(st, r)

-----------------------------------------------------------------------------
\* The status of a transaction is one of the table's.
LEMMA StatType ==
    ASSUME NEW st, st \in TrackerState, NEW h \in Hash
    PROVE  Stat(st, h) \in LC!Status
<1>1. st.txs[h] \in Tx /\ st.tombstones[h] \in Terminal \cup {"none"}
  BY DEF TrackerState, Memory
<1>2. st.txs[h].state \in {"none", "pending", "mined"}
  BY <1>1 DEF Tx
<1> QED
  BY <1>1, <1>2 DEF Stat, Tracked, LC!Status, Terminal

\* The table of moves, read by what happens.
LEMMA Table ==
    /\ \A s \in LC!Status : Move(s, {}, s)
    /\ \A s \in Terminal : Move(s, {}, "unknown")
    /\ \A s \in {"unknown", "dropped"} : Move(s, {"pending"}, "pending")
    /\ \A s \in LC!Status \ {"confirmed"}, v \in {"mined", "confirmed", "failed"} :
           Move(s, {v}, v)
    /\ \A s \in LC!Status \ {"confirmed", "mined"} : Move(s, {}, "failed")
    /\ Move("pending", {"dropped"}, "dropped")
    /\ Move("pending", {"replaced"}, "replaced") /\ Move("pending", {"replaced"}, "unknown")
    /\ Move("mined", {"reorged"}, "pending")
    /\ \A v \in {"mined", "confirmed", "failed"} : Move("mined", {"reorged", v}, v)
<1>1. \A s \in LC!Status : Move(s, {}, s)
  BY DEF Move, LC!Moves
<1>2. \A s \in Terminal : Move(s, {}, "unknown")
  BY DEF Move, LC!Moves, Terminal
<1>3. \A s \in {"unknown", "dropped"} : Move(s, {"pending"}, "pending")
  BY DEF Move, LC!Moves
<1>4. \A s \in LC!Status \ {"confirmed"}, v \in {"mined", "confirmed", "failed"} :
           Move(s, {v}, v)
  BY DEF Move, LC!Moves, LC!Discovery, LC!Status
<1>5. \A s \in LC!Status \ {"confirmed", "mined"} : Move(s, {}, "failed")
  BY DEF Move, LC!Moves, LC!Discovery, LC!Status
<1>6. /\ Move("pending", {"dropped"}, "dropped")
      /\ Move("pending", {"replaced"}, "replaced") /\ Move("pending", {"replaced"}, "unknown")
      /\ Move("mined", {"reorged"}, "pending")
  BY DEF Move, LC!Moves
<1>7. \A v \in {"mined", "confirmed", "failed"} : Move("mined", {"reorged", v}, v)
  BY DEF Move, LC!Moves
<1> QED
  BY <1>1, <1>2, <1>3, <1>4, <1>5, <1>6, <1>7

\* events announces its type for the members of R that have a leg.
LEMMA TypesOfEvents ==
    ASSUME NEW txs, NEW R, NEW typ, NEW conf, NEW by, NEW h
    PROVE  /\ h \in R /\ txs[h].legs # {} => Types(events(txs, R, typ, conf, by), h) = {typ}
           /\ h \notin R \/ txs[h].legs = {} => Types(events(txs, R, typ, conf, by), h) = {}
<1> DEFINE E == events(txs, R, typ, conf, by)
<1>1. \A e \in E : e.typ = typ /\ e.hash \in R /\ txs[e.hash].legs # {}
  BY DEF events
<1>2. ASSUME h \in R, txs[h].legs # {} PROVE \E e \in E : e.hash = h
  <2> DEFINE e == [typ |-> typ, hash |-> h, tx |-> txs[h], conf |-> conf, by |-> by]
  <2>1. e \in E
    BY <1>2 DEF events
  <2> QED
    BY <2>1
<1> HIDE DEF E
<1>3. h \in R /\ txs[h].legs # {} => Types(E, h) = {typ}
  BY <1>1, <1>2 DEF Types
<1>4. h \notin R \/ txs[h].legs = {} => Types(E, h) = {}
  BY <1>1 DEF Types
<1> QED
  BY <1>3, <1>4 DEF E

\* Burying one hash never pushes that hash itself out.
LEMMA NewestStays ==
    ASSUME NEW m \in Memory, NEW h \in Hash, NEW E \in Evictions(m, {h})
    PROVE  h \notin E
<1> DEFINE kept == Buried(m) \cup {h}
<1>1. IsFiniteSet(kept)
  <2>1. kept \subseteq Hash
    BY DEF Buried
  <2> HIDE DEF kept
  <2> QED
    BY <2>1, HashAssumption, FS_Subset
<1>2. Cardinality(kept) \in Nat
  BY <1>1, FS_CardinalityType
<1>3. CASE Cardinality(kept) <= Cap
  BY <1>3 DEF Evictions
<1>4. CASE ~(Cardinality(kept) <= Cap)
  <2>1. /\ E \subseteq kept /\ Cardinality(E) = Cardinality(kept) - Cap
        /\ E \cap {h} # {} => (Buried(m) \ {h}) \subseteq E
    BY <1>4 DEF Evictions
  <2>2. h \in E => E = kept
    BY <2>1
  <2> HIDE DEF kept
  <2> QED
    BY <1>2, <2>1, <2>2, CapAssumption
<1> QED
  BY <1>3, <1>4

\* A transaction the call is not about keeps its entry; at most its ending is
\* forgotten, unannounced.
LEMMA Bystander ==
    ASSUME NEW st, st \in TrackerState, NEW r, NEW g \in Hash,
           r.t.txs[g] = st.txs[g], r.t.tombstones[g] \in {"none", st.tombstones[g]},
           Types(r.evs, g) = {}
    PROVE  Move(Stat(st, g), Types(r.evs, g), Stat(r.t, g))
<1>1. CASE Stat(r.t, g) = Stat(st, g)
  BY <1>1, StatType, Table
<1>2. CASE Stat(r.t, g) # Stat(st, g)
  <2>1. /\ Stat(r.t, g) = "unknown" /\ Stat(st, g) = st.tombstones[g]
        /\ st.tombstones[g] # "none"
    BY <1>2 DEF Stat, Tracked
  <2>2. st.tombstones[g] \in Terminal
    BY <2>1 DEF TrackerState, Memory
  <2> QED
    BY <2>1, <2>2, Table
<1> QED
  BY <1>1, <1>2

\* A call that does nothing is honest.
LEMMA UnheardHonest ==
    ASSUME NEW st, st \in TrackerState
    PROVE  Honest(st, Unheard(st))
<1>1. \A h \in Hash : Types(Unheard(st).evs, h) = {}
  BY DEF Types, Unheard
<1>2. Unheard(st).t = st
  BY DEF Unheard
<1> QED
  BY <1>1, <1>2, Bystander DEF Honest, Legal, KeepsSeen

\* A call about other transactions: at most g's ending is forgotten.
Elsewhere(st, r, g) == /\ r.t.txs[g] = st.txs[g]
                       /\ r.t.tombstones[g] \in {"none", st.tombstones[g]}
                       /\ Types(r.evs, g) = {}
\* A call that is honest about g.
HonestOf(st, r, g) == /\ Move(Stat(st, g), Types(r.evs, g), Stat(r.t, g))
                      /\ st.txs[g].firstSeenBlock > 0 /\ Tracked(r.t, g) =>
                           r.t.txs[g].firstSeenBlock = st.txs[g].firstSeenBlock

\* A call is honest when it is about R alone and honest about R.
LEMMA HonestAbout ==
    ASSUME NEW st, st \in TrackerState, NEW r, NEW R \in SUBSET Hash,
           \A g \in Hash \ R : Elsewhere(st, r, g),
           \A g \in R : HonestOf(st, r, g)
    PROVE  Honest(st, r)
<1>1. ASSUME NEW g \in Hash \ R
      PROVE  Move(Stat(st, g), Types(r.evs, g), Stat(r.t, g))
  BY Bystander DEF Elsewhere
<1>2. Legal(st, r)
  BY <1>1 DEF Legal, HonestOf
<1>3. KeepsSeen(st, r)
  BY DEF KeepsSeen, Elsewhere, HonestOf
<1> QED
  BY <1>2, <1>3 DEF Honest

\* The same for a call about one transaction.
LEMMA HonestAboutOne ==
    ASSUME NEW st, st \in TrackerState, NEW r, NEW h \in Hash,
           \A g \in Hash \ {h} : Elsewhere(st, r, g), HonestOf(st, r, h)
    PROVE  Honest(st, r)
<1> DEFINE R == {h}
<1>1. R \in SUBSET Hash /\ (\A g \in Hash \ R : Elsewhere(st, r, g))
      /\ (\A g \in R : HonestOf(st, r, g))
  OBVIOUS
<1> HIDE DEF R
<1> QED
  BY <1>1, HonestAbout

-----------------------------------------------------------------------------
(* The methods *)

\* OnPending announces a transaction that is unknown or was dropped.
LEMMA OnPendingHonest ==
    ASSUME NEW st, Good(st), NEW h \in Hash, NEW matches \in SUBSET LegKind
    PROVE  Honest(st, OnPending(st, h, matches))
<1>0. st \in TrackerState /\ st.txs \in [Hash -> Tx]
  BY DEF Good, TrackerState
<1>1. CASE matches = {} \/ ~Refollows(st, h)
  BY <1>0, <1>1, UnheardHonest DEF OnPending
<1>2. CASE matches # {} /\ Refollows(st, h)
  <2> DEFINE txs == [st.txs EXCEPT ![h] = PendingTx(matches)]
             r   == OnPending(st, h, matches)
  <2>1. /\ PendingTx(matches).state = "pending" /\ PendingTx(matches).legs = matches
    BY DEF PendingTx, NoTx
  <2>2. txs[h] = PendingTx(matches) /\ \A g \in Hash \ {h} : txs[g] = st.txs[g]
    BY <1>0
  <2>3. /\ r.t.txs = txs /\ r.t.tombstones = st.tombstones
        /\ r.evs = events(txs, {h}, "pending", 0, {})
    BY <1>0, <1>2 DEF OnPending, TrackerState
  <2> HIDE DEF txs, r
  <2>4. Types(r.evs, h) = {"pending"} /\ \A g \in Hash \ {h} : Types(r.evs, g) = {}
    BY <1>2, <2>1, <2>2, <2>3, TypesOfEvents
  <2>5. Stat(st, h) \in {"unknown", "dropped"} /\ Stat(r.t, h) = "pending"
    BY <1>2, <2>1, <2>2, <2>3 DEF Refollows, Stat, Tracked
  <2>6. st.txs[h].firstSeenBlock = 0
    BY <1>2 DEF Good, Absent, NoTx, Refollows, Tracked
  <2>7. Move(Stat(st, h), Types(r.evs, h), Stat(r.t, h))
    BY <2>4, <2>5, Table
  <2>8. HonestOf(st, r, h) /\ \A g \in Hash \ {h} : Elsewhere(st, r, g)
    BY <2>2, <2>3, <2>4, <2>6, <2>7 DEF HonestOf, Elsewhere
  <2>9. Honest(st, r)
    BY <1>0, <2>8, HonestAboutOne
  <2> QED
    BY <2>9 DEF r
<1> QED
  BY <1>1, <1>2

\* Ending the pending transactions of R with an announcement is honest; a
\* member's ending may be forgotten at once only when it was replaced.
LEMMA EndHonest ==
    ASSUME NEW st, Good(st), NEW R \in SUBSET Hash, NEW E,
           NEW typ \in {"dropped", "replaced"},
           \A g \in R : IsPending(st, g), typ = "dropped" => R \cap E = {},
           NEW by, NEW r,
           r.t = End(st, R, typ, E), r.evs = events(st.txs, R, typ, 0, by)
    PROVE  Honest(st, r)
<1>0. st \in TrackerState /\ st.txs \in [Hash -> Tx]
  BY DEF Good, TrackerState
<1>1. \A g \in Hash : /\ g \in R => r.t.txs[g] = NoTx
                      /\ g \notin R => r.t.txs[g] = st.txs[g]
                      /\ r.t.tombstones[g] = IF g \in E THEN "none"
                                             ELSE IF g \in R THEN typ ELSE st.tombstones[g]
  BY DEF End, Forget, Bury
<1>2. \A g \in Hash \ R : Types(r.evs, g) = {}
  BY TypesOfEvents
<1>3. ASSUME NEW g \in R
      PROVE  Move(Stat(st, g), Types(r.evs, g), Stat(r.t, g)) /\ ~Tracked(r.t, g)
  <2>1. Types(r.evs, g) = {typ}
    <3>1. st.txs[g].legs # {}
      BY DEF Good, Founded, IsPending
    <3> QED
      BY <3>1, TypesOfEvents
  <2>2. Stat(st, g) = "pending"
    BY DEF Stat, Tracked, IsPending
  <2>3. ~Tracked(r.t, g)
    BY <1>1 DEF Tracked, NoTx
  <2>4. Stat(r.t, g) = IF g \in E THEN "unknown" ELSE typ
    BY <1>1, <2>3 DEF Stat
  <2> QED
    BY <2>1, <2>2, <2>3, <2>4, Table
<1>4. /\ \A g \in R : HonestOf(st, r, g)
      /\ \A g \in Hash \ R : Elsewhere(st, r, g)
  BY <1>1, <1>2, <1>3 DEF HonestOf, Elsewhere
<1> QED
  BY <1>0, <1>4, HonestAbout

\* OnNonceUsed announces every pending occupant of the slot as replaced.
LEMMA OnNonceUsedHonest ==
    ASSUME NEW st, Good(st), NEW s \in Slot, NEW by, NEW E
    PROVE  Honest(st, OnNonceUsed(st, s, by, E))
<1> DEFINE R == ReplacedOccupants(st, s, by)
           r == OnNonceUsed(st, s, by, E)
<1>1. R \in SUBSET Hash /\ \A g \in R : IsPending(st, g)
  BY DEF ReplacedOccupants
<1>2. r.t = End(st, R, "replaced", E) /\ r.evs = events(st.txs, R, "replaced", 0, {by})
  BY DEF OnNonceUsed, End
<1> HIDE DEF R, r
<1>3. Honest(st, r)
  BY <1>1, <1>2, EndHonest
<1> QED
  BY <1>3 DEF r

\* OnDropStale resets a timer, or announces the drop.
LEMMA OnDropStaleHonest ==
    ASSUME NEW st, Good(st), NEW h \in Hash, NEW known \in BOOLEAN,
           NEW E \in Evictions(st.tombstones, {h})
    PROVE  Honest(st, OnDropStale(st, h, known, E))
<1> DEFINE r == OnDropStale(st, h, known, E)
<1>0. st \in TrackerState /\ st.txs \in [Hash -> Tx] /\ st.tombstones \in Memory
  BY DEF Good, TrackerState
<1>1. CASE ~IsPending(st, h)
  BY <1>0, <1>1, UnheardHonest DEF OnDropStale
<1>2. CASE IsPending(st, h) /\ known
  <2>1. /\ r.evs = {} /\ r.t.tombstones = st.tombstones
        /\ r.t.txs = [st.txs EXCEPT ![h].stale = FALSE]
    BY <1>0, <1>2 DEF OnDropStale, Unheard, TrackerState
  <2> HIDE DEF r
  <2>2. /\ \A g \in Hash \ {h} : r.t.txs[g] = st.txs[g]
        /\ r.t.txs[h].state = st.txs[h].state
        /\ r.t.txs[h].firstSeenBlock = st.txs[h].firstSeenBlock
    BY <1>0, <2>1 DEF Tx
  <2>3. \A g \in Hash : Types(r.evs, g) = {}
    BY <2>1 DEF Types
  <2>4. Stat(r.t, h) = Stat(st, h)
    BY <2>1, <2>2 DEF Stat, Tracked
  <2>5. Move(Stat(st, h), Types(r.evs, h), Stat(r.t, h))
    BY <1>0, <2>3, <2>4, StatType, Table
  <2>6. HonestOf(st, r, h) /\ \A g \in Hash \ {h} : Elsewhere(st, r, g)
    BY <2>1, <2>2, <2>3, <2>5 DEF HonestOf, Elsewhere
  <2>7. Honest(st, r)
    BY <1>0, <2>6, HonestAboutOne
  <2> QED
    BY <2>7 DEF r
<1>3. CASE IsPending(st, h) /\ ~known
  <2>1. /\ r.t = End(st, {h}, "dropped", E)
        /\ r.evs = events(st.txs, {h}, "dropped", 0, {})
    BY <1>3 DEF OnDropStale, End
  <2>2. h \notin E
    BY <1>0, NewestStays
  <2> HIDE DEF r
  <2>3. Honest(st, r)
    BY <1>3, <2>1, <2>2, EndHonest
  <2> QED
    BY <2>3 DEF r
<1> QED
  BY <1>1, <1>2, <1>3

\* What demoting R makes of the tracker's parts.
LEMMA DemoteAllParts ==
    ASSUME NEW st, st \in TrackerState, NEW R
    PROVE  /\ DemoteAll(st, R).t.txs =
                [h \in Hash |-> IF h \in R THEN DemotedTx(st.txs[h]) ELSE st.txs[h]]
           /\ DemoteAll(st, R).t.tombstones = st.tombstones
           /\ DemoteAll(st, R).evs = events(st.txs, R, "reorged", 0, {})
BY DEF DemoteAll, TrackerState

\* A demoted transaction keeps its legs, its authority and its first block.
LEMMA DemotedFields ==
    ASSUME NEW tx \in Tx
    PROVE  /\ DemotedTx(tx).state = "pending" /\ DemotedTx(tx).legs = tx.legs
           /\ DemotedTx(tx).auth = tx.auth
           /\ DemotedTx(tx).firstSeenBlock = tx.firstSeenBlock
BY DEF DemotedTx, Tx

\* Demotion announces the reorg of every mined transaction it is about.
LEMMA DemoteAllHonest ==
    ASSUME NEW st, Good(st), NEW R \in SUBSET Hash, \A h \in R : IsMined(st, h)
    PROVE  Honest(st, DemoteAll(st, R))
<1> DEFINE r == DemoteAll(st, R)
<1>0. st \in TrackerState /\ st.txs \in [Hash -> Tx]
  BY DEF Good, TrackerState
<1>1. /\ r.t.txs = [h \in Hash |-> IF h \in R THEN DemotedTx(st.txs[h]) ELSE st.txs[h]]
      /\ r.t.tombstones = st.tombstones
      /\ r.evs = events(st.txs, R, "reorged", 0, {})
  BY <1>0, DemoteAllParts
<1> HIDE DEF r
<1>2. \A g \in Hash \ R : r.t.txs[g] = st.txs[g] /\ Types(r.evs, g) = {}
  BY <1>1, TypesOfEvents
<1>3. ASSUME NEW g \in R
      PROVE  /\ Move(Stat(st, g), Types(r.evs, g), Stat(r.t, g))
             /\ r.t.txs[g].firstSeenBlock = st.txs[g].firstSeenBlock
  <2>1. st.txs[g] \in Tx /\ r.t.txs[g] = DemotedTx(st.txs[g])
    BY <1>0, <1>1
  <2>2. /\ r.t.txs[g].state = "pending"
        /\ r.t.txs[g].firstSeenBlock = st.txs[g].firstSeenBlock
    BY <2>1, DemotedFields
  <2>3. Types(r.evs, g) = {"reorged"}
    <3>1. st.txs[g].legs # {}
      BY DEF Good, Founded, IsMined
    <3> QED
      BY <1>1, <3>1, TypesOfEvents
  <2>4. Stat(st, g) = "mined" /\ Stat(r.t, g) = "pending"
    BY <2>2 DEF Stat, Tracked, IsMined
  <2> QED
    BY <2>2, <2>3, <2>4, Table
<1>4. /\ \A g \in R : HonestOf(st, r, g)
      /\ \A g \in Hash \ R : Elsewhere(st, r, g)
  BY <1>1, <1>2, <1>3 DEF HonestOf, Elsewhere
<1>5. Honest(st, r)
  BY <1>0, <1>4, HonestAbout
<1> QED
  BY <1>5 DEF r

\* Confirm announces the confirmation, which is remembered.
LEMMA ConfirmHonest ==
    ASSUME NEW st, Good(st), NEW h \in Hash, NEW head,
           NEW E \in Evictions(st.tombstones, {h})
    PROVE  Honest(st, Confirm(st, h, head, E))
<1> DEFINE r == Confirm(st, h, head, E)
<1>0. st \in TrackerState /\ st.txs \in [Hash -> Tx] /\ st.tombstones \in Memory
  BY DEF Good, TrackerState
<1>1. CASE ~IsMined(st, h) \/ head < st.txs[h].num
  BY <1>0, <1>1, UnheardHonest DEF Confirm
<1>2. CASE IsMined(st, h) /\ ~(head < st.txs[h].num)
  <2>1. /\ r.t.txs = Forget(st.txs, {h})
        /\ r.t.tombstones = Bury(st.tombstones, {h}, "confirmed", E)
        /\ r.evs = events(st.txs, {h}, "confirmed", DepthAt(head, st.txs[h].num), {})
    BY <1>0, <1>2 DEF Confirm, TrackerState
  <2> HIDE DEF r
  <2>2. h \notin E
    BY <1>0, NewestStays
  <2>3. /\ r.t.txs[h] = NoTx /\ r.t.tombstones[h] = "confirmed"
        /\ \A g \in Hash \ {h} : /\ r.t.txs[g] = st.txs[g]
                                 /\ r.t.tombstones[g] \in {"none", st.tombstones[g]}
    BY <2>1, <2>2 DEF Forget, Bury
  <2>4. st.txs[h].legs # {}
    BY <1>2 DEF Good, Founded, IsMined
  <2>5. Types(r.evs, h) = {"confirmed"} /\ \A g \in Hash \ {h} : Types(r.evs, g) = {}
    BY <2>1, <2>4, TypesOfEvents
  <2>6. Stat(st, h) = "mined" /\ Stat(r.t, h) = "confirmed" /\ ~Tracked(r.t, h)
    BY <1>2, <2>3 DEF Stat, Tracked, IsMined, NoTx
  <2>7. Move("mined", {"confirmed"}, "confirmed")
    BY Table DEF LC!Status
  <2>8. HonestOf(st, r, h) /\ \A g \in Hash \ {h} : Elsewhere(st, r, g)
    BY <2>3, <2>5, <2>6, <2>7 DEF HonestOf, Elsewhere
  <2>9. Honest(st, r)
    BY <1>0, <2>8, HonestAboutOne
  <2> QED
    BY <2>9 DEF r
<1> QED
  BY <1>1, <1>2

\* What finding h in a block comes to: no news, an announced verdict, or the
\* silent end of a transaction that never had a transfer to report.
Found(st, r, h) ==
    \/ /\ Types(r.evs, h) = {} /\ Stat(r.t, h) = Stat(st, h)
       /\ st.tombstones[h] = "confirmed" \/ IsMined(st, h)
    \/ /\ Stat(st, h) # "confirmed"
       /\ \E v \in {"mined", "confirmed", "failed"} :
              Types(r.evs, h) = {v} /\ Stat(r.t, h) = v
    \/ /\ Types(r.evs, h) = {} /\ Stat(r.t, h) = "failed"
       /\ Stat(st, h) \notin {"confirmed", "mined"}
       /\ ~st.txs[h].auth \/ st.txs[h].legs = {}

\* A call about h alone, which found it in a block.
Finds(st, r, h) ==
    /\ \A g \in Hash \ {h} : Elsewhere(st, r, g)
    /\ Found(st, r, h)
    /\ st.txs[h].firstSeenBlock > 0 /\ Tracked(r.t, h) =>
         r.t.txs[h].firstSeenBlock = st.txs[h].firstSeenBlock

\* OnMined concerns h alone, reaches one of the verdicts of Found and keeps
\* the block h was first seen in.
LEMMA OnMinedFinds ==
    ASSUME NEW st, Good(st), NEW h \in Hash, NEW b \in Block, NEW n \in Nat \ {0},
           NEW transfers \in SUBSET LegKind, NEW failed \in BOOLEAN,
           NEW conf, NEW fin, NEW E \in Evictions(st.tombstones, {h}),
           NEW r, r = OnMined(st, h, b, n, transfers, failed, conf, fin, E)
    PROVE  Finds(st, r, h)
<1> DEFINE memory  == Exhume(st.tombstones, h)
           tx      == MinedTx(st.txs[h], b, n, transfers)
           txs     == [st.txs EXCEPT ![h] = tx]
           bn      == IF IsMined(st, h) THEN st.byNonce
                      ELSE unindexNonce(st.byNonce, st.txs, {h})
           depth   == IF conf = 0 THEN 1 ELSE conf
           verdict == Verdict(tx, failed, depth, fin)
<1>1. /\ st \in TrackerState /\ st.txs \in [Hash -> Tx] /\ st.txs[h] \in Tx
      /\ st.tombstones \in Memory /\ h \notin E
  BY NewestStays DEF Good, TrackerState
<1>2. /\ memory[h] = "none" /\ \A g \in Hash \ {h} : memory[g] = st.tombstones[g]
  BY <1>1 DEF Exhume, Memory
<1>3. /\ tx.state = "mined"
      /\ st.txs[h].firstSeenBlock > 0 => tx.firstSeenBlock = st.txs[h].firstSeenBlock
      /\ ~tx.auth => ~st.txs[h].auth
      /\ tx.legs = {} => st.txs[h].legs = {}
      /\ tx.auth => tx.legs # {}
  <2>1. tx.state = "mined"
    BY DEF MinedTx
  <2>2. st.txs[h].firstSeenBlock > 0 => tx.firstSeenBlock = st.txs[h].firstSeenBlock
    BY <1>1 DEF MinedTx, Tx
  <2>3. tx.auth = (st.txs[h].auth \/ transfers # {})
    BY <1>1 DEF MinedTx, Tx
  <2>4. tx.legs = IF transfers # {} THEN transfers ELSE st.txs[h].legs
    BY DEF MinedTx
  <2>5. st.txs[h].auth => st.txs[h].legs # {}
    <3>1. CASE st.txs[h].state = "none"
      BY <3>1 DEF Good, Absent, NoTx
    <3>2. CASE st.txs[h].state # "none"
      BY <3>2 DEF Good, Founded
    <3> QED
      BY <3>1, <3>2
  <2> HIDE DEF tx
  <2> QED
    BY <2>1, <2>2, <2>3, <2>4, <2>5
<1> HIDE DEF tx
<1>4. txs[h] = tx /\ \A g \in Hash \ {h} : txs[g] = st.txs[g]
  BY <1>1
<1>5. IsMined(st, h) => st.txs[h].auth /\ st.txs[h].legs # {}
  BY DEF Good, Founded, IsMined
<1>6. /\ Stat(st, h) = "mined" => IsMined(st, h)
      /\ st.tombstones[h] # "confirmed" => Stat(st, h) # "confirmed"
  BY <1>1 DEF Stat, Tracked, IsMined, Terminal, Memory, Tx
<1> HIDE DEF txs, bn, memory, depth, verdict
<1>7. CASE st.tombstones[h] = "confirmed"
  <2>1. r.t = st /\ r.evs = {}
    BY <1>7 DEF OnMined, Unheard
  <2>2. \A g \in Hash : Types(r.evs, g) = {}
    BY <2>1 DEF Types
  <2> QED
    BY <1>7, <2>1, <2>2 DEF Finds, Elsewhere, Found
<1>8. CASE /\ st.tombstones[h] # "confirmed"
           /\ IsMined(st, h) /\ st.txs[h].block = b
  <2>1. r = Unheard([st EXCEPT !.tombstones = memory])
    BY <1>8 DEF OnMined, memory
  <2>2. r.t.txs = st.txs /\ r.t.tombstones = memory /\ r.evs = {}
    BY <1>1, <2>1 DEF Unheard, TrackerState
  <2>3. \A g \in Hash : Types(r.evs, g) = {}
    BY <2>2 DEF Types
  <2>4. Stat(r.t, h) = Stat(st, h)
    BY <1>8, <2>2 DEF Stat, Tracked, IsMined
  <2> QED
    BY <1>2, <1>8, <2>2, <2>3, <2>4 DEF Finds, Elsewhere, Found
<1>9. CASE /\ st.tombstones[h] # "confirmed"
           /\ ~(IsMined(st, h) /\ st.txs[h].block = b)
           /\ verdict = "mined"
  <2>1. r = [t |-> [txs |-> txs, byNonce |-> bn, tombstones |-> memory],
             evs |-> events(txs, {h}, "mined", depth, {})]
    BY <1>9 DEF OnMined, memory, tx, txs, bn, depth, verdict
  <2>2. /\ r.t.txs = txs /\ r.t.tombstones = memory
        /\ r.evs = events(txs, {h}, "mined", depth, {})
    BY <2>1
  <2>3. tx.auth
    BY <1>9 DEF verdict, Verdict
  <2>4. Types(r.evs, h) = {"mined"} /\ \A g \in Hash \ {h} : Types(r.evs, g) = {}
    BY <1>3, <1>4, <2>2, <2>3, TypesOfEvents
  <2>5. Stat(r.t, h) = "mined"
    BY <1>3, <1>4, <2>2 DEF Stat, Tracked
  <2>6. Found(st, r, h)
    BY <1>6, <1>9, <2>4, <2>5 DEF Found
  <2>7. \A g \in Hash \ {h} : Elsewhere(st, r, g)
    BY <1>2, <1>4, <2>2, <2>4 DEF Elsewhere
  <2> QED
    BY <1>3, <1>4, <2>2, <2>6, <2>7 DEF Finds
<1>10. CASE /\ st.tombstones[h] # "confirmed"
            /\ ~(IsMined(st, h) /\ st.txs[h].block = b)
            /\ verdict # "mined"
  <2> DEFINE typ == IF verdict = "confirmed" THEN verdict ELSE "failed"
  <2>1. r = [t |-> [txs |-> Forget(txs, {h}), byNonce |-> bn,
                    tombstones |-> Bury(memory, {h}, typ, E)],
             evs |-> IF verdict = "unfounded" THEN {}
                     ELSE events(txs, {h}, verdict, depth, {})]
    BY <1>10 DEF OnMined, memory, tx, txs, bn, depth, verdict
  <2>2. /\ r.t.txs = Forget(txs, {h}) /\ r.t.tombstones = Bury(memory, {h}, typ, E)
        /\ r.evs = IF verdict = "unfounded" THEN {}
                   ELSE events(txs, {h}, verdict, depth, {})
    BY <2>1
  <2>3. /\ verdict \in {"failed", "unfounded", "confirmed"}
        /\ verdict = "unfounded" => ~tx.auth
        /\ verdict = "confirmed" => tx.auth
    BY <1>10 DEF verdict, Verdict
  <2>4. typ \in {"confirmed", "failed"}
    OBVIOUS
  <2> HIDE DEF typ
  <2>5. /\ r.t.txs[h] = NoTx /\ r.t.tombstones[h] = typ
        /\ \A g \in Hash \ {h} : /\ r.t.txs[g] = st.txs[g]
                                 /\ r.t.tombstones[g] \in {"none", st.tombstones[g]}
    BY <1>1, <1>2, <1>4, <2>2 DEF Forget, Bury
  <2>6. \A g \in Hash \ {h} : Types(r.evs, g) = {}
    <3>1. \A g : Types({}, g) = {}
      BY DEF Types
    <3> QED
      BY <2>2, <3>1, TypesOfEvents
  <2>7. ~Tracked(r.t, h) /\ Stat(r.t, h) = typ
    BY <2>4, <2>5 DEF Stat, Tracked, NoTx
  <2>8. \/ Types(r.evs, h) = {typ}
        \/ typ = "failed" /\ Types(r.evs, h) = {} /\ (~tx.auth \/ tx.legs = {})
    <3>1. CASE verdict = "unfounded"
      BY <2>2, <2>3, <3>1 DEF Types, typ
    <3>2. CASE verdict # "unfounded" /\ tx.legs # {}
      <4>1. r.evs = events(txs, {h}, typ, depth, {})
        BY <2>2, <2>3, <3>2 DEF typ
      <4> QED
        BY <1>4, <3>2, <4>1, TypesOfEvents
    <3>3. CASE verdict # "unfounded" /\ tx.legs = {}
      <4>1. typ = "failed" /\ r.evs = events(txs, {h}, typ, depth, {})
        BY <1>3, <2>2, <2>3, <3>3 DEF typ
      <4> QED
        BY <1>4, <3>3, <4>1, TypesOfEvents
    <3> QED
      BY <3>1, <3>2, <3>3
  <2>9. Found(st, r, h)
    BY <1>3, <1>5, <1>6, <1>10, <2>4, <2>7, <2>8 DEF Found
  <2> QED
    BY <2>5, <2>6, <2>7, <2>9 DEF Finds, Elsewhere
<1> QED
  BY <1>7, <1>8, <1>9, <1>10

\* OnMined announces the verdict on a transaction found in a block.
LEMMA OnMinedHonest ==
    ASSUME NEW st, Good(st), NEW h \in Hash, NEW b \in Block, NEW n \in Nat \ {0},
           NEW transfers \in SUBSET LegKind, NEW failed \in BOOLEAN,
           NEW conf, NEW fin, NEW E \in Evictions(st.tombstones, {h})
    PROVE  Honest(st, OnMined(st, h, b, n, transfers, failed, conf, fin, E))
<1> DEFINE r == OnMined(st, h, b, n, transfers, failed, conf, fin, E)
<1>0. st \in TrackerState
  BY DEF Good
<1>a. r = OnMined(st, h, b, n, transfers, failed, conf, fin, E)
  OBVIOUS
<1> HIDE DEF r
<1>1. Finds(st, r, h)
  BY <1>a, OnMinedFinds
<1>2. Move(Stat(st, h), Types(r.evs, h), Stat(r.t, h))
  BY <1>0, <1>1, StatType, Table DEF Finds, Found
<1>3. HonestOf(st, r, h)
  BY <1>1, <1>2 DEF Finds, HonestOf
<1>4. Honest(st, r)
  BY <1>0, <1>1, <1>3, HonestAboutOne DEF Finds
<1> QED
  BY <1>4 DEF r

\* A mined transaction that turns up in another block is demoted and found
\* there in one step: the reorg is announced before the new verdict.
LEMMA MovedHonest ==
    ASSUME NEW st, Good(st), NEW h \in Hash, IsMined(st, h), NEW b \in Block,
           NEW n \in Nat \ {0}, NEW failed \in BOOLEAN, NEW conf, NEW fin,
           NEW E \in Evictions(st.tombstones, {h}),
           NEW d, d = Demote(st, h),
           NEW m, m = OnMined(d.t, h, b, n, {}, failed, conf, fin, E)
    PROVE  Honest(st, [t |-> m.t, evs |-> d.evs \cup m.evs])
<1> DEFINE r == [t |-> m.t, evs |-> d.evs \cup m.evs]
<1>1. /\ st \in TrackerState /\ st.txs \in [Hash -> Tx] /\ st.txs[h] \in Tx
      /\ st.tombstones[h] = "none" /\ st.txs[h].legs # {} /\ st.txs[h].auth
  BY DEF Good, TrackerState, Apart, Founded, IsMined
<1>2. d = DemoteAll(st, {h})
  BY DEF Demote
<1>3. /\ d.t.txs[h] = DemotedTx(st.txs[h])
      /\ \A g \in Hash \ {h} : d.t.txs[g] = st.txs[g]
      /\ d.t.tombstones = st.tombstones
      /\ d.evs = events(st.txs, {h}, "reorged", 0, {})
  <2> DEFINE R == {h}
  <2>1. /\ d.t.txs = [g \in Hash |-> IF g \in R THEN DemotedTx(st.txs[g]) ELSE st.txs[g]]
        /\ d.t.tombstones = st.tombstones
        /\ d.evs = events(st.txs, R, "reorged", 0, {})
    <3> HIDE DEF R
    <3>1. d = DemoteAll(st, R)
      BY <1>2 DEF R
    <3> QED
      BY <1>1, <3>1, DemoteAllParts
  <2> QED
    BY <2>1
<1>4. Good(d.t)
  BY DemoteSound DEF Sound
<1>5. /\ d.t.txs[h].state = "pending" /\ d.t.txs[h].legs = st.txs[h].legs
      /\ d.t.txs[h].auth = st.txs[h].auth
      /\ d.t.txs[h].firstSeenBlock = st.txs[h].firstSeenBlock
  <2>1. st.txs[h] \in Tx /\ d.t.txs[h] = DemotedTx(st.txs[h])
    BY <1>1, <1>3
  <2> QED
    BY <2>1, DemotedFields, Zenon
<1>6. Types(d.evs, h) = {"reorged"} /\ \A g \in Hash \ {h} : Types(d.evs, g) = {}
  BY <1>1, <1>3, TypesOfEvents
<1>7. E \in Evictions(d.t.tombstones, {h}) /\ {} \in SUBSET LegKind
  BY <1>3
<1>8. Finds(d.t, m, h)
  BY <1>4, <1>7, OnMinedFinds
<1>9. PICK v \in {"mined", "confirmed", "failed"} : Types(m.evs, h) = {v} /\ Stat(m.t, h) = v
  BY <1>1, <1>3, <1>5, <1>8 DEF Finds, Found, IsMined
<1>10. r.t = m.t /\ \A g : Types(r.evs, g) = Types(d.evs, g) \cup Types(m.evs, g)
  BY DEF Types
<1> HIDE DEF r
<1>11. Types(r.evs, h) = {"reorged", v} /\ Stat(st, h) = "mined" /\ Stat(r.t, h) = v
  BY <1>6, <1>9, <1>10 DEF Stat, Tracked, IsMined
<1>12. HonestOf(st, r, h)
  BY <1>5, <1>8, <1>10, <1>11, Table DEF Finds, HonestOf
<1>13. ASSUME NEW g \in Hash \ {h} PROVE Elsewhere(st, r, g)
  <2>1. Elsewhere(d.t, m, g)
    BY <1>8 DEF Finds
  <2> QED
    BY <1>3, <1>5, <1>6, <1>10, <2>1 DEF Elsewhere
<1>14. Honest(st, r)
  BY <1>1, <1>12, <1>13, HonestAboutOne
<1> QED
  BY <1>14 DEF r

\* A step that keeps every transaction's state and first block and announces
\* nothing is honest, though it forget endings.
LEMMA QuietHonest ==
    ASSUME NEW st, st \in TrackerState, NEW r, r.evs = {},
           \A g \in Hash : /\ r.t.txs[g].state = st.txs[g].state
                           /\ r.t.txs[g].firstSeenBlock = st.txs[g].firstSeenBlock
                           /\ r.t.tombstones[g] \in {"none", st.tombstones[g]}
    PROVE  Honest(st, r)
<1>1. ASSUME NEW g \in Hash PROVE HonestOf(st, r, g)
  <2>1. Types(r.evs, g) = {}
    BY DEF Types
  <2>2. CASE Stat(r.t, g) = Stat(st, g)
    BY <2>1, <2>2, StatType, Table DEF HonestOf
  <2>3. CASE Stat(r.t, g) # Stat(st, g)
    <3>1. /\ Stat(r.t, g) = "unknown" /\ Stat(st, g) = st.tombstones[g]
          /\ st.tombstones[g] # "none"
      BY <2>3 DEF Stat, Tracked
    <3>2. st.tombstones[g] \in Terminal
      BY <3>1 DEF TrackerState, Memory
    <3> QED
      BY <2>1, <3>1, <3>2, Table DEF HonestOf
  <2> QED
    BY <2>2, <2>3
<1>2. Hash \in SUBSET Hash /\ Hash \ Hash = {}
  OBVIOUS
<1> QED
  BY <1>1, <1>2, HonestAbout

-----------------------------------------------------------------------------
(* The refinement *)

\* Every step of the tracker installs an honest result.
LEMMA StepHonest ==
    ASSUME IInv, Next
    PROVE  \E r : t' = r.t /\ evs' = Told(r.evs) /\ Honest(t, r)
<1>0. Good(t) /\ t \in TrackerState /\ t.txs \in [Hash -> Tx]
  BY DEF IInv, Good, TrackerState
<1>1. CASE \E h \in Hash : Pending(h)
  <2>1. PICK h \in Hash, matches \in PendingLegs : Becomes(OnPending(t, h, matches))
    BY <1>1 DEF Pending
  <2>2. matches \in SUBSET LegKind
    BY LegsAssumption
  <2> QED
    BY <1>0, <2>1, <2>2, OnPendingHonest DEF Becomes
<1>2. CASE \E h \in Hash, b \in Block : Mined(h, b)
  <2>1. PICK h \in Hash, b \in Block, transfers \in BlockLegs \cup {{}},
             failed \in BOOLEAN : \E E \in Evictions(t.tombstones, {h}) : \E conf, fin :
               Becomes(OnMined(t, h, b, NumOf[b], transfers, failed, conf, fin, E))
    BY <1>2 DEF Mined
  <2>2. transfers \in SUBSET LegKind /\ NumOf[b] \in Nat \ {0}
    BY LegsAssumption, NumberAssumption
  <2> QED
    BY <1>0, <2>1, <2>2, OnMinedHonest DEF Becomes
<1>3. CASE \E s \in Slot : NonceUsed(s)
  <2>1. PICK s \in Slot : \E by, E : Becomes(OnNonceUsed(t, s, by, E))
    BY <1>3 DEF NonceUsed
  <2> QED
    BY <1>0, <2>1, OnNonceUsedHonest DEF Becomes
<1>4. CASE \E h \in Hash : Verified(h)
  <2>1. PICK h \in Hash, head \in Number : \E E \in Evictions(t.tombstones, {h}) :
          Becomes(Confirm(t, h, head, E))
    BY <1>4 DEF Verified
  <2> QED
    BY <1>0, <2>1, ConfirmHonest DEF Becomes
<1>5. CASE \E h \in Hash : Vanished(h)
  <2>1. PICK h \in Hash : Becomes(Demote(t, h))
    BY <1>5 DEF Vanished
  <2>2. CASE IsMined(t, h)
    BY <1>0, <2>1, <2>2, DemoteAllHonest DEF Demote, Becomes
  <2>3. CASE ~IsMined(t, h)
    BY <1>0, <2>1, <2>3, UnheardHonest DEF Demote, Becomes
  <2> QED
    BY <2>2, <2>3
<1>6. CASE \E h \in Hash, b \in Block : Moved(h, b)
  <2>0. PICK h \in Hash, b \in Block, failed \in BOOLEAN :
          \E E \in Evictions(t.tombstones, {h}) : \E conf, fin :
            /\ IsMined(t, h)
            /\ LET d == Demote(t, h)
                   m == OnMined(d.t, h, b, NumOf[b], {}, failed, conf, fin, E)
               IN  t' = m.t /\ evs' = Told(d.evs) \cup Told(m.evs)
    <3>1. PICK h \in Hash, b \in Block : Moved(h, b)
      BY <1>6
    <3>2. IsMined(t, h)
      BY <3>1 DEF Moved, ConfirmCandidates
    <3>3. \E failed \in BOOLEAN : \E E \in Evictions(t.tombstones, {h}) : \E conf, fin :
            LET d == Demote(t, h)
                m == OnMined(d.t, h, b, NumOf[b], {}, failed, conf, fin, E)
            IN  t' = m.t /\ evs' = Told(d.evs) \cup Told(m.evs)
      BY <3>1 DEF Moved
    <3> QED
      BY <3>2, <3>3
  <2>1. PICK E \in Evictions(t.tombstones, {h}) : \E conf, fin :
          /\ IsMined(t, h)
          /\ LET d == Demote(t, h)
                 m == OnMined(d.t, h, b, NumOf[b], {}, failed, conf, fin, E)
             IN  t' = m.t /\ evs' = Told(d.evs) \cup Told(m.evs)
    BY <2>0
  <2>2. PICK conf, fin :
          LET d == Demote(t, h)
              m == OnMined(d.t, h, b, NumOf[b], {}, failed, conf, fin, E)
          IN  t' = m.t /\ evs' = Told(d.evs) \cup Told(m.evs)
    BY <2>1
  <2> DEFINE d == Demote(t, h)
             m == OnMined(d.t, h, b, NumOf[b], {}, failed, conf, fin, E)
             r == [t |-> m.t, evs |-> d.evs \cup m.evs]
  <2>3. d = Demote(t, h) /\ NumOf[b] \in Nat \ {0} /\ IsMined(t, h)
    BY <2>1, NumberAssumption
  <2>4. t' = m.t /\ evs' = Told(d.evs) \cup Told(m.evs)
    BY <2>2
  <2> HIDE DEF d
  <2>5. m = OnMined(d.t, h, b, NumOf[b], {}, failed, conf, fin, E)
    OBVIOUS
  <2> HIDE DEF m
  <2>6. Honest(t, r)
    BY <1>0, <2>3, <2>5, MovedHonest
  <2>7. t' = r.t /\ evs' = Told(r.evs)
    BY <2>4 DEF Told
  <2> QED
    BY <2>6, <2>7
<1>7. CASE \E h \in Hash, known \in BOOLEAN : Recheck(h, known)
  <2>1. PICK h \in Hash, known \in BOOLEAN : \E E \in Evictions(t.tombstones, {h}) :
          Becomes(OnDropStale(t, h, known, E))
    BY <1>7 DEF Recheck
  <2> QED
    BY <1>0, <2>1, OnDropStaleHonest DEF Becomes
<1>8. CASE \E ancestor \in Number : Reorg(ancestor)
  <2>1. PICK ancestor \in Number : Becomes(OnReorg(t, ancestor))
    BY <1>8 DEF Reorg
  <2> QED
    BY <1>0, <2>1, DemoteAllHonest DEF OnReorg, AboveAncestor, Becomes
<1>9. CASE \E h \in Hash : Expire(h)
  <2>1. PICK h \in Hash : Expire(h)
    BY <1>9
  <2> DEFINE r == [t |-> t', evs |-> {}]
  <2>2. /\ t'.txs = [t.txs EXCEPT ![h].stale = TRUE] /\ t'.tombstones = t.tombstones
        /\ evs' = {}
    BY <1>0, <2>1 DEF Expire, TrackerState
  <2>3. \A g \in Hash : /\ t'.txs[g].state = t.txs[g].state
                        /\ t'.txs[g].firstSeenBlock = t.txs[g].firstSeenBlock
    BY <1>0, <2>2 DEF Tx
  <2>4. Honest(t, r)
    <3>1. /\ r.evs = {}
          /\ \A g \in Hash : /\ r.t.txs[g].state = t.txs[g].state
                             /\ r.t.txs[g].firstSeenBlock = t.txs[g].firstSeenBlock
                             /\ r.t.tombstones[g] \in {"none", t.tombstones[g]}
      BY <2>2, <2>3
    <3> HIDE DEF r
    <3> QED
      BY <1>0, <3>1, QuietHonest
  <2> QED
    BY <2>2, <2>4 DEF Told
<1>10. CASE Restart
  <2>1. PICK old \in SUBSET {h \in Hash : IsPending(t, h)} :
          /\ t' = Import([h \in Hash |-> RowOf(t, old, h)])
          /\ evs' = {}
    BY <1>10 DEF Restart, RowOf
  <2> DEFINE r == [t |-> t', evs |-> {}]
  <2>2. t'.txs = [h \in Hash |-> RowOf(t, old, h)] /\ t'.tombstones = NoMemory
    BY <2>1 DEF Import, NewTracker
  <2>3. ASSUME NEW g \in Hash
        PROVE  /\ t'.txs[g].state = t.txs[g].state
               /\ t'.txs[g].firstSeenBlock = t.txs[g].firstSeenBlock
               /\ t'.tombstones[g] = "none"
    <3>1. t'.txs[g] = RowOf(t, old, g) /\ t'.tombstones[g] = "none"
      BY <2>2 DEF NoMemory
    <3> QED
      BY <1>0, <3>1, RowFields
  <2>4. Honest(t, r)
    <3>1. /\ r.evs = {}
          /\ \A g \in Hash : /\ r.t.txs[g].state = t.txs[g].state
                             /\ r.t.txs[g].firstSeenBlock = t.txs[g].firstSeenBlock
                             /\ r.t.tombstones[g] \in {"none", t.tombstones[g]}
      BY <2>3
    <3> HIDE DEF r
    <3> QED
      BY <1>0, <3>1, QuietHonest
  <2> QED
    BY <2>1, <2>4 DEF Told
<1> QED
  BY <1>1, <1>2, <1>3, <1>4, <1>5, <1>6, <1>7, <1>8, <1>9, <1>10 DEF Next

\* What is told of h are the types announced for it.
LEMMA ToldTypes ==
    ASSUME NEW E, NEW h
    PROVE  LC!TypesOf(Told(E), h) = Types(E, h)
<1>1. ASSUME NEW x \in Types(E, h) PROVE x \in LC!TypesOf(Told(E), h)
  <2>1. PICK e \in E : e.hash = h /\ e.typ = x
    BY <1>1 DEF Types
  <2>2. <<h, x>> \in {y \in Told(E) : y[1] = h}
    BY <2>1 DEF Told
  <2> QED
    BY <2>2 DEF LC!TypesOf
<1>2. ASSUME NEW x \in LC!TypesOf(Told(E), h) PROVE x \in Types(E, h)
  <2>1. PICK y \in Told(E) : y[1] = h /\ y[2] = x
    BY <1>2 DEF LC!TypesOf
  <2>2. PICK e \in E : y = <<e.hash, e.typ>>
    BY <2>1 DEF Told
  <2>3. e.hash = h /\ e.typ = x
    BY <2>1, <2>2
  <2> QED
    BY <2>3 DEF Types
<1> QED
  BY <1>1, <1>2

\* Every transaction moves as the status table says, and every move is
\* announced by exactly the events of that move: no step of the tracker skips,
\* repeats or invents a status, whatever is reorganised, replaced or restarted.
THEOREM ImplementsLifecycle == Spec => LifecycleSpec
<1>1. Init => LC!Init
  <2> SUFFICES ASSUME Init PROVE LC!Init
    OBVIOUS
  <2>1. \A h \in Hash : StatusOf(h) = "unknown"
    BY DEF Init, NewTracker, StatusOf, Tracked, NoTx, NoMemory
  <2> QED
    BY <2>1 DEF Init, LC!Init
<1>2. ASSUME IInv, IInv', [Next]_vars PROVE [LC!Next]_(LC!vars)
  <2>1. CASE Next
    <3>1. PICK r : t' = r.t /\ evs' = Told(r.evs) /\ Honest(t, r)
      BY <1>2, <2>1, StepHonest
    <3>2. \A h \in Hash : StatusOf(h) = Stat(t, h) /\ StatusOf(h)' = Stat(t', h)
      BY DEF StatusOf, Stat, Tracked
    <3>3. t' \in TrackerState /\ \A e \in evs' : e[1] \in Hash
      BY <1>2 DEF IInv, Good
    <3>4. \A h \in Hash : Stat(t', h) \in LC!Status
      BY <3>3, StatType
    <3>5. \A h \in Hash :
            <<StatusOf(h), LC!TypesOf(evs', h), StatusOf(h)'>> \in LC!Moves
      BY <3>1, <3>2, ToldTypes DEF Honest, Legal, Move
    <3> QED
      BY <3>2, <3>3, <3>4, <3>5 DEF LC!Next
  <2>2. CASE UNCHANGED vars
    BY <2>2 DEF vars, LC!vars, StatusOf, Tracked
  <2> QED
    BY <1>2, <2>1, <2>2
<1> QED
  BY <1>1, <1>2, Inductive, PTL DEF Spec, LifecycleSpec, LC!Spec

\* The block a transaction was first seen in stays the same for as long as the
\* transaction is followed.
THEOREM FirstSeenBlockStays == Spec => FirstSeenBlockKept
<1>1. ASSUME IInv, [Next]_vars
      PROVE  [\A h \in Hash :
                t.txs[h].firstSeenBlock > 0 /\ Tracked(t', h) =>
                    t'.txs[h].firstSeenBlock = t.txs[h].firstSeenBlock]_vars
  BY <1>1, StepHonest DEF Honest, KeepsSeen
<1> QED
  BY <1>1, Inductive, PTL DEF Spec, FirstSeenBlockKept

-----------------------------------------------------------------------------
(* Selection from a sequence *)

\* The recursive definition of Kept has a solution, so Kept is one.
LEMMA KeptSteps ==
    ASSUME NEW S, NEW s \in Seq(S), NEW K
    PROVE  /\ Kept(s, K)[0] = <<>>
           /\ \A i \in 1..Len(s) :
                Kept(s, K)[i] = IF s[i] \in K THEN Append(Kept(s, K)[i - 1], s[i])
                                ELSE Kept(s, K)[i - 1]
<1> DEFINE Grow(q, i) == IF s[i] \in K THEN Append(q, s[i]) ELSE q
           Solves(n, H) == H = [i \in 0..n |-> IF i = 0 THEN <<>> ELSE Grow(H[i - 1], i)]
           T == {n \in Nat : \E H : Solves(n, H)}
<1>1. Kept(s, K) = CHOOSE H : Solves(Len(s), H)
  BY DEF Kept
<1>2. \A q, i : Grow(q, i) = IF s[i] \in K THEN Append(q, s[i]) ELSE q
  OBVIOUS
<1> HIDE DEF Grow
<1>3. 0 \in T
  <2>1. Solves(0, [i \in 0..0 |-> <<>>])
    OBVIOUS
  <2> QED
    BY <2>1
<1>4. ASSUME NEW n \in T PROVE n + 1 \in T
  <2>1. n \in Nat
    OBVIOUS
  <2>2. PICK H : Solves(n, H)
    OBVIOUS
  <2> DEFINE G == [i \in 0..(n + 1) |-> IF i = n + 1 THEN Grow(H[n], n + 1) ELSE H[i]]
  <2>3. H[0] = <<>> /\ \A i \in 1..n : H[i] = Grow(H[i - 1], i)
    BY <2>1, <2>2
  <2>4. \A i \in 0..n : G[i] = H[i]
    BY <2>1
  <2>5. G[n + 1] = Grow(G[n], n + 1)
    BY <2>1, <2>4
  <2>6. G = [i \in 0..(n + 1) |-> G[i]]
    OBVIOUS
  <2> HIDE DEF G
  <2>7. ASSUME NEW i \in 0..(n + 1), i # 0 PROVE G[i] = Grow(G[i - 1], i)
    <3>1. CASE i = n + 1
      BY <2>1, <2>5, <3>1
    <3>2. CASE i \in 1..n
      <4>1. i \in 0..n /\ i - 1 \in 0..n
        BY <2>1, <3>2
      <4> QED
        BY <2>3, <2>4, <3>2, <4>1
    <3> QED
      BY <2>1, <2>7, <3>1, <3>2
  <2>8. G[0] = <<>>
    BY <2>1, <2>3, <2>4
  <2>9. Solves(n + 1, G)
    BY <2>6, <2>7, <2>8
  <2>10. n + 1 \in Nat
    BY <2>1
  <2> HIDE DEF Solves
  <2> QED
    BY <2>9, <2>10
<1>5. Len(s) \in T
  <2>1. T \in SUBSET Nat /\ Len(s) \in Nat
    OBVIOUS
  <2> HIDE DEF T
  <2>2. T = Nat
    BY <1>3, <1>4, <2>1, NatSteps
  <2> QED
    BY <2>1, <2>2
<1>6. Solves(Len(s), Kept(s, K))
  <2> HIDE DEF Solves
  <2> QED
    BY <1>1, <1>5
<1>7. /\ Kept(s, K)[0] = <<>>
      /\ \A i \in 1..Len(s) : Kept(s, K)[i] = Grow(Kept(s, K)[i - 1], i)
  BY <1>6
<1> QED
  BY <1>2, <1>7

\* Selection goes element by element, from the start.
LEMMA OnlyEmpty == ASSUME NEW K PROVE Only(<<>>, K) = <<>>
<1>1. <<>> \in Seq({}) /\ Len(<<>>) = 0
  OBVIOUS
<1> QED
  BY ZenonT(40), <1>1, KeptSteps DEF Only

\* One more element: it is selected or not.
LEMMA OnlyAppend ==
    ASSUME NEW S, NEW s \in Seq(S), NEW x \in S, NEW K
    PROVE  Only(Append(s, x), K) = IF x \in K THEN Append(Only(s, K), x) ELSE Only(s, K)
<1> DEFINE a == Append(s, x)
           T == {n \in Nat : n <= Len(s) => Kept(a, K)[n] = Kept(s, K)[n]}
<1>1. /\ a \in Seq(S) /\ Len(s) \in Nat /\ Len(a) = Len(s) + 1
      /\ a[Len(s) + 1] = x /\ \A i \in 1..Len(s) : a[i] = s[i]
  BY Appended
<1> HIDE DEF a
<1>2. 0 \in T
  BY <1>1, KeptSteps
<1>3. ASSUME NEW n \in T PROVE n + 1 \in T
  <2>1. n \in Nat /\ n + 1 \in Nat
    OBVIOUS
  <2>2. ASSUME n + 1 <= Len(s) PROVE Kept(a, K)[n + 1] = Kept(s, K)[n + 1]
    <3>1. n <= Len(s) /\ n + 1 \in 1..Len(s) /\ n + 1 \in 1..Len(a) /\ (n + 1) - 1 = n
      BY <1>1, <2>1, <2>2
    <3>2. Kept(a, K)[n] = Kept(s, K)[n]
      BY <3>1
    <3>3. a[n + 1] = s[n + 1]
      BY <1>1, <3>1
    <3> HIDE DEF T
    <3>4. /\ Kept(a, K)[n + 1] = IF a[n + 1] \in K THEN Append(Kept(a, K)[n], a[n + 1])
                                  ELSE Kept(a, K)[n]
          /\ Kept(s, K)[n + 1] = IF s[n + 1] \in K THEN Append(Kept(s, K)[n], s[n + 1])
                                  ELSE Kept(s, K)[n]
      <4>1. \A i \in 1..Len(a) :
              Kept(a, K)[i] = IF a[i] \in K THEN Append(Kept(a, K)[i - 1], a[i])
                              ELSE Kept(a, K)[i - 1]
        BY <1>1, KeptSteps
      <4>2. \A i \in 1..Len(s) :
              Kept(s, K)[i] = IF s[i] \in K THEN Append(Kept(s, K)[i - 1], s[i])
                              ELSE Kept(s, K)[i - 1]
        BY KeptSteps
      <4> QED
        BY <3>1, <4>1, <4>2
    <3> QED
      BY <3>2, <3>3, <3>4
  <2> QED
    BY <2>1, <2>2
<1>4. Kept(a, K)[Len(s)] = Kept(s, K)[Len(s)]
  <2>1. T \in SUBSET Nat
    OBVIOUS
  <2> HIDE DEF T
  <2>2. T = Nat
    BY <1>2, <1>3, <2>1, NatSteps
  <2>3. Len(s) \in T
    BY <1>1, <2>2
  <2> QED
    BY <1>1, <2>3 DEF T
<1>5. Kept(a, K)[Len(a)] = IF x \in K THEN Append(Kept(a, K)[Len(s)], x)
                            ELSE Kept(a, K)[Len(s)]
  <2>1. Len(a) \in 1..Len(a) /\ Len(a) - 1 = Len(s) /\ a[Len(a)] = x
    BY <1>1
  <2>2. \A i \in 1..Len(a) :
          Kept(a, K)[i] = IF a[i] \in K THEN Append(Kept(a, K)[i - 1], a[i])
                          ELSE Kept(a, K)[i - 1]
    BY <1>1, KeptSteps
  <2> QED
    BY <2>1, <2>2
<1> QED
  BY <1>4, <1>5 DEF Only, a

\* A sequence's elements and the one added at its end, as a set.
LEMMA AppendKeepsOnce ==
    ASSUME NEW S, NEW s \in Seq(S), NEW x \in S
    PROVE  /\ IsInjective(Append(s, x)) => IsInjective(s) /\ x \notin ToSet(s)
           /\ IsInjective(s) /\ x \notin ToSet(s) => IsInjective(Append(s, x))
<1> DEFINE a == Append(s, x)
<1>1. /\ Len(s) \in Nat /\ DOMAIN s = 1..Len(s) /\ DOMAIN a = 1..(Len(s) + 1)
      /\ a[Len(s) + 1] = x /\ \A i \in 1..Len(s) : a[i] = s[i]
  BY Appended
<1> HIDE DEF a
<1>2. ASSUME IsInjective(a) PROVE IsInjective(s) /\ x \notin ToSet(s)
  <2>1. \A i \in 1..Len(s) : i \in DOMAIN a /\ i # Len(s) + 1
    BY <1>1
  <2>2. Len(s) + 1 \in DOMAIN a
    BY <1>1
  <2> QED
    BY <1>1, <1>2, <2>1, <2>2 DEF IsInjective, ToSet
<1>3. IsInjective(s) /\ x \notin ToSet(s) => IsInjective(Append(s, x))
  BY AppendDistinct
<1>4. IsInjective(Append(s, x)) => IsInjective(s) /\ x \notin ToSet(s)
  BY <1>2 DEF a
<1> QED
  BY <1>3, <1>4

\* What is left is what the set and the sequence share, no more often than
\* before.
LEMMA OnlyHolds ==
    ASSUME NEW S, NEW s \in Seq(S), NEW K
    PROVE  /\ Only(s, K) \in Seq(S)
           /\ ToSet(Only(s, K)) = ToSet(s) \cap K
           /\ IsInjective(s) => IsInjective(Only(s, K))
<1> DEFINE P(q) == /\ Only(q, K) \in Seq(S)
                   /\ ToSet(Only(q, K)) = ToSet(q) \cap K
                   /\ IsInjective(q) => IsInjective(Only(q, K))
           T == {q \in Seq(S) : P(q)}
<1>1. <<>> \in T
  <2>1. <<>> \in Seq(S) /\ ToSet(<<>>) = {} /\ IsInjective(<<>>)
    BY DEF ToSet, IsInjective
  <2> QED
    BY <2>1, OnlyEmpty
<1>2. ASSUME NEW q \in T, NEW x \in S PROVE Append(q, x) \in T
  <2>1. q \in Seq(S) /\ P(q)
    OBVIOUS
  <2>2. Append(q, x) \in Seq(S) /\ ToSet(Append(q, x)) = ToSet(q) \cup {x}
    BY <2>1, AppendDistinct
  <2>3. CASE x \in K
    <3>1. Only(Append(q, x), K) = Append(Only(q, K), x)
      BY <2>1, <2>3, OnlyAppend
    <3>2. /\ Append(Only(q, K), x) \in Seq(S)
          /\ ToSet(Append(Only(q, K), x)) = ToSet(Only(q, K)) \cup {x}
      BY <2>1, AppendDistinct
    <3>3. ASSUME IsInjective(Append(q, x)) PROVE IsInjective(Append(Only(q, K), x))
      <4>1. IsInjective(q) /\ x \notin ToSet(q)
        BY <2>1, <3>3, AppendKeepsOnce
      <4>2. x \notin ToSet(Only(q, K)) /\ IsInjective(Only(q, K))
        BY <2>1, <4>1
      <4> QED
        BY <2>1, <4>2, AppendKeepsOnce
    <3> QED
      BY <2>1, <2>2, <2>3, <3>1, <3>2, <3>3
  <2>4. CASE x \notin K
    <3>1. Only(Append(q, x), K) = Only(q, K)
      BY <2>1, <2>4, OnlyAppend
    <3>2. IsInjective(Append(q, x)) => IsInjective(q)
      BY <2>1, AppendKeepsOnce
    <3> QED
      BY <2>1, <2>2, <2>4, <3>1, <3>2
  <2> QED
    BY <2>3, <2>4
<1>3. T = Seq(S)
  <2>1. T \in SUBSET Seq(S)
    OBVIOUS
  <2> HIDE DEF T
  <2> QED
    BY <1>1, <1>2, <2>1, AppendSteps
<1> QED
  BY <1>3

\* Only membership of the sequence's elements matters.
LEMMA OnlySame ==
    ASSUME NEW S, NEW s \in Seq(S), NEW K, NEW L, ToSet(s) \cap K = ToSet(s) \cap L
    PROVE  Only(s, K) = Only(s, L)
<1> DEFINE T == {q \in Seq(S) : ToSet(q) \cap K = ToSet(q) \cap L => Only(q, K) = Only(q, L)}
<1>1. <<>> \in T
  BY OnlyEmpty
<1>2. ASSUME NEW q \in T, NEW x \in S PROVE Append(q, x) \in T
  <2>1. q \in Seq(S) /\ (ToSet(q) \cap K = ToSet(q) \cap L => Only(q, K) = Only(q, L))
    OBVIOUS
  <2>2. Append(q, x) \in Seq(S) /\ ToSet(Append(q, x)) = ToSet(q) \cup {x}
    BY <2>1, AppendDistinct
  <2>3. ASSUME ToSet(Append(q, x)) \cap K = ToSet(Append(q, x)) \cap L
        PROVE  Only(Append(q, x), K) = Only(Append(q, x), L)
    <3>1. (x \in K <=> x \in L) /\ ToSet(q) \cap K = ToSet(q) \cap L
      <4>1. \A y \in ToSet(q) \cup {x} : y \in K <=> y \in L
        BY <2>2, <2>3
      <4> QED
        BY <4>1
    <3>2. /\ Only(Append(q, x), K) = IF x \in K THEN Append(Only(q, K), x) ELSE Only(q, K)
          /\ Only(Append(q, x), L) = IF x \in L THEN Append(Only(q, L), x) ELSE Only(q, L)
      BY <2>1, OnlyAppend
    <3> QED
      BY <2>1, <3>1, <3>2
  <2> QED
    BY <2>2, <2>3
<1>3. T = Seq(S)
  <2>1. T \in SUBSET Seq(S)
    OBVIOUS
  <2> HIDE DEF T
  <2> QED
    BY <1>1, <1>2, <2>1, AppendSteps
<1> QED
  BY <1>3

\* Selecting twice is selecting what both sets hold.
LEMMA OnlyTwice ==
    ASSUME NEW S, NEW s \in Seq(S), NEW K, NEW L
    PROVE  Only(Only(s, K), L) = Only(s, K \cap L)
<1> DEFINE T == {q \in Seq(S) : Only(Only(q, K), L) = Only(q, K \cap L)}
<1>1. <<>> \in T
  BY OnlyEmpty
<1>2. ASSUME NEW q \in T, NEW x \in S PROVE Append(q, x) \in T
  <2>1. q \in Seq(S) /\ Only(Only(q, K), L) = Only(q, K \cap L)
    OBVIOUS
  <2>2. Append(q, x) \in Seq(S) /\ Only(q, K) \in Seq(S)
    BY <2>1, Appended, OnlyHolds
  <2>3. Only(Append(q, x), K) = IF x \in K THEN Append(Only(q, K), x) ELSE Only(q, K)
    BY <2>1, OnlyAppend
  <2>4. Only(Append(q, x), K \cap L) = IF x \in K \cap L THEN Append(Only(q, K \cap L), x)
                                       ELSE Only(q, K \cap L)
    BY <2>1, OnlyAppend
  <2>5. Only(Append(Only(q, K), x), L) = IF x \in L THEN Append(Only(Only(q, K), L), x)
                                         ELSE Only(Only(q, K), L)
    BY ZenonT(40), <2>2, OnlyAppend
  <2>6. Only(Only(Append(q, x), K), L) = Only(Append(q, x), K \cap L)
    <3>1. CASE x \in K
      BY <2>1, <2>3, <2>4, <2>5, <3>1, x \in K \cap L <=> x \in L
    <3>2. CASE x \notin K
      BY <2>1, <2>3, <2>4, <3>2
    <3> QED
      BY <3>1, <3>2
  <2> QED
    BY <2>2, <2>6
<1>3. T = Seq(S)
  <2>1. T \in SUBSET Seq(S)
    OBVIOUS
  <2> HIDE DEF T
  <2> QED
    BY <1>1, <1>2, <2>1, AppendSteps
<1> QED
  BY <1>3

\* An element added after a concatenation.
LEMMA ConcatAppend ==
    ASSUME NEW S, NEW p \in Seq(S), NEW q \in Seq(S), NEW x \in S
    PROVE  p \o Append(q, x) = Append(p \o q, x)
<1> DEFINE a == Append(q, x)
           l == p \o a
           r == Append(p \o q, x)
<1>1. /\ a \in Seq(S) /\ Len(q) \in Nat /\ Len(a) = Len(q) + 1
      /\ a[Len(q) + 1] = x /\ \A i \in 1..Len(q) : a[i] = q[i]
  BY Appended
<1> HIDE DEF a
<1>2. /\ l \in Seq(S) /\ Len(p) \in Nat /\ Len(l) = Len(p) + Len(q) + 1
      /\ \A i \in 1..(Len(p) + Len(q) + 1) : l[i] = IF i <= Len(p) THEN p[i] ELSE a[i - Len(p)]
  <2>1. /\ l \in Seq(S) /\ Len(l) = Len(p) + Len(a)
        /\ \A i \in 1..(Len(p) + Len(a)) : l[i] = IF i <= Len(p) THEN p[i] ELSE a[i - Len(p)]
    BY <1>1, ConcatProperties
  <2>2. Len(p) \in Nat /\ Len(p) + Len(a) = Len(p) + Len(q) + 1
    BY <1>1
  <2> QED
    BY <2>1, <2>2
<1>3. /\ p \o q \in Seq(S) /\ Len(p \o q) = Len(p) + Len(q)
      /\ \A i \in 1..(Len(p) + Len(q)) : (p \o q)[i] = IF i <= Len(p) THEN p[i] ELSE q[i - Len(p)]
  BY ConcatProperties
<1>4. /\ r \in Seq(S) /\ Len(r) = Len(p) + Len(q) + 1 /\ r[Len(p) + Len(q) + 1] = x
      /\ \A i \in 1..(Len(p) + Len(q)) : r[i] = (p \o q)[i]
  BY <1>3, Appended
<1> HIDE DEF l, r
<1>5. ASSUME NEW i \in 1..(Len(p) + Len(q) + 1) PROVE l[i] = r[i]
  <2>1. CASE i = Len(p) + Len(q) + 1
    <3>1. ~(i <= Len(p)) /\ i - Len(p) = Len(q) + 1
      <4>1. Len(p) \in Nat /\ Len(q) \in Nat
        BY <1>1, <1>2
      <4> QED
        BY <2>1, <4>1
    <3>2. l[i] = a[i - Len(p)]
      BY <1>2, <3>1
    <3>3. r[i] = x
      BY <1>4, <2>1
    <3> QED
      BY <1>1, <3>1, <3>2, <3>3
  <2>2. CASE i # Len(p) + Len(q) + 1
    <3>1. i \in 1..(Len(p) + Len(q)) /\ (~(i <= Len(p)) => i - Len(p) \in 1..Len(q))
      <4>1. Len(p) \in Nat /\ Len(q) \in Nat
        BY <1>1, <1>2
      <4> QED
        BY <2>2, <4>1
    <3> QED
      BY <1>1, <1>2, <1>3, <1>4, <3>1
  <2> QED
    BY <2>1, <2>2
<1>6. l = r
  BY <1>2, <1>4, <1>5, SeqEqual
<1> QED
  BY <1>6 DEF l, r, a

\* Selection from a concatenation.
LEMMA OnlyConcat ==
    ASSUME NEW S, NEW p \in Seq(S), NEW s \in Seq(S), NEW K
    PROVE  Only(p \o s, K) = Only(p, K) \o Only(s, K)
<1> DEFINE T == {q \in Seq(S) : Only(p \o q, K) = Only(p, K) \o Only(q, K)}
<1>0. Only(p, K) \in Seq(S)
  BY OnlyHolds
<1>1. <<>> \in T
  <2>1. p \o <<>> = p
    BY ConcatEmptySeq
  <2>2. Only(p, K) \o <<>> = Only(p, K)
    BY <1>0, ConcatEmptySeq
  <2>3. <<>> \in Seq(S)
    OBVIOUS
  <2> QED
    BY <2>1, <2>2, <2>3, OnlyEmpty
<1>2. ASSUME NEW q \in T, NEW x \in S PROVE Append(q, x) \in T
  <2>1. q \in Seq(S) /\ Only(p \o q, K) = Only(p, K) \o Only(q, K)
    OBVIOUS
  <2>2. Append(q, x) \in Seq(S) /\ Only(q, K) \in Seq(S) /\ p \o q \in Seq(S)
    BY <2>1, Appended, OnlyHolds
  <2>3. p \o Append(q, x) = Append(p \o q, x)
    BY <2>1, ConcatAppend
  <2>4. Only(p, K) \o Append(Only(q, K), x) = Append(Only(p, K) \o Only(q, K), x)
    BY <1>0, <2>2, ConcatAppend
  <2>5. Only(Append(q, x), K) = IF x \in K THEN Append(Only(q, K), x) ELSE Only(q, K)
    BY <2>1, OnlyAppend
  <2>6. Only(Append(p \o q, x), K) = IF x \in K THEN Append(Only(p \o q, K), x)
                                     ELSE Only(p \o q, K)
    <3> DEFINE y == p \o q
    <3>1. y \in Seq(S)
      BY <2>2
    <3> HIDE DEF y
    <3>2. Only(Append(y, x), K) = IF x \in K THEN Append(Only(y, K), x) ELSE Only(y, K)
      BY <3>1, OnlyAppend
    <3> QED
      BY <3>2 DEF y
  <2> QED
    BY <2>1, <2>2, <2>3, <2>4, <2>5, <2>6
<1>3. T = Seq(S)
  <2>1. T \in SUBSET Seq(S)
    OBVIOUS
  <2> HIDE DEF T
  <2> QED
    BY <1>1, <1>2, <2>1, AppendSteps
<1> QED
  BY <1>3

\* A sequence without repetitions is as long as its set of elements.
LEMMA DistinctCount ==
    ASSUME NEW S, NEW s \in Seq(S), IsInjective(s)
    PROVE  IsFiniteSet(ToSet(s)) /\ Cardinality(ToSet(s)) = Len(s)
<1> DEFINE P(q) == IsInjective(q) => IsFiniteSet(ToSet(q)) /\ Cardinality(ToSet(q)) = Len(q)
           T == {q \in Seq(S) : P(q)}
<1>1. <<>> \in T
  <2>1. <<>> \in Seq(S) /\ ToSet(<<>>) = {} /\ Len(<<>>) = 0
    BY DEF ToSet
  <2> QED
    BY <2>1, FS_EmptySet
<1>2. ASSUME NEW q \in T, NEW x \in S PROVE Append(q, x) \in T
  <2>1. q \in Seq(S) /\ P(q)
    OBVIOUS
  <2>2. /\ Append(q, x) \in Seq(S) /\ Len(Append(q, x)) = Len(q) + 1
        /\ ToSet(Append(q, x)) = ToSet(q) \cup {x}
    BY <2>1, AppendDistinct
  <2>3. ASSUME IsInjective(Append(q, x))
        PROVE  /\ IsFiniteSet(ToSet(Append(q, x)))
               /\ Cardinality(ToSet(Append(q, x))) = Len(Append(q, x))
    <3>1. IsInjective(q) /\ x \notin ToSet(q)
      BY <2>1, <2>3, AppendKeepsOnce
    <3>2. IsFiniteSet(ToSet(q)) /\ Cardinality(ToSet(q)) = Len(q)
      BY <2>1, <3>1
    <3>3. /\ IsFiniteSet(ToSet(q) \cup {x})
          /\ Cardinality(ToSet(q) \cup {x}) = Cardinality(ToSet(q)) + 1
      BY <3>1, <3>2, FS_AddElement
    <3> QED
      BY <2>2, <3>2, <3>3
  <2> QED
    BY <2>2, <2>3
<1>3. T = Seq(S)
  <2>1. T \in SUBSET Seq(S)
    OBVIOUS
  <2> HIDE DEF T
  <2> QED
    BY <1>1, <1>2, <2>1, AppendSteps
<1> QED
  BY <1>3

\* A function applied to the elements of a sequence.
Mapped(g, s) == [i \in 1..Len(s) |-> g[s[i]]]

\* The images of a sequence's elements are a sequence of its length.
LEMMA MappedType ==
    ASSUME NEW S, NEW R, NEW g \in [S -> R], NEW s \in Seq(S)
    PROVE  /\ Mapped(g, s) \in Seq(R) /\ Len(Mapped(g, s)) = Len(s)
           /\ \A i \in 1..Len(s) : Mapped(g, s)[i] = g[s[i]]
BY DEF Mapped

\* One more element: one more image.
LEMMA MappedAppend ==
    ASSUME NEW S, NEW R, NEW g \in [S -> R], NEW s \in Seq(S), NEW x \in S
    PROVE  Mapped(g, Append(s, x)) = Append(Mapped(g, s), g[x])
<1> DEFINE a == Append(s, x)
           l == Mapped(g, a)
           m == Mapped(g, s)
           r == Append(m, g[x])
<1>1. /\ a \in Seq(S) /\ Len(s) \in Nat /\ Len(a) = Len(s) + 1
      /\ a[Len(s) + 1] = x /\ \A i \in 1..Len(s) : a[i] = s[i]
  BY Appended
<1> HIDE DEF a
<1>2. l \in Seq(R) /\ Len(l) = Len(s) + 1 /\ \A i \in 1..(Len(s) + 1) : l[i] = g[a[i]]
  BY <1>1, MappedType
<1>3. m \in Seq(R) /\ Len(m) = Len(s) /\ \A i \in 1..Len(s) : m[i] = g[s[i]]
  BY DEF Mapped
<1> HIDE DEF m
<1>4. g[x] \in R
  OBVIOUS
<1>5. /\ r \in Seq(R) /\ Len(r) = Len(s) + 1 /\ r[Len(s) + 1] = g[x]
      /\ \A i \in 1..Len(s) : r[i] = m[i]
  BY <1>3, <1>4, Appended
<1> HIDE DEF l, r
<1>6. ASSUME NEW i \in 1..(Len(s) + 1) PROVE l[i] = r[i]
  <2>1. i \in 1..Len(s) \/ i = Len(s) + 1
    BY <1>1
  <2> QED
    BY <1>1, <1>2, <1>3, <1>5, <2>1
<1>7. l = r
  BY <1>2, <1>5, <1>6, SeqEqual
<1> QED
  BY <1>7 DEF l, r, m, a

\* Two functions that agree on the elements give the same.
LEMMA MappedSame ==
    ASSUME NEW S, NEW s \in Seq(S), NEW g, NEW k, \A x \in ToSet(s) : g[x] = k[x]
    PROVE  Mapped(g, s) = Mapped(k, s)
<1>1. \A i \in 1..Len(s) : s[i] \in ToSet(s)
  BY DEF ToSet
<1> QED
  BY <1>1 DEF Mapped

\* g maps S into R, and J holds the elements whose images are in K.
Preimage(g, S, R, J, K) == g \in [S -> R] /\ \A x \in S : x \in J <=> g[x] \in K

\* Selection of images is selection of what they come from.
LEMMA OnlyMapped ==
    ASSUME NEW S, NEW R, NEW g, NEW s \in Seq(S), NEW K, NEW J, Preimage(g, S, R, J, K)
    PROVE  Only(Mapped(g, s), K) = Mapped(g, Only(s, J))
<1> DEFINE T == {q \in Seq(S) : Only(Mapped(g, q), K) = Mapped(g, Only(q, J))}
<1>0. g \in [S -> R] /\ \A x \in S : x \in J <=> g[x] \in K
  BY DEF Preimage
<1>1. <<>> \in T
  <2>1. <<>> \in Seq(S) /\ Mapped(g, <<>>) = <<>>
    BY DEF Mapped
  <2> QED
    BY <2>1, OnlyEmpty
<1>2. ASSUME NEW q \in T, NEW x \in S PROVE Append(q, x) \in T
  <2>1. q \in Seq(S) /\ Only(Mapped(g, q), K) = Mapped(g, Only(q, J))
    OBVIOUS
  <2>2. Append(q, x) \in Seq(S) /\ Only(q, J) \in Seq(S) /\ g[x] \in R
    BY <1>0, <2>1, Appended, OnlyHolds
  <2>3. Mapped(g, q) \in Seq(R)
    BY <1>0, <2>1, MappedType
  <2>4. Mapped(g, Append(q, x)) = Append(Mapped(g, q), g[x])
    BY ZenonT(40), <1>0, <2>1, MappedAppend
  <2>5. Only(Append(Mapped(g, q), g[x]), K) =
          IF g[x] \in K THEN Append(Only(Mapped(g, q), K), g[x]) ELSE Only(Mapped(g, q), K)
    <3> DEFINE y == g[x]
               M == Mapped(g, q)
    <3>1. y \in R /\ M \in Seq(R)
      BY <2>2, <2>3
    <3> HIDE DEF y, M
    <3>2. Only(Append(M, y), K) = IF y \in K THEN Append(Only(M, K), y) ELSE Only(M, K)
      BY <3>1, OnlyAppend
    <3> QED
      BY <3>2 DEF y, M
  <2>6. Only(Append(q, x), J) = IF x \in J THEN Append(Only(q, J), x) ELSE Only(q, J)
    BY <2>1, OnlyAppend
  <2>7. Mapped(g, Append(Only(q, J), x)) = Append(Mapped(g, Only(q, J)), g[x])
    BY ZenonT(40), <1>0, <2>2, MappedAppend
  <2>8. Only(Mapped(g, Append(q, x)), K) = Mapped(g, Only(Append(q, x), J))
    <3>1. CASE x \in J
      BY <1>0, <2>1, <2>4, <2>5, <2>6, <2>7, <3>1
    <3>2. CASE x \notin J
      BY <1>0, <2>1, <2>4, <2>5, <2>6, <3>2
    <3> QED
      BY <3>1, <3>2
  <2> QED
    BY <2>2, <2>8
<1>3. T = Seq(S)
  <2>1. T \in SUBSET Seq(S)
    OBVIOUS
  <2> HIDE DEF T
  <2> QED
    BY <1>1, <1>2, <2>1, AppendSteps
<1> QED
  BY <1>3

\* The images of all elements but the first.
LEMMA MappedTail ==
    ASSUME NEW S, NEW R, NEW g \in [S -> R], NEW s \in Seq(S), s # <<>>
    PROVE  Mapped(g, Tail(s)) = Tail(Mapped(g, s))
<1> DEFINE m == Mapped(g, s)
           l == Mapped(g, Tail(s))
<1>1. /\ Tail(s) \in Seq(S) /\ Len(Tail(s)) = Len(s) - 1 /\ Len(s) \in Nat \ {0}
      /\ \A i \in 1..(Len(s) - 1) : Tail(s)[i] = s[i + 1]
  OBVIOUS
<1>2. m \in Seq(R) /\ Len(m) = Len(s) /\ \A i \in 1..Len(s) : m[i] = g[s[i]]
  BY DEF Mapped
<1>3. l \in Seq(R) /\ Len(l) = Len(s) - 1 /\ \A i \in 1..(Len(s) - 1) : l[i] = g[Tail(s)[i]]
  BY <1>1, DOMAIN Tail(s) = 1..(Len(s) - 1) DEF Mapped
<1> HIDE DEF m, l
<1>4. m # <<>>
  BY <1>1, <1>2
<1>5. /\ Tail(m) \in Seq(R) /\ Len(Tail(m)) = Len(s) - 1
      /\ \A i \in 1..(Len(s) - 1) : Tail(m)[i] = m[i + 1]
  BY <1>2, <1>4, HeadTailProperties
<1>6. \A i \in 1..(Len(s) - 1) : i + 1 \in 1..Len(s)
  BY <1>1
<1>7. \A i \in 1..(Len(s) - 1) : l[i] = Tail(m)[i]
  BY <1>1, <1>2, <1>3, <1>5, <1>6
<1>8. l = Tail(m)
  BY <1>3, <1>5, <1>7, SeqEqual
<1> QED
  BY <1>8 DEF l, m

-----------------------------------------------------------------------------
(* The tombstones *)

\* The entries that n burials can have made.
Refs(n) == [hash : Hash, seq : 1..n]

\* A hash has no tombstone, or one with an ending and the number of a burial.
Stones(m, n) ==
    /\ m \in [Hash -> [typ : Terminal \cup {"none"}, seq : 0..n]]
    /\ \A h \in Hash : m[h] = None \/ (m[h].typ \in Terminal /\ m[h].seq >= 1)

\* Entries are in the order of their burials.
Ordered(f) == \A i, j \in DOMAIN f : i < j => f[i].seq < f[j].seq

\* Every tombstone has its entry.
Entered(m, f) ==
    \A h \in Live(m) : \E i \in 1..Len(f) : f[i] = [hash |-> h, seq |-> m[h].seq]

FifoSound(m, f, n) ==
    n \in Nat /\ Stones(m, n) /\ f \in Seq(Refs(n)) /\ Ordered(f) /\ Entered(m, f)

MemoryInv ==
    /\ FifoSound(tombstones, fifo, seq)
    /\ Cardinality(Live(tombstones)) <= Cap /\ Len(fifo) <= 2 * Cap

\* Matching entries are those of live hashes.
LEMMA MatchIsLive ==
    ASSUME NEW n \in Nat, NEW m, Stones(m, n), NEW ref \in Refs(n)
    PROVE  Matches(m, ref) <=> /\ ref.hash \in Live(m)
                               /\ ref = [hash |-> ref.hash, seq |-> m[ref.hash].seq]
BY DEF Stones, Refs, Matches, Live, None, Terminal

\* Entries in order are all different.
LEMMA OrderedOnce ==
    ASSUME NEW n \in Nat, NEW f \in Seq(Refs(n)), Ordered(f)
    PROVE  IsInjective(f)
<1> SUFFICES ASSUME NEW i \in DOMAIN f, NEW j \in DOMAIN f, f[i] = f[j] PROVE i = j
  BY DEF IsInjective
<1>1. DOMAIN f \subseteq Int /\ f[i].seq \in Int
  <2>1. DOMAIN f = 1..Len(f) /\ f[i] \in Refs(n)
    OBVIOUS
  <2> QED
    BY <2>1 DEF Refs
<1>2. f[i].seq = f[j].seq
  OBVIOUS
<1> QED
  BY <1>1, <1>2 DEF Ordered

\* A later entry may follow.
LEMMA OrderedAppend ==
    ASSUME NEW n \in Nat, NEW f \in Seq(Refs(n)), NEW x \in Refs(n)
    PROVE  Ordered(Append(f, x)) <=> Ordered(f) /\ \A r \in ToSet(f) : r.seq < x.seq
<1> DEFINE a == Append(f, x)
<1>1. /\ Len(f) \in Nat /\ DOMAIN f = 1..Len(f) /\ DOMAIN a = 1..(Len(f) + 1)
      /\ a[Len(f) + 1] = x /\ \A i \in 1..Len(f) : a[i] = f[i]
  BY Appended
<1> HIDE DEF a
<1>2. ASSUME Ordered(a) PROVE Ordered(f) /\ \A r \in ToSet(f) : r.seq < x.seq
  <2>1. \A i \in DOMAIN f : i \in DOMAIN a /\ i < Len(f) + 1 /\ a[i] = f[i]
    BY <1>1
  <2>2. Len(f) + 1 \in DOMAIN a
    BY <1>1
  <2>3. \A i \in DOMAIN f : f[i].seq < x.seq
    BY <1>1, <1>2, <2>1, <2>2 DEF Ordered
  <2>4. Ordered(f)
    BY <1>2, <2>1 DEF Ordered
  <2> QED
    BY <2>3, <2>4 DEF ToSet
<1>3. ASSUME Ordered(f), \A r \in ToSet(f) : r.seq < x.seq PROVE Ordered(a)
  <2> SUFFICES ASSUME NEW i \in DOMAIN a, NEW j \in DOMAIN a, i < j PROVE a[i].seq < a[j].seq
    BY DEF Ordered
  <2>1. i \in DOMAIN f
    BY <1>1
  <2>2. j \in DOMAIN f \/ j = Len(f) + 1
    BY <1>1
  <2>3. a[i] = f[i] /\ f[i] \in ToSet(f)
    BY <1>1, <2>1 DEF ToSet
  <2> QED
    BY <1>1, <1>3, <2>1, <2>2, <2>3 DEF Ordered
<1> QED
  BY <1>2, <1>3 DEF a

\* Selection keeps the order.
LEMMA OnlyOrdered ==
    ASSUME NEW n \in Nat, NEW f \in Seq(Refs(n)), Ordered(f), NEW K
    PROVE  Ordered(Only(f, K))
<1> DEFINE T == {q \in Seq(Refs(n)) : Ordered(q) => Ordered(Only(q, K))}
<1>1. <<>> \in T
  BY OnlyEmpty
<1>2. ASSUME NEW q \in T, NEW x \in Refs(n) PROVE Append(q, x) \in T
  <2>1. q \in Seq(Refs(n)) /\ (Ordered(q) => Ordered(Only(q, K)))
    OBVIOUS
  <2>2. Append(q, x) \in Seq(Refs(n))
    BY <2>1
  <2>3. Only(q, K) \in Seq(Refs(n)) /\ ToSet(Only(q, K)) \subseteq ToSet(q)
    BY <2>1, OnlyHolds
  <2>4. Only(Append(q, x), K) = IF x \in K THEN Append(Only(q, K), x) ELSE Only(q, K)
    BY <2>1, OnlyAppend
  <2>5. ASSUME Ordered(Append(q, x)) PROVE Ordered(Only(Append(q, x), K))
    <3>1. Ordered(q) /\ \A r \in ToSet(q) : r.seq < x.seq
      BY <2>1, <2>5, OrderedAppend
    <3>2. Ordered(Append(Only(q, K), x))
      BY <2>1, <2>3, <3>1, OrderedAppend
    <3> QED
      BY <2>1, <2>4, <3>1, <3>2
  <2> QED
    BY <2>2, <2>5
<1>3. T = Seq(Refs(n))
  <2>1. T \in SUBSET Seq(Refs(n))
    OBVIOUS
  <2> HIDE DEF T
  <2> QED
    BY <1>1, <1>2, <2>1, AppendSteps
<1> QED
  BY <1>3

\* The fresh entries are those of the live hashes, one for each.
LEMMA FreshFacts ==
    ASSUME NEW m, NEW f, NEW n, FifoSound(m, f, n)
    PROVE  /\ Fresh(m, f) \in Seq(Refs(n)) /\ Ordered(Fresh(m, f))
           /\ ToSet(Fresh(m, f)) = {ref \in ToSet(f) : Matches(m, ref)}
           /\ \A ref \in ToSet(Fresh(m, f)) : ref.hash \in Live(m)
           /\ Len(Fresh(m, f)) = Cardinality(Live(m))
           /\ Entered(m, Fresh(m, f))
<1> USE DEF FifoSound
<1> DEFINE L == Fresh(m, f)
           hs == [i \in 1..Len(L) |-> L[i].hash]
<1>1. L \in Seq(Refs(n)) /\ ToSet(L) = {ref \in ToSet(f) : Matches(m, ref)} /\ Ordered(L)
  <2>1. L \in Seq(Refs(n)) /\ ToSet(L) = ToSet(f) \cap {ref \in ToSet(f) : Matches(m, ref)}
    BY OnlyHolds DEF Fresh
  <2>2. Ordered(L)
    BY OnlyOrdered DEF Fresh
  <2> QED
    BY <2>1, <2>2
<1> HIDE DEF L
<1>2. \A i \in 1..Len(L) : L[i] \in Refs(n) /\ L[i] \in ToSet(L)
  BY <1>1 DEF ToSet
<1>3. \A i \in 1..Len(L) :
        L[i].hash \in Live(m) /\ L[i] = [hash |-> L[i].hash, seq |-> m[L[i].hash].seq]
  <2> SUFFICES ASSUME NEW i \in 1..Len(L)
               PROVE  L[i].hash \in Live(m) /\ L[i] = [hash |-> L[i].hash, seq |-> m[L[i].hash].seq]
    OBVIOUS
  <2>1. L[i] \in Refs(n) /\ Matches(m, L[i])
    BY <1>1, <1>2
  <2> QED
    BY <2>1, MatchIsLive
<1>4. hs \in Seq(Live(m)) /\ Len(hs) = Len(L) /\ DOMAIN hs = 1..Len(L)
  <2>1. Len(L) \in Nat
    BY <1>1
  <2>2. hs \in [1..Len(L) -> Live(m)]
    BY <1>3
  <2> HIDE DEF hs
  <2> QED
    BY <2>1, <2>2
<1>5. IsInjective(hs)
  <2> SUFFICES ASSUME NEW i \in 1..Len(L), NEW j \in 1..Len(L), L[i].hash = L[j].hash
               PROVE  i = j
    BY <1>4 DEF IsInjective
  <2>1. L[i] = L[j]
    BY <1>3
  <2>2. IsInjective(L) /\ DOMAIN L = 1..Len(L)
    BY <1>1, OrderedOnce
  <2> QED
    BY <2>1, <2>2 DEF IsInjective
<1>6. Entered(m, L)
  <2> SUFFICES ASSUME NEW h \in Live(m)
               PROVE  \E i \in 1..Len(L) : L[i] = [hash |-> h, seq |-> m[h].seq]
    BY DEF Entered
  <2>1. PICK i \in 1..Len(f) : f[i] = [hash |-> h, seq |-> m[h].seq]
    BY DEF Entered
  <2>2. f[i] \in ToSet(f) /\ Matches(m, f[i])
    BY <2>1 DEF ToSet, Matches
  <2>3. [hash |-> h, seq |-> m[h].seq] \in ToSet(L)
    BY <1>1, <2>1, <2>2
  <2> QED
    BY <1>1, <2>3 DEF ToSet
<1>7. ToSet(hs) = Live(m)
  <2>1. ToSet(hs) \subseteq Live(m)
    BY <1>3, <1>4 DEF ToSet
  <2>2. ASSUME NEW h \in Live(m) PROVE h \in ToSet(hs)
    <3>1. PICK i \in 1..Len(L) : L[i] = [hash |-> h, seq |-> m[h].seq]
      BY <1>6 DEF Entered
    <3>2. hs[i] = h
      BY <3>1
    <3> QED
      BY <1>4, <3>2 DEF ToSet
  <2> QED
    BY <2>1, <2>2
<1> HIDE DEF hs
<1>8. Len(L) = Cardinality(Live(m))
  BY <1>4, <1>5, <1>7, DistinctCount
<1>9. \A ref \in ToSet(L) : ref.hash \in Live(m)
  <2> SUFFICES ASSUME NEW ref \in ToSet(L) PROVE ref.hash \in Live(m)
    OBVIOUS
  <2>1. PICK i \in 1..Len(L) : ref = L[i]
    BY <1>1 DEF ToSet
  <2> QED
    BY <1>3, <2>1
<1> QED
  BY <1>1, <1>6, <1>8, <1>9 DEF L

\* The entries of the other hashes.
Others(h, n) == {ref \in Refs(n) : ref.hash # h}

\* A tombstone is set, or cleared.
Set(m, h, typ, n) == [m EXCEPT ![h] = [typ |-> typ, seq |-> n]]
Cleared(m, h) == [m EXCEPT ![h] = None]

\* Entries of fewer burials are entries of more.
LEMMA MoreRefs ==
    ASSUME NEW n \in Nat, NEW f \in Seq(Refs(n))
    PROVE  f \in Seq(Refs(n + 1)) /\ \A ref \in ToSet(f) : ref \in Refs(n) /\ ref.seq \in 1..n
<1>1. Refs(n) \subseteq Refs(n + 1)
  BY DEF Refs
<1>2. f \in Seq(Refs(n + 1))
  BY <1>1, SeqMonotonic
<1>3. \A ref \in ToSet(f) : ref \in Refs(n)
  BY DEF ToSet
<1> QED
  BY <1>2, <1>3 DEF Refs

\* A burial's tombstone and entry, before any eviction.
LEMMA BurySound ==
    ASSUME NEW m, NEW f, NEW n, FifoSound(m, f, n), NEW h \in Hash, NEW typ \in Terminal,
           NEW m1, m1 = Set(m, h, typ, n + 1), NEW x, x = [hash |-> h, seq |-> n + 1]
    PROVE  /\ FifoSound(m1, Append(f, x), n + 1)
           /\ Live(m1) = Live(m) \cup {h}
           /\ Fresh(m1, Append(f, x)) = Append(Only(Fresh(m, f), Others(h, n)), x)
<1> USE DEF FifoSound
<1>1. n \in Nat /\ n + 1 \in Nat /\ x \in Refs(n + 1)
  BY DEF Refs
<1>2. /\ f \in Seq(Refs(n + 1)) /\ \A ref \in ToSet(f) : ref \in Refs(n) /\ ref.seq \in 1..n
  BY MoreRefs
<1>3. m1 \in [Hash -> [typ : Terminal \cup {"none"}, seq : 0..(n + 1)]]
  BY <1>1 DEF Stones, Set
<1>4. m1[h].seq = n + 1 /\ m1[h].typ = typ /\ \A g \in Hash \ {h} : m1[g] = m[g]
  BY <1>1 DEF Stones, Set
<1>5. m1[h] # None
  BY <1>1, <1>4 DEF None
<1>6. Stones(m1, n + 1)
  BY <1>1, <1>3, <1>4 DEF Stones
<1>7. Live(m1) = Live(m) \cup {h}
  BY <1>4, <1>5 DEF Live
<1> DEFINE f1 == Append(f, x)
<1>8. f1 \in Seq(Refs(n + 1)) /\ ToSet(f1) = ToSet(f) \cup {x}
  BY <1>1, <1>2, AppendDistinct
<1>9. Ordered(f1)
  <2>1. \A ref \in ToSet(f) : ref.seq < x.seq
    BY <1>1, <1>2
  <2> QED
    BY <1>1, <1>2, <2>1, OrderedAppend
<1>10. Entered(m1, f1)
  <2> SUFFICES ASSUME NEW g \in Live(m1)
               PROVE  \E i \in 1..Len(f1) : f1[i] = [hash |-> g, seq |-> m1[g].seq]
    BY DEF Entered
  <2>1. /\ Len(f) \in Nat /\ Len(f1) = Len(f) + 1 /\ f1[Len(f) + 1] = x
        /\ \A i \in 1..Len(f) : f1[i] = f[i]
    BY <1>1, <1>2, Appended
  <2> HIDE DEF f1
  <2>2. CASE g = h
    <3>1. Len(f) + 1 \in 1..Len(f1)
      BY <2>1
    <3> QED
      BY <1>4, <2>1, <2>2, <3>1
  <2>3. CASE g # h
    <3>1. g \in Live(m) /\ m1[g] = m[g]
      BY <1>4, <1>7, <2>3 DEF Live
    <3>2. PICK i \in 1..Len(f) : f[i] = [hash |-> g, seq |-> m[g].seq]
      BY <3>1 DEF Entered
    <3>3. i \in 1..Len(f1) /\ f1[i] = f[i]
      BY <2>1
    <3> QED
      BY <3>1, <3>2, <3>3
  <2> QED
    BY <2>2, <2>3
<1> DEFINE K == {ref \in ToSet(f) : Matches(m, ref)}
           K1 == {ref \in ToSet(f1) : Matches(m1, ref)}
<1>11. Fresh(m1, f1) = Append(Only(f, K1), x)
  <2>1. x \in K1
    BY <1>4, <1>8 DEF Matches
  <2>2. Only(f1, K1) = Append(Only(f, K1), x)
    <3> HIDE DEF K1
    <3> QED
      BY <1>1, <1>2, <2>1, OnlyAppend
  <2> QED
    BY <2>2 DEF Fresh
<1>12. ToSet(f) \cap K1 = ToSet(f) \cap (K \cap Others(h, n))
  <2> SUFFICES ASSUME NEW ref \in ToSet(f)
               PROVE  ref \in K1 <=> ref \in K /\ ref \in Others(h, n)
    OBVIOUS
  <2>1. ref \in Refs(n) /\ ref.hash \in Hash /\ ref.seq \in 1..n
    BY <1>2 DEF Refs
  <2>2. ref.hash = h => ~Matches(m1, ref)
    BY <1>1, <1>4, <2>1 DEF Matches
  <2>3. ref.hash # h => (Matches(m1, ref) <=> Matches(m, ref))
    BY <1>4, <2>1 DEF Matches
  <2> QED
    BY <1>8, <2>1, <2>2, <2>3 DEF Others
<1>13. Only(f, K1) = Only(Fresh(m, f), Others(h, n))
  <2>1. Fresh(m, f) = Only(f, K)
    BY DEF Fresh
  <2> HIDE DEF K, K1
  <2>2. Only(f, K1) = Only(f, K \cap Others(h, n))
    BY <1>12, OnlySame
  <2>3. Only(Only(f, K), Others(h, n)) = Only(f, K \cap Others(h, n))
    BY OnlyTwice
  <2> QED
    BY <2>1, <2>2, <2>3
<1> QED
  BY <1>1, <1>6, <1>7, <1>8, <1>9, <1>10, <1>11, <1>13

\* A cleared tombstone takes its entry along; the others stay in order.
LEMMA ClearSound ==
    ASSUME NEW m, NEW f, NEW n, FifoSound(m, f, n), NEW h \in Hash,
           NEW m1, m1 = Cleared(m, h)
    PROVE  /\ FifoSound(m1, f, n)
           /\ Live(m1) = Live(m) \ {h}
           /\ Fresh(m1, f) = Only(Fresh(m, f), Others(h, n))
<1> USE DEF FifoSound
<1>1. m1 \in [Hash -> [typ : Terminal \cup {"none"}, seq : 0..n]]
  BY DEF Stones, Cleared, None
<1>2. m1[h] = None /\ \A g \in Hash \ {h} : m1[g] = m[g]
  BY DEF Stones, Cleared
<1>3. Stones(m1, n)
  BY <1>1, <1>2 DEF Stones
<1>4. Live(m1) = Live(m) \ {h}
  BY <1>2 DEF Live
<1>5. Entered(m1, f)
  BY <1>2, <1>4 DEF Entered, Live
<1> DEFINE K == {ref \in ToSet(f) : Matches(m, ref)}
           K1 == {ref \in ToSet(f) : Matches(m1, ref)}
<1>6. ToSet(f) \cap K1 = ToSet(f) \cap (K \cap Others(h, n))
  <2> SUFFICES ASSUME NEW ref \in ToSet(f)
               PROVE  ref \in K1 <=> ref \in K /\ ref \in Others(h, n)
    OBVIOUS
  <2>1. ref \in Refs(n) /\ ref.hash \in Hash /\ ref.seq \in 1..n
    BY MoreRefs DEF Refs
  <2>2. ref.hash = h => ~Matches(m1, ref)
    BY <1>2, <2>1 DEF Matches, None
  <2>3. ref.hash # h => (Matches(m1, ref) <=> Matches(m, ref))
    BY <1>2, <2>1 DEF Matches
  <2> QED
    BY <2>1, <2>2, <2>3 DEF Others
<1>7. Fresh(m1, f) = Only(Fresh(m, f), Others(h, n))
  <2>1. Fresh(m, f) = Only(f, K) /\ Fresh(m1, f) = Only(f, K1)
    BY DEF Fresh
  <2> HIDE DEF K, K1
  <2>2. Only(f, K1) = Only(f, K \cap Others(h, n))
    BY <1>6, OnlySame
  <2>3. Only(Only(f, K), Others(h, n)) = Only(f, K \cap Others(h, n))
    BY OnlyTwice
  <2> QED
    BY <2>1, <2>2, <2>3
<1> QED
  BY <1>3, <1>4, <1>5, <1>7

\* Nothing is left when the set and the sequence share nothing.
LEMMA OnlyNone ==
    ASSUME NEW S, NEW s \in Seq(S), NEW K, ToSet(s) \cap K = {}
    PROVE  Only(s, K) = <<>>
<1>1. Only(s, K) \in Seq(S) /\ ToSet(Only(s, K)) = {}
  BY OnlyHolds
<1> DEFINE q == Only(s, K)
<1> HIDE DEF q
<1>2. q \in Seq(S) /\ ToSet(q) = {}
  BY <1>1 DEF q
<1>3. q # <<>> => 1 \in DOMAIN q /\ q[1] \in ToSet(q)
  BY <1>2 DEF ToSet
<1> QED
  BY <1>2, <1>3 DEF q

\* A sequence around one of its places.
Before(f, i) == SubSeq(f, 1, i - 1)
Behind(f, i) == SubSeq(f, i + 1, Len(f))

\* What is before a place and what is behind it.
LEMMA Parts ==
    ASSUME NEW S, NEW f \in Seq(S), NEW i \in 1..Len(f)
    PROVE  /\ Before(f, i) \in Seq(S) /\ Behind(f, i) \in Seq(S)
           /\ Len(Before(f, i)) = i - 1 /\ \A j \in 1..(i - 1) : Before(f, i)[j] = f[j]
           /\ Len(Behind(f, i)) = Len(f) - i
           /\ \A j \in 1..(Len(f) - i) : Behind(f, i)[j] = f[i + j]
<1>0. Len(f) \in Nat /\ i \in Nat /\ i <= Len(f) /\ DOMAIN f = 1..Len(f)
  OBVIOUS
<1>1. /\ Before(f, i) \in Seq(S)
      /\ Len(Before(f, i)) = i - 1 /\ \A j \in 1..(i - 1) : Before(f, i)[j] = f[j]
  BY <1>0 DEF Before
<1> DEFINE z == Behind(f, i)
<1>2. \A j \in (i + 1)..Len(f) : f[j] \in S
  BY <1>0
<1>3. /\ z \in Seq(S) /\ Len(z) = IF i + 1 <= Len(f) THEN Len(f) - (i + 1) + 1 ELSE 0
      /\ \A j \in 1..(Len(f) - (i + 1) + 1) : z[j] = f[(i + 1) + j - 1]
  BY <1>0, <1>2, SubSeqProperties DEF Behind
<1> HIDE DEF z
<1>4. Len(f) - (i + 1) + 1 = Len(f) - i
  BY <1>0
<1>5. \A j \in 1..(Len(f) - i) : (i + 1) + j - 1 = i + j
  BY <1>0
<1>6. Len(z) = Len(f) - i
  <2>1. CASE i + 1 <= Len(f)
    BY <1>3, <1>4, <2>1
  <2>2. CASE ~(i + 1 <= Len(f))
    <3>1. Len(f) - i = 0
      <4> DEFINE k == Len(f)
      <4>1. k \in Nat /\ i \in Nat /\ i <= k /\ ~(i + 1 <= k)
        BY <1>0, <2>2
      <4> HIDE DEF k
      <4>2. k - i = 0
        BY <4>1
      <4> QED
        BY <4>2 DEF k
    <3> QED
      BY <1>3, <2>2, <3>1
  <2> QED
    BY <2>1, <2>2
<1>7. \A j \in 1..(Len(f) - i) : z[j] = f[i + j]
  BY <1>3, <1>4, <1>5
<1> QED
  BY <1>1, <1>3, <1>6, <1>7 DEF z

\* ... which make it up.
LEMMA Rejoined ==
    ASSUME NEW S, NEW f \in Seq(S), NEW i \in 1..Len(f)
    PROVE  Append(Before(f, i), f[i]) \o Behind(f, i) = f
<1> DEFINE a == Before(f, i)
           z == Behind(f, i)
<1>0. Len(f) \in Nat /\ i \in Nat /\ i <= Len(f) /\ DOMAIN f = 1..Len(f)
  OBVIOUS
<1>1. a \in Seq(S) /\ Len(a) = i - 1 /\ \A j \in 1..(i - 1) : a[j] = f[j]
  BY Parts
<1>2. z \in Seq(S) /\ Len(z) = Len(f) - i /\ \A j \in 1..(Len(f) - i) : z[j] = f[i + j]
  BY Parts
<1> HIDE DEF a, z
<1>3. f[i] \in S
  OBVIOUS
<1> DEFINE b == Append(a, f[i])
<1>4. /\ b \in Seq(S) /\ Len(b) = i /\ b[i] = f[i] /\ \A j \in 1..(i - 1) : b[j] = a[j]
  BY <1>0, <1>1, <1>3, Appended
<1> HIDE DEF b
<1> DEFINE l == b \o z
<1>5. /\ l \in Seq(S) /\ Len(l) = Len(f)
      /\ \A j \in 1..Len(f) : l[j] = IF j <= i THEN b[j] ELSE z[j - i]
  <2>1. /\ l \in Seq(S) /\ Len(l) = Len(b) + Len(z)
        /\ \A j \in 1..(Len(b) + Len(z)) : l[j] = IF j <= Len(b) THEN b[j] ELSE z[j - Len(b)]
    <3>1. b \in Seq(S) /\ z \in Seq(S)
      BY <1>2, <1>4
    <3> QED
      BY <3>1, ConcatProperties
  <2>2. Len(b) + Len(z) = Len(f)
    BY <1>0, <1>2, <1>4
  <2> QED
    BY <1>4, <2>1, <2>2
<1> HIDE DEF l
<1>6. ASSUME NEW j \in 1..Len(f) PROVE l[j] = f[j]
  <2>1. CASE j = i
    BY <1>0, <1>4, <1>5, <2>1
  <2>2. CASE j < i
    <3>1. j \in 1..(i - 1) /\ j <= i
      BY <1>0, <2>2
    <3> QED
      BY <1>1, <1>4, <1>5, <3>1
  <2>3. CASE j > i
    <3>1. j - i \in 1..(Len(f) - i) /\ i + (j - i) = j /\ ~(j <= i)
      BY <1>0, <2>3
    <3> QED
      BY <1>2, <1>5, <3>1
  <2> QED
    BY <1>0, <2>1, <2>2, <2>3
<1>7. l = f
  BY <1>5, <1>6, SeqEqual
<1> QED
  BY <1>7 DEF l, b, a, z

\* A sequence behind a first element.
LEMMA FirstApart ==
    ASSUME NEW S, NEW q \in Seq(S), NEW x \in S
    PROVE  Append(<<>>, x) \o q # <<>> /\ Tail(Append(<<>>, x) \o q) = q
<1> DEFINE b == Append(<<>>, x)
           l == b \o q
<1>1. b \in Seq(S) /\ Len(b) = 1 /\ Len(q) \in Nat
  OBVIOUS
<1> HIDE DEF b
<1>2. /\ l \in Seq(S) /\ Len(l) = 1 + Len(q)
      /\ \A i \in 1..(1 + Len(q)) : l[i] = IF i <= 1 THEN b[i] ELSE q[i - 1]
  BY SMTT(40), <1>1, ConcatProperties
<1> HIDE DEF l
<1>3. l # <<>>
  BY <1>1, <1>2
<1>4. /\ Tail(l) \in Seq(S) /\ Len(Tail(l)) = Len(q)
      /\ \A i \in 1..Len(q) : Tail(l)[i] = l[i + 1]
  BY <1>1, <1>2, <1>3, HeadTailProperties
<1>5. \A i \in 1..Len(q) : Tail(l)[i] = q[i]
  <2>1. \A i \in 1..Len(q) : i + 1 \in 1..(1 + Len(q)) /\ ~(i + 1 <= 1) /\ (i + 1) - 1 = i
    BY <1>1
  <2> QED
    BY <1>2, <1>4, <2>1
<1>6. Tail(l) = q
  BY <1>4, <1>5, SeqEqual
<1> QED
  BY <1>3, <1>6 DEF l, b

\* The first matching entry goes with its tombstone and all entries before it.
LEMMA EvictAt ==
    ASSUME NEW m, NEW f, NEW n, FifoSound(m, f, n), NEW i \in 1..Len(f),
           Matches(m, f[i]), \A k \in 1..(i - 1) : ~Matches(m, f[k]),
           NEW m1, m1 = Cleared(m, f[i].hash), NEW z, z = Behind(f, i)
    PROVE  /\ FifoSound(m1, z, n)
           /\ f[i].hash \in Live(m) /\ Live(m1) = Live(m) \ {f[i].hash}
           /\ Len(z) \in Nat /\ Len(z) < Len(f)
           /\ Fresh(m, f) # <<>> /\ Fresh(m1, z) = Tail(Fresh(m, f))
<1> USE DEF FifoSound
<1> DEFINE a == Before(f, i)
           h == f[i].hash
<1>0. n \in Nat /\ Len(f) \in Nat /\ i \in Nat /\ DOMAIN f = 1..Len(f)
  OBVIOUS
<1>1. /\ a \in Seq(Refs(n)) /\ z \in Seq(Refs(n)) /\ f[i] \in Refs(n)
      /\ Len(z) = Len(f) - i /\ \A j \in 1..(Len(f) - i) : z[j] = f[i + j]
      /\ \A r \in ToSet(a) : \E k \in 1..(i - 1) : r = f[k]
  <2>1. f \in Seq(Refs(n))
    OBVIOUS
  <2>2. f[i] \in Refs(n)
    BY <2>1
  <2> HIDE DEF FifoSound
  <2>3. /\ a \in Seq(Refs(n)) /\ z \in Seq(Refs(n)) /\ Len(a) = i - 1
        /\ \A j \in 1..(i - 1) : a[j] = f[j]
        /\ Len(z) = Len(f) - i /\ \A j \in 1..(Len(f) - i) : z[j] = f[i + j]
    BY ZenonT(40), <2>1, Parts
  <2> HIDE DEF a
  <2>4. \A r \in ToSet(a) : \E k \in 1..(i - 1) : r = f[k]
    <3>1. DOMAIN a = 1..(i - 1)
      BY <2>3
    <3> QED
      BY <2>3, <3>1 DEF ToSet
  <2> QED
    BY <2>2, <2>3, <2>4
<1> HIDE DEF a
<1>2. h \in Live(m) /\ h \in Hash /\ f[i].seq = m[h].seq
  <2>1. f[i] \in Refs(n) /\ n \in Nat /\ Stones(m, n)
    BY <1>0, <1>1
  <2>2. h \in Live(m)
    BY <2>1, MatchIsLive
  <2> QED
    BY <2>2 DEF Live, Matches
<1>3. FifoSound(m1, f, n) /\ Live(m1) = Live(m) \ {h}
  BY <1>2, ClearSound
<1>4. /\ DOMAIN z = 1..Len(z)
      /\ \A j \in DOMAIN z : i + j \in DOMAIN f /\ z[j] = f[i + j] /\ i < i + j
  BY <1>0, <1>1
<1>5. Ordered(z)
  <2> SUFFICES ASSUME NEW j \in DOMAIN z, NEW k \in DOMAIN z, j < k
               PROVE  z[j].seq < z[k].seq
    BY DEF Ordered
  <2>1. i + j < i + k
    BY <1>0, <1>4
  <2> QED
    BY <1>4, <2>1 DEF Ordered
<1>6. Entered(m1, z)
  <2> SUFFICES ASSUME NEW g \in Live(m1)
               PROVE  \E j \in 1..Len(z) : z[j] = [hash |-> g, seq |-> m1[g].seq]
    BY DEF Entered
  <2>1. g \in Live(m) /\ g # h /\ g \in Hash
    BY <1>3 DEF Live
  <2>2. PICK k \in 1..Len(f) : f[k] = [hash |-> g, seq |-> m1[g].seq]
    BY <1>3 DEF Entered
  <2>3. m1[g] = m[g]
    BY <2>1 DEF Cleared, Stones
  <2>4. Matches(m, f[k])
    BY <2>2, <2>3 DEF Matches
  <2>5. k # i /\ k \notin 1..(i - 1)
    BY <2>1, <2>2, <2>4
  <2>6. k - i \in 1..(Len(f) - i) /\ i + (k - i) = k
    BY <1>0, <2>5
  <2>7. z[k - i] = f[k] /\ k - i \in 1..Len(z)
    BY <1>1, <2>6
  <2> QED
    BY <2>2, <2>7
<1>7. FifoSound(m1, z, n)
  BY <1>1, <1>3, <1>5, <1>6
<1> DEFINE K == {ref \in ToSet(f) : Matches(m, ref)}
           K1 == {ref \in ToSet(z) : Matches(m1, ref)}
<1>8. Fresh(m, f) = Only(f, K) /\ Fresh(m1, z) = Only(z, K1)
  BY DEF Fresh
<1>9. f[i] \in K /\ ToSet(a) \cap K = {}
  <2>1. f[i] \in ToSet(f)
    BY <1>0 DEF ToSet
  <2>2. \A r \in ToSet(a) : ~Matches(m, r)
    BY <1>1
  <2> QED
    BY <2>1, <2>2
<1>10. ToSet(z) \cap K1 = ToSet(z) \cap K
  <2> SUFFICES ASSUME NEW ref \in ToSet(z) PROVE ref \in K1 <=> ref \in K
    OBVIOUS
  <2>1. PICK j \in DOMAIN z : ref = z[j]
    BY DEF ToSet
  <2>2. ref \in Refs(n) /\ ref.hash \in Hash /\ ref.seq \in 1..n /\ ref \in ToSet(f)
    <3>1. ref \in Refs(n)
      BY <1>1, <2>1
    <3>2. ref \in ToSet(f)
      BY <1>4, <2>1 DEF ToSet
    <3> QED
      BY <3>1, <3>2 DEF Refs
  <2>3. f[i].seq < ref.seq /\ f[i].seq \in Int
    <3>1. i \in DOMAIN f /\ i + j \in DOMAIN f /\ i < i + j /\ ref = f[i + j]
      BY <1>0, <1>4, <2>1
    <3>2. f[i].seq \in Int
      BY <1>1 DEF Refs
    <3>3. f[i].seq < f[i + j].seq
      BY <3>1 DEF Ordered
    <3> QED
      BY <3>1, <3>2, <3>3
  <2>4. CASE ref.hash = h
    <3>1. ~Matches(m1, ref)
      BY <1>2, <2>2, <2>4 DEF Matches, Cleared, Stones, None
    <3>2. ~Matches(m, ref)
      BY <1>2, <2>2, <2>3, <2>4 DEF Matches
    <3> QED
      BY <3>1, <3>2
  <2>5. CASE ref.hash # h
    <3>1. Matches(m1, ref) <=> Matches(m, ref)
      BY <2>2, <2>5 DEF Matches, Cleared, Stones
    <3> QED
      BY <2>2, <3>1
  <2> QED
    BY <2>4, <2>5
<1> HIDE DEF K, K1
<1>11. Only(f, K) = Append(<<>>, f[i]) \o Only(z, K)
  <2> DEFINE b == Append(a, f[i])
  <2>1. b \in Seq(Refs(n))
    BY <1>1
  <2>0. b \o z = f
    <3>1. f \in Seq(Refs(n))
      OBVIOUS
    <3> QED
      BY <3>1, Rejoined DEF a
  <2>2. Only(b, K) = Append(Only(a, K), f[i])
    <3>1. a \in Seq(Refs(n)) /\ f[i] \in Refs(n)
      BY <1>1
    <3> HIDE DEF FifoSound
    <3>2. Only(Append(a, f[i]), K) = IF f[i] \in K THEN Append(Only(a, K), f[i]) ELSE Only(a, K)
      BY <3>1, OnlyAppend
    <3> QED
      BY <1>9, <3>2
  <2> HIDE DEF b
  <2>3. Only(b \o z, K) = Only(b, K) \o Only(z, K)
    <3>1. b \in Seq(Refs(n)) /\ z \in Seq(Refs(n))
      BY <1>1, <2>1
    <3>2. \A y \in Seq(Refs(n)) : Only(b \o y, K) = Only(b, K) \o Only(y, K)
      BY SMTT(40), <3>1, OnlyConcat
    <3> QED
      BY <3>1, <3>2
  <2>4. Only(a, K) = <<>>
    BY <1>1, <1>9, OnlyNone
  <2> QED
    BY <2>0, <2>2, <2>3, <2>4
<1>12. Only(z, K1) = Only(z, K) /\ Only(z, K) \in Seq(Refs(n))
  BY <1>1, <1>10, OnlySame, OnlyHolds
<1>13. Fresh(m, f) # <<>> /\ Fresh(m1, z) = Tail(Fresh(m, f))
  <2> DEFINE q == Only(z, K)
             r == f[i]
  <2>1. q \in Seq(Refs(n)) /\ r \in Refs(n)
    BY <1>1, <1>12
  <2> HIDE DEF q, r
  <2>2. Append(<<>>, r) \o q # <<>> /\ Tail(Append(<<>>, r) \o q) = q
    BY <2>1, FirstApart
  <2> QED
    BY <1>8, <1>11, <1>12, <2>2 DEF q, r
<1>14. Len(z) \in Nat /\ Len(z) < Len(f)
  BY <1>0, <1>1
<1> QED
  BY <1>2, <1>3, <1>7, <1>13, <1>14

\* Tombstones can be counted.
LEMMA Counts ==
    ASSUME NEW m
    PROVE  /\ IsFiniteSet(Live(m)) /\ Cardinality(Live(m)) \in Nat
           /\ Cap \in Nat /\ Cap >= 1
<1>1. Live(m) \subseteq Hash
  BY DEF Live
<1>2. IsFiniteSet(Live(m))
  BY <1>1, HashAssumption, FS_Subset
<1>3. Cardinality(Live(m)) \in Nat
  BY <1>2, FS_CardinalityType
<1> QED
  BY <1>2, <1>3, CapAssumption

\* With too many tombstones, the loop stops at the first matching entry.
LEMMA EvictFinds ==
    ASSUME NEW m, NEW f, NEW n, FifoSound(m, f, n), Cardinality(Live(m)) > Cap
    PROVE  \E i \in 1..Len(f) :
             /\ Matches(m, f[i]) /\ \A k \in 1..(i - 1) : ~Matches(m, f[k])
             /\ Evict(m, f) = [m |-> Cleared(m, f[i].hash), f |-> Behind(f, i)]
<1>1. Live(m) # {}
  BY Counts, FS_EmptySet
<1>2. PICK h \in Live(m) : TRUE
  BY <1>1
<1>3. f \in Seq(Refs(n)) /\ Len(f) \in Nat /\ Entered(m, f)
  BY DEF FifoSound
<1>4. PICK j \in 1..Len(f) : f[j] = [hash |-> h, seq |-> m[h].seq]
  BY <1>3 DEF Entered
<1> DEFINE hits == {i \in 1..Len(f) : Matches(m, f[i])}
           i == CHOOSE j1 \in hits : \A k \in hits : j1 <= k
<1>5. j \in hits /\ f # <<>>
  BY <1>3, <1>4 DEF Matches
<1>6. hits \in SUBSET Nat
  OBVIOUS
<1>7. i \in hits /\ \A k \in hits : i <= k
  <2> HIDE DEF hits
  <2>1. \E x \in hits : \A y \in hits : x <= y
    BY <1>5, <1>6, LeastExists
  <2> QED
    BY <2>1
<1>8. Evict(m, f) = [m |-> [m EXCEPT ![f[i].hash] = None], f |-> SubSeq(f, i + 1, Len(f))]
  <2>1. ~(Cardinality(Live(m)) <= Cap)
    BY Counts
  <2>2. hits # {}
    BY <1>5
  <2> QED
    BY <1>5, <2>1, <2>2 DEF Evict
<1> HIDE DEF i
<1>9. i \in 1..Len(f) /\ Matches(m, f[i])
  BY <1>7
<1>10. ASSUME NEW k \in 1..(i - 1) PROVE ~Matches(m, f[k])
  <2>1. k \in 1..Len(f) /\ ~(i <= k)
    BY <1>3, <1>9
  <2> QED
    BY <1>7, <2>1
<1>11. Evict(m, f) = [m |-> Cleared(m, f[i].hash), f |-> Behind(f, i)]
  BY <1>8 DEF Cleared, Behind
<1> QED
  BY <1>9, <1>10, <1>11

\* Compaction drops stale entries only.
LEMMA CompactSound ==
    ASSUME NEW m, NEW f, NEW n, FifoSound(m, f, n)
    PROVE  /\ FifoSound(m, Compact(m, f), n)
           /\ Fresh(m, Compact(m, f)) = Fresh(m, f)
           /\ IF Len(f) > 2 * Cap THEN Len(Compact(m, f)) = Cardinality(Live(m))
              ELSE Compact(m, f) = f
<1>1. CASE ~(Len(f) > 2 * Cap)
  BY <1>1 DEF Compact
<1>2. CASE Len(f) > 2 * Cap
  <2> DEFINE L == Fresh(m, f)
             K == {ref \in ToSet(f) : Matches(m, ref)}
             K1 == {ref \in ToSet(L) : Matches(m, ref)}
  <2>1. Compact(m, f) = L
    BY <1>2 DEF Compact
  <2>2. /\ L \in Seq(Refs(n)) /\ Ordered(L) /\ Entered(m, L) /\ ToSet(L) = K
        /\ Len(L) = Cardinality(Live(m))
    BY FreshFacts
  <2>3. FifoSound(m, L, n)
    BY <2>2 DEF FifoSound
  <2>4. L = Only(f, K) /\ Fresh(m, L) = Only(L, K1)
    BY DEF Fresh
  <2>5. K1 = K
    BY <2>2
  <2>6. f \in Seq(Refs(n))
    BY DEF FifoSound
  <2> HIDE DEF L, K, K1
  <2>7. Only(Only(f, K), K) = Only(f, K \cap K)
    BY <2>6, OnlyTwice
  <2>8. K \cap K = K
    OBVIOUS
  <2>9. Fresh(m, L) = L
    BY <2>4, <2>5, <2>7, <2>8
  <2> QED
    BY <1>2, <2>1, <2>2, <2>3, <2>9 DEF L
<1> QED
  BY <1>1, <1>2

\* The queue of the endings with h buried last.
Requeued(h) == Append(Only(LiveRefs, Others(h, seq)), [hash |-> h, seq |-> seq + 1])
Reset(h, typ) == Set(tombstones, h, typ, seq + 1)

\* A burial keeps the invariant; it evicts nothing, or the first of the queue.
LEMMA BuryStep ==
    ASSUME MemoryInv, NEW h \in Hash, NEW typ \in Terminal, bury(h, typ)
    PROVE  /\ MemoryInv' /\ seq' = seq + 1
           /\ Live(Reset(h, typ)) = Live(tombstones) \cup {h}
           /\ Len(Requeued(h)) = Cardinality(Live(Reset(h, typ)))
           /\ Requeued(h) \in Seq(Refs(seq + 1))
           /\ \/ /\ Cardinality(Live(Reset(h, typ))) <= Cap
                 /\ tombstones' = Reset(h, typ) /\ LiveRefs' = Requeued(h)
              \/ /\ Cardinality(Live(Reset(h, typ))) = Cap + 1
                 /\ LiveRefs' = Tail(Requeued(h)) /\ Requeued(h) # <<>>
                 /\ \E g \in Live(Reset(h, typ)) \ {h} :
                      tombstones' = Cleared(Reset(h, typ), g)
<1> DEFINE m1 == Reset(h, typ)
           x == [hash |-> h, seq |-> seq + 1]
           f1 == Append(fifo, x)
           r == Evict(m1, f1)
<1>1. /\ FifoSound(tombstones, fifo, seq) /\ Cardinality(Live(tombstones)) <= Cap
      /\ Len(fifo) <= 2 * Cap /\ seq \in Nat /\ fifo \in Seq(Refs(seq))
  BY DEF MemoryInv, FifoSound
<1>2. seq' = seq + 1 /\ tombstones' = r.m /\ fifo' = Compact(r.m, r.f)
  BY DEF bury, Reset, Set
<1>3. m1 = Set(tombstones, h, typ, seq + 1) /\ x = [hash |-> h, seq |-> seq + 1]
  BY DEF Reset
<1> HIDE DEF m1, x
<1>4. /\ FifoSound(m1, f1, seq + 1) /\ Live(m1) = Live(tombstones) \cup {h}
      /\ Fresh(m1, f1) = Append(Only(Fresh(tombstones, fifo), Others(h, seq)), x)
  BY <1>1, <1>3, BurySound
<1>5. Fresh(m1, f1) = Requeued(h)
  BY <1>3, <1>4 DEF Requeued, LiveRefs
<1>6. Len(f1) = Len(fifo) + 1 /\ Len(fifo) \in Nat
  BY <1>1
<1>7. /\ Len(Requeued(h)) = Cardinality(Live(m1)) /\ Requeued(h) \in Seq(Refs(seq + 1))
  <2> HIDE DEF f1
  <2>1. FifoSound(m1, f1, seq + 1)
    BY <1>4
  <2>2. Fresh(m1, f1) \in Seq(Refs(seq + 1)) /\ Len(Fresh(m1, f1)) = Cardinality(Live(m1))
    BY <2>1, FreshFacts
  <2> QED
    BY <1>5, <2>2
<1>8. /\ Cardinality(Live(m1)) \in Nat /\ Cardinality(Live(m1)) <= Cap + 1
      /\ Cap \in Nat /\ Cap >= 1
  <2>1. h \in Hash /\ Live(tombstones) \in SUBSET Hash
    BY DEF Live
  <2>2. Cardinality(Live(tombstones) \cup {h}) <= Cardinality(Live(tombstones)) + 1
    BY <2>1, HashAssumption, OneMore
  <2>3. Cardinality(Live(tombstones)) \in Nat /\ Cap \in Nat /\ Cap >= 1
    BY Counts
  <2>4. Cardinality(Live(m1)) \in Nat
    BY Counts
  <2> QED
    BY <1>1, <1>4, <2>2, <2>3, <2>4
<1>9. LiveRefs' = Fresh(tombstones', fifo')
  BY DEF LiveRefs, Fresh, Matches
<1> HIDE DEF f1
<1>10. CASE Cardinality(Live(m1)) <= Cap
  <2>1. r = [m |-> m1, f |-> f1]
    BY <1>10 DEF Evict
  <2>2. tombstones' = m1 /\ fifo' = Compact(m1, f1)
    BY <1>2, <2>1
  <2>3. /\ FifoSound(m1, Compact(m1, f1), seq + 1) /\ Fresh(m1, Compact(m1, f1)) = Fresh(m1, f1)
        /\ IF Len(f1) > 2 * Cap THEN Len(Compact(m1, f1)) = Cardinality(Live(m1))
           ELSE Compact(m1, f1) = f1
    BY <1>4, CompactSound
  <2>4. Len(fifo') <= 2 * Cap
    BY <1>6, <1>8, <1>10, <2>2, <2>3
  <2>5. LiveRefs' = Requeued(h)
    BY <1>5, <1>9, <2>2, <2>3
  <2>6. MemoryInv'
    BY <1>2, <1>10, <2>2, <2>3, <2>4 DEF MemoryInv
  <2> QED
    BY <1>2, <1>4, <1>7, <1>10, <2>2, <2>5, <2>6 DEF m1
<1>11. CASE ~(Cardinality(Live(m1)) <= Cap)
  <2>0. Cardinality(Live(m1)) > Cap /\ Cardinality(Live(m1)) = Cap + 1
    BY <1>8, <1>11
  <2>1. PICK i \in 1..Len(f1) :
          /\ Matches(m1, f1[i]) /\ \A k \in 1..(i - 1) : ~Matches(m1, f1[k])
          /\ r = [m |-> Cleared(m1, f1[i].hash), f |-> Behind(f1, i)]
    BY <1>4, <2>0, EvictFinds
  <2> DEFINE g == f1[i].hash
             m2 == Cleared(m1, g)
             z == Behind(f1, i)
  <2>2. tombstones' = m2 /\ fifo' = Compact(m2, z)
    BY <1>2, <2>1
  <2>3. /\ FifoSound(m2, z, seq + 1) /\ g \in Live(m1) /\ Live(m2) = Live(m1) \ {g}
        /\ Len(z) \in Nat /\ Len(z) < Len(f1)
        /\ Fresh(m1, f1) # <<>> /\ Fresh(m2, z) = Tail(Fresh(m1, f1))
    <3>1. FifoSound(m1, f1, seq + 1)
      BY <1>4
    <3>2. Matches(m1, f1[i]) /\ \A k \in 1..(i - 1) : ~Matches(m1, f1[k])
      BY <2>1
    <3>3. m2 = Cleared(m1, f1[i].hash) /\ z = Behind(f1, i)
      OBVIOUS
    <3> HIDE DEF m2, z
    <3> QED
      BY <3>1, <3>2, <3>3, EvictAt
  <2>4. ~(Len(z) > 2 * Cap)
    BY <1>1, <1>6, <1>8, <2>3
  <2>5. fifo' = z
    BY <2>2, <2>4 DEF Compact
  <2>6. Cardinality(Live(m2)) = Cap
    <3>1. IsFiniteSet(Live(m1))
      BY Counts
    <3>2. Cardinality(Live(m1) \ {g}) = Cardinality(Live(m1)) - 1
      BY <2>3, <3>1, FS_RemoveElement
    <3> QED
      BY <1>8, <2>0, <2>3, <3>2
  <2>7. g # h
    <3> SUFFICES ASSUME g = h PROVE FALSE
      OBVIOUS
    <3>1. PICK k \in Live(m2) : TRUE
      <4>1. Cardinality({}) = 0
        BY FS_EmptySet
      <4> DEFINE L == Live(m2)
      <4>2. Cardinality(L) # 0
        BY <1>8, <2>6
      <4> HIDE DEF L
      <4>3. L # {}
        BY <4>1, <4>2
      <4> QED
        BY <4>3 DEF L
    <3>2. PICK j \in 1..Len(z) : z[j] = [hash |-> k, seq |-> m2[k].seq]
      BY <2>3 DEF FifoSound, Entered
    <3>3. f1 \in Seq(Refs(seq + 1)) /\ Ordered(f1)
      BY <1>4 DEF FifoSound
    <3>4. Len(z) = Len(f1) - i /\ \A y \in 1..(Len(f1) - i) : z[y] = f1[i + y]
      BY <3>3, Parts
    <3>5. i + j \in DOMAIN f1 /\ i \in DOMAIN f1 /\ i < i + j
      BY <3>3, <3>4
    <3>6. f1[i].seq < f1[i + j].seq
      BY <3>3, <3>5 DEF Ordered
    <3>7. f1[i + j].seq \in 1..(seq + 1)
      <4>1. f1[i + j] \in Refs(seq + 1)
        BY <3>3, <3>5
      <4> QED
        BY <4>1 DEF Refs
    <3>8. f1[i].seq = seq + 1
      <4>1. m1[h].seq = seq + 1
        BY <1>1, <1>3 DEF FifoSound, Stones, Set
      <4> QED
        BY <2>1, <4>1 DEF Matches
    <3> QED
      BY <1>1, <3>6, <3>7, <3>8
  <2>8. MemoryInv'
    <3>1. FifoSound(tombstones', fifo', seq')
      BY <1>2, <2>2, <2>3, <2>5
    <3>2. Cardinality(Live(tombstones')) <= Cap
      BY <1>8, <2>2, <2>6
    <3>3. Len(fifo') <= 2 * Cap
      BY <1>8, <2>3, <2>4, <2>5
    <3> QED
      BY <3>1, <3>2, <3>3 DEF MemoryInv
  <2>9. LiveRefs' = Tail(Requeued(h)) /\ Requeued(h) # <<>>
    BY <1>5, <1>9, <2>2, <2>3, <2>5
  <2>10. g \in Live(m1) \ {h} /\ tombstones' = Cleared(m1, g)
    BY <2>2, <2>3, <2>7
  <2> QED
    BY <1>2, <1>4, <1>7, <2>0, <2>8, <2>9, <2>10 DEF m1
<1> QED
  BY <1>10, <1>11

\* A revocation keeps the invariant and takes the hash out of the queue.
LEMMA ClearStep ==
    ASSUME MemoryInv, NEW h \in Hash, clear(h)
    PROVE  /\ MemoryInv' /\ seq' = seq /\ tombstones' = Cleared(tombstones, h)
           /\ LiveRefs' = Only(LiveRefs, Others(h, seq))
<1>1. /\ FifoSound(tombstones, fifo, seq) /\ Cardinality(Live(tombstones)) <= Cap
      /\ Len(fifo) <= 2 * Cap
  BY DEF MemoryInv
<1>2. tombstones' = Cleared(tombstones, h) /\ fifo' = fifo /\ seq' = seq
  BY DEF clear, Cleared
<1> DEFINE m1 == tombstones'
<1>3. m1 = Cleared(tombstones, h)
  BY <1>2
<1> HIDE DEF m1
<1>4. /\ FifoSound(m1, fifo, seq) /\ Live(m1) = Live(tombstones) \ {h}
      /\ Fresh(m1, fifo) = Only(Fresh(tombstones, fifo), Others(h, seq))
  BY <1>1, <1>3, ClearSound
<1>5. Cardinality(Live(m1)) <= Cap
  <2>1. IsFiniteSet(Live(tombstones))
    BY Counts
  <2>2. Cardinality(Live(tombstones) \ {h}) <= Cardinality(Live(tombstones))
    BY <2>1, FS_Subset
  <2>3. /\ Cardinality(Live(m1)) \in Nat /\ Cardinality(Live(tombstones)) \in Nat
        /\ Cap \in Nat
    BY Counts
  <2> QED
    BY <1>1, <1>4, <2>2, <2>3
<1>6. FifoSound(tombstones', fifo', seq')
  BY <1>2, <1>4 DEF m1
<1>7. Cardinality(Live(tombstones')) <= Cap /\ Len(fifo') <= 2 * Cap
  BY <1>1, <1>2, <1>5 DEF m1
<1>8. MemoryInv'
  BY <1>6, <1>7 DEF MemoryInv
<1>9. LiveRefs' = Fresh(tombstones', fifo')
  BY DEF LiveRefs, Fresh, Matches
<1> QED
  BY <1>2, <1>4, <1>8, <1>9 DEF LiveRefs, m1

\* No tombstones: the invariant holds at the start.
LEMMA InitSound == MemoryInit => MemoryInv
<1> SUFFICES ASSUME MemoryInit PROVE MemoryInv
  OBVIOUS
<1> USE DEF MemoryInit
<1>1. Live(tombstones) = {}
  BY DEF Live
<1>2. Cardinality(Live(tombstones)) = 0 /\ Cap \in Nat /\ Cap >= 1
  BY <1>1, FS_EmptySet, CapAssumption
<1>3. Stones(tombstones, seq)
  BY DEF Stones, None
<1>4. Entered(tombstones, fifo)
  BY <1>1 DEF Entered
<1>5. fifo \in Seq(Refs(seq)) /\ Len(fifo) = 0 /\ Ordered(fifo)
  BY DEF Ordered
<1> QED
  BY <1>2, <1>3, <1>4, <1>5 DEF MemoryInv, FifoSound

\* What stays the same keeps it.
LEMMA StutterSound ==
    ASSUME MemoryInv, UNCHANGED memoryVars
    PROVE  MemoryInv'
<1>1. tombstones' = tombstones /\ fifo' = fifo /\ seq' = seq
  BY DEF memoryVars
<1>2. FifoSound(tombstones', fifo', seq')
  BY <1>1 DEF MemoryInv
<1>3. Cardinality(Live(tombstones')) <= Cap /\ Len(fifo') <= 2 * Cap
  BY <1>1 DEF MemoryInv
<1> QED
  BY <1>2, <1>3 DEF MemoryInv

\* The invariant is one of every state of the specification.
LEMMA MemoryInductive == MemorySpec => []MemoryInv
<1>1. ASSUME MemoryInv, [MemoryNext]_memoryVars PROVE MemoryInv'
  <2>1. CASE UNCHANGED memoryVars
    BY <1>1, <2>1, StutterSound
  <2>2. CASE MemoryNext
    <3>1. ASSUME NEW h \in Hash, clear(h) PROVE MemoryInv'
      BY <1>1, <3>1, ClearStep
    <3>2. ASSUME NEW h \in Hash, NEW typ \in Terminal, bury(h, typ) PROVE MemoryInv'
      BY <1>1, <3>2, BuryStep
    <3> QED
      BY <2>2, <3>1, <3>2 DEF MemoryNext
  <2> QED
    BY <1>1, <2>1, <2>2
<1> QED
  BY <1>1, InitSound, PTL DEF MemorySpec

(***************************************************************************)
(* The tombstone map and its FIFO (bury in tracker.go) stay within their   *)
(* bounds, and no tombstone is without the FIFO entry that will evict it.  *)
(***************************************************************************)
THEOREM MemoryBounded == MemorySpec => []FifoBounded
<1>1. MemoryInv => FifoBounded
  BY DEF MemoryInv, FifoSound, Entered, FifoBounded
<1> QED
  BY <1>1, MemoryInductive, PTL

\* The hashes with an ending are those with a tombstone.
LEMMA BuriedIsLive ==
    ASSUME NEW m, NEW n, Stones(m, n)
    PROVE  Buried(Ended(m)) = Live(m)
BY DEF Stones, Buried, Ended, Live, None, Terminal

(***************************************************************************)
(* Every burial of the map and its FIFO (bury, and OnMined's revocation,   *)
(* in tracker.go) is one that TerminalMemory allows, on which the models   *)
(* of the tracker rest.                                                    *)
(***************************************************************************)
THEOREM MemoryImplemented == MemorySpec => ImplementsMemory
<1> DEFINE Step ==
        IF seq' = seq
        THEN \E h \in Hash : Ended(tombstones)' = Exhume(Ended(tombstones), h)
        ELSE \E h \in Hash, typ \in Terminal :
               tombstones'[h].seq = seq' /\ \E E \in Evictions(Ended(tombstones), {h}) :
                 Ended(tombstones)' = Bury(Ended(tombstones), {h}, typ, E)
<1>1. ASSUME MemoryInv, NEW h \in Hash, clear(h) PROVE Step
  <2>1. seq' = seq /\ tombstones' = Cleared(tombstones, h)
    BY <1>1, ClearStep
  <2>2. tombstones \in [Hash -> [typ : Terminal \cup {"none"}, seq : 0..seq]]
    BY <1>1 DEF MemoryInv, FifoSound, Stones
  <2>3. Ended(tombstones') = Exhume(Ended(tombstones), h)
    BY <2>1, <2>2 DEF Ended, Exhume, Cleared, None
  <2>4. Ended(tombstones)' = Ended(tombstones')
    BY DEF Ended
  <2> QED
    BY <2>1, <2>3, <2>4
<1>2. ASSUME MemoryInv, NEW h \in Hash, NEW typ \in Terminal, bury(h, typ) PROVE Step
  <2> DEFINE m1 == Reset(h, typ)
             kept == Buried(Ended(tombstones)) \cup {h}
  <2>1. seq \in Nat /\ Stones(tombstones, seq)
    BY <1>2 DEF MemoryInv, FifoSound
  <2>2. /\ seq' = seq + 1 /\ Live(m1) = Live(tombstones) \cup {h}
        /\ \/ Cardinality(Live(m1)) <= Cap /\ tombstones' = m1
           \/ /\ Cardinality(Live(m1)) = Cap + 1
              /\ \E g \in Live(m1) \ {h} : tombstones' = Cleared(m1, g)
    BY <1>2, BuryStep
  <2>3. kept = Live(m1)
    BY <2>1, <2>2, BuriedIsLive
  <2>4. /\ DOMAIN m1 = Hash /\ m1[h] = [typ |-> typ, seq |-> seq + 1]
        /\ \A k \in Hash \ {h} : m1[k] = tombstones[k]
    BY <2>1 DEF Reset, Set, Stones
  <2>5. Ended(tombstones)' = Ended(tombstones')
    BY DEF Ended
  <2>6. seq' # seq
    BY <2>1, <2>2
  <2> HIDE DEF m1
  <2>7. SUFFICES /\ tombstones'[h].seq = seq'
                 /\ \E E \in Evictions(Ended(tombstones), {h}) :
                      Ended(tombstones') = Bury(Ended(tombstones), {h}, typ, E)
    BY <2>5, <2>6, <2>7
  <2>8. CASE Cardinality(Live(m1)) <= Cap /\ tombstones' = m1
    <3>1. Evictions(Ended(tombstones), {h}) = {{}}
      BY <2>3, <2>8 DEF Evictions
    <3>2. Ended(tombstones') = Bury(Ended(tombstones), {h}, typ, {})
      BY <2>4, <2>8 DEF Ended, Bury
    <3>3. tombstones'[h].seq = seq'
      BY <2>2, <2>4, <2>8
    <3>4. {} \in Evictions(Ended(tombstones), {h})
      BY <3>1
    <3> QED
      BY <3>2, <3>3, <3>4
  <2>9. ASSUME Cardinality(Live(m1)) = Cap + 1, NEW g \in Live(m1) \ {h},
               tombstones' = Cleared(m1, g)
        PROVE  /\ tombstones'[h].seq = seq'
               /\ \E E \in Evictions(Ended(tombstones), {h}) :
                    Ended(tombstones') = Bury(Ended(tombstones), {h}, typ, E)
    <3>1. Cap \in Nat /\ Cardinality({g}) = 1
      BY CapAssumption, FS_Singleton
    <3>2. g \in Hash /\ g # h /\ {g} \in SUBSET kept
      BY <2>3 DEF Live
    <3>3. ~(Cardinality(kept) <= Cap) /\ Cardinality(kept) - Cap = 1
      <4> HIDE DEF kept
      <4>1. Cardinality(kept) = Cap + 1
        BY <2>3, <2>9
      <4> QED
        BY <3>1, <4>1
    <3>4. {g} \cap {h} = {}
      BY <3>2
    <3>5. {g} \in Evictions(Ended(tombstones), {h})
      BY <3>1, <3>2, <3>3, <3>4 DEF Evictions
    <3>6. Ended(tombstones') = Bury(Ended(tombstones), {h}, typ, {g})
      BY <2>4, <2>9, <3>2 DEF Ended, Bury, Cleared, None
    <3>7. tombstones'[h].seq = seq'
      BY <2>2, <2>4, <2>9, <3>2 DEF Cleared
    <3> QED
      BY <3>5, <3>6, <3>7
  <2> QED
    BY <2>2, <2>8, <2>9
<1>3. MemoryInv /\ [MemoryNext]_memoryVars => [Step]_memoryVars
  BY <1>1, <1>2 DEF MemoryNext
<1> QED
  BY <1>3, MemoryInductive, PTL DEF MemorySpec, ImplementsMemory

-----------------------------------------------------------------------------
(* The queue that the map and its FIFO stand for *)

\* What an entry shows, and what a sequence of entries shows.
Tag(m, n) == [ref \in Refs(n) |-> <<ref.hash, m[ref.hash].typ>>]
Shown(m, L) == [i \in 1..Len(L) |-> <<L[i].hash, m[L[i].hash].typ>>]
Pairs == Hash \X (Terminal \cup {"none"})

\* An entry shows a hash and its ending.
LEMMA TagType ==
    ASSUME NEW m, NEW n, Stones(m, n)
    PROVE  /\ Tag(m, n) \in [Refs(n) -> Pairs]
           /\ \A ref \in Refs(n) : Tag(m, n)[ref] = <<ref.hash, m[ref.hash].typ>>
BY DEF Tag, Pairs, Stones, Refs

\* A sequence of entries shows what each of them shows.
LEMMA ShownIsMapped ==
    ASSUME NEW m, NEW n, NEW L \in Seq(Refs(n))
    PROVE  Shown(m, L) = Mapped(Tag(m, n), L)
<1>1. \A i \in 1..Len(L) : L[i] \in Refs(n)
  OBVIOUS
<1> QED
  BY <1>1 DEF Shown, Mapped, Tag

\* Taking a hash out of what is shown is taking its entries out.
LEMMA WithoutShown ==
    ASSUME NEW m, NEW n, Stones(m, n), NEW L \in Seq(Refs(n)), NEW h \in Hash
    PROVE  OF!Without(Mapped(Tag(m, n), L), h) = Mapped(Tag(m, n), Only(L, Others(h, n)))
<1> DEFINE g == Tag(m, n)
           q == Mapped(g, L)
           K == {r \in ToSet(q) : r[1] # h}
           J == {x \in Refs(n) : g[x] \in K}
<1>1. OF!Without(q, h) = Only(q, K)
  BY DEF OF!Without, OF!Only, OF!Kept, Only, Kept, OF!ToSet, ToSet
<1>2. g \in [Refs(n) -> Pairs] /\ \A ref \in Refs(n) : g[ref] = <<ref.hash, m[ref.hash].typ>>
  BY TagType
<1>3. ToSet(L) \cap J = ToSet(L) \cap Others(h, n)
  <2>1. ASSUME NEW x \in ToSet(L) PROVE x \in J <=> x \in Others(h, n)
    <3>1. PICK i \in 1..Len(L) : x = L[i]
      BY DEF ToSet
    <3>2. x \in Refs(n)
      BY <3>1
    <3>3. q[i] = g[x] /\ DOMAIN q = 1..Len(L)
      BY <3>1 DEF Mapped
    <3>4. g[x] \in ToSet(q)
      BY <3>3 DEF ToSet
    <3>5. g[x][1] = x.hash
      BY <1>2, <3>2
    <3> QED
      BY <3>2, <3>4, <3>5 DEF Others
  <2> QED
    BY <2>1
<1> HIDE DEF g, q, K
<1>4. Only(L, J) = Only(L, Others(h, n))
  <2> HIDE DEF J
  <2> QED
    BY <1>3, OnlySame
<1>5. Only(Mapped(g, L), K) = Mapped(g, Only(L, J))
  <2>1. Preimage(g, Refs(n), Pairs, J, K)
    BY <1>2 DEF Preimage
  <2> HIDE DEF J
  <2> QED
    BY <2>1, OnlyMapped
<1> QED
  BY <1>1, <1>4, <1>5 DEF q, g

\* The invariant's part about the queue, in one state and in the next.
LEMMA QueueFacts ==
    ASSUME NEW m, NEW f, NEW n, FifoSound(m, f, n)
    PROVE  /\ Fresh(m, f) \in Seq(Refs(n))
           /\ Shown(m, Fresh(m, f)) = Mapped(Tag(m, n), Fresh(m, f))
<1>1. Fresh(m, f) \in Seq(Refs(n))
  BY FreshFacts
<1> QED
  BY <1>1, ShownIsMapped

\* A hash buried: it goes to the end of the queue as it is shown.
LEMMA RequeuedShown ==
    ASSUME MemoryInv, NEW h \in Hash, NEW typ \in Terminal
    PROVE  /\ Stones(Reset(h, typ), seq + 1)
           /\ Mapped(Tag(Reset(h, typ), seq + 1), Requeued(h)) =
                Append(OF!Without(Shown(tombstones, LiveRefs), h), <<h, typ>>)
<1> DEFINE m1 == Reset(h, typ)
           x == [hash |-> h, seq |-> seq + 1]
           L == LiveRefs
           Q == Only(L, Others(h, seq))
           g == Tag(tombstones, seq)
           g1 == Tag(m1, seq + 1)
<1>1. seq \in Nat /\ Stones(tombstones, seq) /\ FifoSound(tombstones, fifo, seq)
  BY DEF MemoryInv, FifoSound
<1>2. /\ DOMAIN m1 = Hash /\ m1[h] = [typ |-> typ, seq |-> seq + 1]
      /\ \A k \in Hash \ {h} : m1[k] = tombstones[k]
  BY <1>1 DEF Reset, Set, Stones
<1>3. Stones(m1, seq + 1)
  BY <1>1 DEF Reset, Set, Stones
<1>4. L \in Seq(Refs(seq)) /\ Shown(tombstones, L) = Mapped(g, L)
  BY <1>1, QueueFacts DEF LiveRefs
<1>5. OF!Without(Mapped(g, L), h) = Mapped(g, Q)
  BY <1>1, <1>4, WithoutShown
<1>6. Q \in Seq(Refs(seq)) /\ ToSet(Q) = ToSet(L) \cap Others(h, seq)
  BY <1>4, OnlyHolds
<1>7. Requeued(h) = Append(Q, x)
  BY DEF Requeued
<1> HIDE DEF Q, L, m1
<1>8. Q \in Seq(Refs(seq + 1))
  BY <1>1, <1>6, MoreRefs
<1>9. x \in Refs(seq + 1)
  BY <1>1 DEF Refs
<1>10. g1 \in [Refs(seq + 1) -> Pairs]
  BY <1>3, TagType
<1>11. g1[x] = <<h, typ>>
  BY <1>2, <1>9 DEF Tag
<1>12. ASSUME NEW ref \in ToSet(Q) PROVE g1[ref] = g[ref]
  <2>1. ref \in Refs(seq) /\ ref.hash # h /\ ref.hash \in Hash
    BY <1>6 DEF Others, Refs
  <2>2. ref \in Refs(seq + 1)
    BY <1>1, <2>1 DEF Refs
  <2> QED
    BY <1>2, <2>1, <2>2 DEF Tag
<1> HIDE DEF g, g1, x
<1>13. Mapped(g1, Q) = Mapped(g, Q)
  BY <1>8, <1>12, MappedSame
<1>14. Mapped(g1, Append(Q, x)) = Append(Mapped(g1, Q), g1[x])
  BY <1>8, <1>9, <1>10, MappedAppend
<1> QED
  BY <1>3, <1>4, <1>5, <1>7, <1>11, <1>13, <1>14 DEF m1, g1, g, L

\* The queue as it is shown, in the next state.
LEMMA ShownNext ==
    ASSUME MemoryInv'
    PROVE  /\ LiveRefs' \in Seq(Refs(seq')) /\ Stones(tombstones', seq')
           /\ Shown(tombstones, LiveRefs)' = Mapped(Tag(tombstones', seq'), LiveRefs')
           /\ \A ref \in ToSet(LiveRefs') : ref.hash \in Live(tombstones')
<1>1. FifoSound(tombstones', fifo', seq')
  BY DEF MemoryInv
<1>2. LiveRefs' = Fresh(tombstones', fifo')
  BY DEF LiveRefs, Fresh, Matches
<1>3. Shown(tombstones, LiveRefs)' = Shown(tombstones', LiveRefs')
  BY DEF Shown
<1> DEFINE m == tombstones'
           f == fifo'
           n == seq'
<1>4. FifoSound(m, f, n)
  BY <1>1
<1> HIDE DEF m, f, n
<1>5. /\ Fresh(m, f) \in Seq(Refs(n)) /\ Shown(m, Fresh(m, f)) = Mapped(Tag(m, n), Fresh(m, f))
  BY <1>4, QueueFacts
<1>6. \A ref \in ToSet(Fresh(m, f)) : ref.hash \in Live(m)
  BY <1>4, FreshFacts
<1>7. Stones(m, n)
  BY <1>4 DEF FifoSound
<1> QED
  BY <1>2, <1>3, <1>5, <1>6, <1>7 DEF m, f, n

\* A burial is a burial of the queue.
LEMMA BuryShown ==
    ASSUME MemoryInv, NEW h \in Hash, NEW typ \in Terminal, bury(h, typ)
    PROVE  Shown(tombstones, LiveRefs)' =
             OF!Latest(Append(OF!Without(Shown(tombstones, LiveRefs), h), <<h, typ>>))
<1> DEFINE m1 == Reset(h, typ)
           q == Requeued(h)
           g1 == Tag(m1, seq + 1)
           A == Mapped(g1, q)
<1>1. A = Append(OF!Without(Shown(tombstones, LiveRefs), h), <<h, typ>>)
  BY RequeuedShown
<1>2. Stones(m1, seq + 1)
  BY RequeuedShown
<1>3. /\ MemoryInv' /\ seq' = seq + 1 /\ Len(q) = Cardinality(Live(m1)) /\ q \in Seq(Refs(seq + 1))
      /\ \/ Cardinality(Live(m1)) <= Cap /\ tombstones' = m1 /\ LiveRefs' = q
         \/ /\ Cardinality(Live(m1)) = Cap + 1 /\ LiveRefs' = Tail(q) /\ q # <<>>
            /\ \E g \in Live(m1) \ {h} : tombstones' = Cleared(m1, g)
  BY BuryStep
<1>4. /\ LiveRefs' \in Seq(Refs(seq + 1))
      /\ Shown(tombstones, LiveRefs)' = Mapped(Tag(tombstones', seq + 1), LiveRefs')
      /\ \A ref \in ToSet(LiveRefs') : ref.hash \in Live(tombstones')
  BY <1>3, ShownNext
<1>5. g1 \in [Refs(seq + 1) -> Pairs]
  BY <1>2, TagType
<1> HIDE DEF m1, q
<1>6. Len(A) = Len(q) /\ A \in Seq(Pairs)
  <2>1. q \in Seq(Refs(seq + 1))
    BY <1>3
  <2> HIDE DEF g1
  <2> QED
    BY <2>1, <1>5 DEF Mapped
<1>7. Cap \in Nat
  BY CapAssumption
<1>8. CASE Cardinality(Live(m1)) <= Cap /\ tombstones' = m1 /\ LiveRefs' = q
  <2>1. ~(Len(A) > Cap)
    BY <1>3, <1>6, <1>7, <1>8
  <2>2. OF!Latest(A) = A
    BY <2>1 DEF OF!Latest
  <2>3. Shown(tombstones, LiveRefs)' = A
    BY <1>4, <1>8
  <2> QED
    BY <1>1, <2>2, <2>3
<1>9. ASSUME Cardinality(Live(m1)) = Cap + 1, LiveRefs' = Tail(q), q # <<>>,
             NEW g \in Live(m1) \ {h}, tombstones' = Cleared(m1, g)
      PROVE  Shown(tombstones, LiveRefs)' = OF!Latest(A)
  <2> DEFINE rest == Tail(q)
             g2 == Tag(tombstones', seq + 1)
  <2>1. Len(A) > Cap
    BY <1>3, <1>6, <1>7, <1>9
  <2>2. OF!Latest(A) = Tail(A)
    BY <2>1 DEF OF!Latest
  <2>3. Tail(A) = Mapped(g1, rest)
    <3> HIDE DEF g1
    <3> QED
      BY ZenonT(40), <1>3, <1>5, <1>9, MappedTail
  <2>4. rest = LiveRefs' /\ rest \in Seq(Refs(seq + 1))
    BY <1>4, <1>9
  <2>5. ASSUME NEW ref \in ToSet(rest) PROVE g2[ref] = g1[ref]
    <3>1. ref \in Refs(seq + 1)
      BY <2>4 DEF ToSet
    <3>2. ref.hash \in Live(tombstones') /\ ref.hash \in Hash
      BY <1>4, <2>4, <2>5 DEF Live
    <3>3. tombstones' = [m1 EXCEPT ![g] = None] /\ DOMAIN m1 = Hash /\ g \in Hash
      BY <1>2, <1>9 DEF Cleared, Stones, Live
    <3>4. tombstones'[g] = None
      BY <3>3
    <3>5. ref.hash # g
      BY <3>2, <3>4 DEF Live
    <3>6. tombstones'[ref.hash] = m1[ref.hash]
      BY <3>2, <3>3, <3>5
    <3> QED
      BY <3>1, <3>6 DEF Tag
  <2> HIDE DEF rest, g1, g2
  <2>6. Mapped(g2, rest) = Mapped(g1, rest)
    BY <2>4, <2>5, MappedSame
  <2> QED
    BY <1>4, <2>2, <2>3, <2>4, <2>6 DEF g2
<1> QED
  BY <1>1, <1>3, <1>8, <1>9

\* A revocation is a revocation of the queue.
LEMMA ClearShown ==
    ASSUME MemoryInv, NEW h \in Hash, clear(h)
    PROVE  Shown(tombstones, LiveRefs)' = OF!Without(Shown(tombstones, LiveRefs), h)
<1> DEFINE Q == Only(LiveRefs, Others(h, seq))
           g == Tag(tombstones, seq)
           g1 == Tag(tombstones', seq)
<1>1. MemoryInv' /\ seq' = seq /\ tombstones' = Cleared(tombstones, h) /\ LiveRefs' = Q
  BY ClearStep
<1>2. /\ Q \in Seq(Refs(seq)) /\ Shown(tombstones, LiveRefs)' = Mapped(g1, Q)
      /\ \A ref \in ToSet(Q) : ref.hash \in Live(tombstones')
  BY <1>1, ShownNext
<1>3. Stones(tombstones, seq) /\ FifoSound(tombstones, fifo, seq)
  BY DEF MemoryInv, FifoSound
<1>4. /\ LiveRefs \in Seq(Refs(seq)) /\ Shown(tombstones, LiveRefs) = Mapped(g, LiveRefs)
  BY <1>3, QueueFacts DEF LiveRefs
<1>5. OF!Without(Mapped(g, LiveRefs), h) = Mapped(g, Q)
  BY <1>3, <1>4, WithoutShown
<1> HIDE DEF Q
<1>6. ASSUME NEW ref \in ToSet(Q) PROVE g1[ref] = g[ref]
  <2>1. ref \in Refs(seq)
    BY <1>2 DEF ToSet
  <2>2. ref.hash \in Live(tombstones') /\ ref.hash \in Hash
    BY <1>2, <1>6 DEF Live
  <2>3. tombstones' = [tombstones EXCEPT ![h] = None] /\ DOMAIN tombstones = Hash
    BY <1>1, <1>3 DEF Cleared, Stones
  <2>4. tombstones'[h] = None
    BY <2>3
  <2>5. ref.hash # h
    BY <2>2, <2>4 DEF Live
  <2>6. tombstones'[ref.hash] = tombstones[ref.hash]
    BY <2>2, <2>3, <2>5
  <2> QED
    BY <2>1, <2>6 DEF Tag
<1> HIDE DEF g, g1
<1>7. Mapped(g1, Q) = Mapped(g, Q)
  BY <1>2, <1>6, MappedSame
<1> QED
  BY <1>2, <1>4, <1>5, <1>7

(***************************************************************************)
(* The map and its FIFO (bury in tracker.go) are a queue of the last Cap   *)
(* distinct hashes buried: stale entries evict nothing, a hash buried      *)
(* again moves to the end, and a burial too many forgets the earliest.     *)
(***************************************************************************)
THEOREM QueueImplemented == MemorySpec => ForgetsOldest
<1> DEFINE ended == Shown(tombstones, LiveRefs)
<1>1. MemoryInit => OF!Init
  <2> SUFFICES ASSUME MemoryInit PROVE OF!Init
    OBVIOUS
  <2>1. LiveRefs = <<>>
    BY OnlyEmpty DEF LiveRefs, Fresh, MemoryInit
  <2> QED
    BY <2>1 DEF OF!Init
<1>2. ASSUME MemoryInv, [MemoryNext]_memoryVars PROVE ended' = ended \/ OF!Next
  <2>1. CASE UNCHANGED memoryVars
    BY <2>1 DEF memoryVars, Shown, LiveRefs, Fresh, Matches
  <2>2. ASSUME NEW h \in Hash, clear(h) PROVE OF!Next
    <3>1. ended' = OF!Without(ended, h)
      BY <1>2, <2>2, ClearShown
    <3>2. OF!Revoke(h)
      BY <3>1 DEF OF!Revoke, Shown
    <3> QED
      BY <3>2 DEF OF!Next
  <2>3. ASSUME NEW h \in Hash, NEW typ \in Terminal, bury(h, typ) PROVE OF!Next
    <3>1. ended' = OF!Latest(Append(OF!Without(ended, h), <<h, typ>>))
      BY <1>2, <2>3, BuryShown
    <3>2. OF!Bury(h, typ)
      BY <3>1 DEF OF!Bury, Shown
    <3> QED
      BY <3>2 DEF OF!Next
  <2> QED
    BY <1>2, <2>1, <2>2, <2>3 DEF MemoryNext
<1>3. MemoryInv /\ [MemoryNext]_memoryVars => [OF!Next]_ended
  BY <1>2
<1> QED
  BY <1>1, <1>3, MemoryInductive, PTL DEF MemorySpec, ForgetsOldest, OF!Spec, Shown

=============================================================================
