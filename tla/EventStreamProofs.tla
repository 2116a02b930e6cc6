-------------------------- MODULE EventStreamProofs --------------------------
(***************************************************************************)
(* Proofs about EventStream: its types, and that delivery is at least once *)
(* when the three windows of the code (Overlap, Cut, Lag) stay shut.       *)
(*                                                                         *)
(* NeverDropped speaks of a client that has caught up; it is kept because  *)
(* of what the producers, the channel and the client each hold on the way: *)
(*  - Past(Horizon), Batches, Stored: nothing but a waiting stamp carries  *)
(*    the latest time, and a leg's row is younger than its last event      *)
(*    unless it is still to be written;                                    *)
(*  - Buffered, Paged, Phases: the channel is in the order of the events,  *)
(*    a page holds rows of the database or ones since superseded;          *)
(*  - Covered: while a client streams, each leg's last event is queued,    *)
(*    was lost with a closed channel, or is known or ahead in the catch-up;*)
(*  - Reachable: whatever a client with a cursor does not know lies beyond *)
(*    that cursor, so that a reconnect finds it.                           *)
(***************************************************************************)
EXTENDS EventStream, QueueLemmas

-----------------------------------------------------------------------------
(* The inductive invariant *)

Event == [leg : Leg, status : Nat, id : Nat]
Row == [leg : Leg, status : Nat, at : Nat]
Batch == [emit : SUBSET Leg, save : SUBSET Leg, at : Nat]

Types ==
    /\ clock \in Nat
    /\ status \in [Leg -> Nat] /\ sent \in [Leg -> Nat]
    /\ batch \in [Ix -> Batch]
    /\ rows \in [Leg -> [status : Nat, at : Nat]]
    /\ chan \in [open : BOOLEAN, buf : Seq(Event)]
    /\ stream \in {"off", "backfill", "live"}
    /\ page \in SUBSET Row
    /\ pos \in [at : Nat, leg : Nat, more : BOOLEAN]
    /\ cursor \in Nat \cup {NoCursor}
    /\ known \in [Leg -> Nat] /\ since \in Nat

\* All times are past ones.
Past(h) ==
    /\ \A l \in Leg : rows[l].at <= h /\ sent[l] <= h
    /\ \A k \in 1..Len(chan.buf) : chan.buf[k].id <= h
    /\ \A r \in page : r.at <= h
    /\ pos.at <= h /\ (cursor # NoCursor => cursor <= h)

\* Types, times and limits.
TInv ==
    /\ Types /\ Past(clock)
    /\ \A i \in Ix : batch[i].emit \subseteq batch[i].save /\ batch[i].at <= clock
    /\ \A l \in Leg : rows[l].status <= status[l]
    /\ Len(chan.buf) <= Buffer
    /\ IsFiniteSet(page) /\ Cardinality(page) <= Page

\* The latest time that anything but a waiting stamp carries.
Horizon == IF \E i \in Ix : batch[i].at > 0 THEN clock - 1 ELSE clock

\* What emitAll owes: events are stored once all are out.
Batches ==
    /\ \A i \in Ix : /\ batch[i].at > 0 => batch[i].emit = {} /\ batch[i].at = clock
                     /\ \A l \in batch[i].save : IxOf[l] = i
    /\ \A i, j \in Ix : batch[i].at > 0 /\ batch[j].at > 0 => i = j

Saved(l) == rows[l].status = status[l]

Stored ==
    \A l \in Leg :
        /\ Saved(l) <=> l \notin batch[IxOf[l]].save \/ l \in batch[IxOf[l]].emit
        /\ Saved(l) /\ sent[l] > 0 => rows[l].at > sent[l]

\* Queued events are in the order of their ids; a leg's last one is current.
Buffered ==
    /\ \A j, k \in 1..Len(chan.buf) : j < k => chan.buf[j].id < chan.buf[k].id
    /\ \A k \in 1..Len(chan.buf) :
        LET e == chan.buf[k] IN
        /\ e.id <= sent[e.leg]
        /\ e.id = sent[e.leg] => e.status = status[e.leg]

\* A row of the page is the database's, or one written since supersedes it.
Paged ==
    \A r \in page :
        /\ IxOf[r.leg] \in only
        /\ r.at <= rows[r.leg].at
        /\ r.at = rows[r.leg].at => r.status = rows[r.leg].status
        /\ r.at < rows[r.leg].at => /\ pos.at < rows[r.leg].at
                                    /\ \A s \in page : s.at < rows[r.leg].at
        /\ cursor <= r.at
        /\ pos.more => \/ r.at < pos.at
                       \/ r.at = pos.at /\ r.leg <= pos.leg /\ pos.leg > 0

Phases ==
    /\ stream = "off" => chan = Closed
    /\ stream # "backfill" => page = {}
    /\ stream = "backfill" => cursor # NoCursor /\ (pos.more => cursor <= pos.at)

Eligible(l) == IxOf[l] \in only /\ sent[l] > since

\* A leg's current event is queued, was lost to the channel's closing, or is
\* older than the subscription.
Queued(l) == \E k \in 1..Len(chan.buf) : chan.buf[k].leg = l /\ chan.buf[k].id = sent[l]
Missed(l) == ~chan.open /\ \A k \in 1..Len(chan.buf) : chan.buf[k].id < sent[l]
Absent(l) == \A k \in 1..Len(chan.buf) : chan.buf[k].leg # l

InPage(l) == \E r \in page : r.leg = l /\ r.at = rows[l].at

Settled(l) ==
    /\ Absent(l)
    /\ stream = "live" => known[l] = status[l]
    /\ stream = "backfill" =>
        /\ Saved(l)
        /\ \A r \in page : r.leg = l => r.at = rows[l].at
        /\ known[l] = status[l] \/ InPage(l) \/ (pos.more /\ After(l))

Covered == stream # "off" => \A l \in Leg : Eligible(l) => Queued(l) \/ Missed(l) \/ Settled(l)

\* A catch-up from the client's cursor, or the one under way, finds what the
\* client does not know.
Beyond(l) == IF pos.more THEN After(l)
             ELSE rows[l].at > cursor /\ \A r \in page : r.at < rows[l].at

Reachable ==
    cursor # NoCursor =>
        \A l \in Leg : Eligible(l) /\ known[l] # status[l] /\ Saved(l) =>
            IF stream = "backfill" THEN InPage(l) \/ Beyond(l) ELSE rows[l].at > cursor

IInv == /\ TInv /\ Past(Horizon) /\ Batches /\ Stored /\ Buffered /\ Paged /\ Phases
        /\ Covered /\ Reachable

-----------------------------------------------------------------------------
(* Types, times and limits *)

\* Nothing is emitted, stored or streamed at the start.
LEMMA InitTypes == Init => TInv
<1> SUFFICES ASSUME Init PROVE TInv
  OBVIOUS
<1>1. Types
  BY LegAssumption DEF Init, Types, Closed, Start, NoBatch, Batch
<1>2. Past(clock)
  BY LegAssumption DEF Init, Past, Closed, Start
<1>3. IsFiniteSet(page) /\ Cardinality(page) = 0
  BY FS_EmptySet DEF Init
<1>4. Len(chan.buf) = 0
  BY DEF Init, Closed
<1> QED
  BY <1>1, <1>2, <1>3, <1>4, LegAssumption DEF Init, TInv, NoBatch

\* An event at the end of the queue, or none.
LEMMA Broadcasts ==
    ASSUME chan \in [open : BOOLEAN, buf : Seq(Event)], NEW e \in Event
    PROVE  /\ Broadcast(e) \in [open : BOOLEAN, buf : Seq(Event)]
           /\ \/ /\ chan.open /\ Len(chan.buf) < Buffer
                 /\ Broadcast(e).open /\ Broadcast(e).buf = Append(chan.buf, e)
              \/ ~Broadcast(e).open /\ Broadcast(e).buf = chan.buf
<1>1. chan.open \in BOOLEAN /\ chan.buf \in Seq(Event)
  OBVIOUS
<1>2. Append(chan.buf, e) \in Seq(Event)
  BY <1>1
<1>3. CASE ~chan.open
  BY <1>1, <1>3 DEF Broadcast
<1>4. CASE chan.open /\ Len(chan.buf) < Buffer
  <2>1. Broadcast(e) = [chan EXCEPT !.buf = Append(@, e)]
    BY <1>4 DEF Broadcast
  <2>2. Broadcast(e) = [open |-> chan.open, buf |-> Append(chan.buf, e)]
    BY <2>1
  <2> QED
    BY <1>1, <1>2, <1>4, <2>2
<1>5. CASE chan.open /\ ~(Len(chan.buf) < Buffer)
  <2>1. Broadcast(e) = [chan EXCEPT !.open = FALSE]
    BY <1>5 DEF Broadcast
  <2>2. Broadcast(e) = [open |-> FALSE, buf |-> chan.buf]
    BY <2>1
  <2> QED
    BY <1>1, <2>2
<1> QED
  BY <1>1, <1>3, <1>4, <1>5

\* Every action of an indexer keeps types, times and limits.
\* What is past stays so.
LEMMA PastLater ==
    ASSUME Types, NEW g \in Nat, NEW h \in Nat, g <= h, Past(g)
    PROVE  Past(h)
<1>1. \A l \in Leg : rows[l].at \in Nat /\ sent[l] \in Nat
  BY DEF Types
<1>2. \A k \in 1..Len(chan.buf) : chan.buf[k].id \in Nat
  <2>1. chan.buf \in Seq(Event)
    BY DEF Types
  <2>2. \A k \in 1..Len(chan.buf) : chan.buf[k] \in Event
    BY <2>1
  <2> QED
    BY <2>2 DEF Event
<1>3. \A r \in page : r.at \in Nat
  BY DEF Types, Row
<1>4. pos.at \in Nat /\ (cursor # NoCursor => cursor \in Nat)
  BY DEF Types
<1> QED
  BY <1>1, <1>2, <1>3, <1>4 DEF Past

\* A new batch (the tracker's events) keeps types, times and limits.
LEMMA TransitionTypes ==
    ASSUME TInv, NEW i \in Ix, Transition(i)
    PROVE  TInv'
<1> USE DEF Transition, server, client
<1>1. batch' \in [Ix -> Batch]
  BY DEF TInv, Types, Batch
<1>2. \A j \in Ix : batch'[j].emit \subseteq batch'[j].save /\ batch'[j].at <= clock
  BY DEF TInv, Types
<1>3. Types'
  BY <1>1 DEF TInv, Types
<1>4. Past(clock)'
  BY DEF TInv, Past
<1> QED
  BY <1>2, <1>3, <1>4 DEF TInv

\* So does an event that the hub broadcasts: its id is the new latest time.
LEMMA EmitTypes ==
    ASSUME TInv, NEW i \in Ix, Emit(i)
    PROVE  TInv'
<1>0. Types /\ Past(clock) /\ Len(chan.buf) <= Buffer /\ Buffer \in Nat
  BY LegAssumption DEF TInv
<1> USE DEF Tick, client
<1>1. PICK l \in batch[i].emit :
        /\ status' = [status EXCEPT ![l] = @ + 1]
        /\ sent' = [sent EXCEPT ![l] = clock + 1]
        /\ batch' = [batch EXCEPT ![i].emit = @ \ {l}]
        /\ chan' = Broadcast([leg |-> l, status |-> status[l] + 1, id |-> clock + 1])
  BY DEF Emit
<1>2. /\ clock' = clock + 1 /\ clock \in Nat /\ l \in Leg
      /\ UNCHANGED <<rows, stream, page, pos, only, cursor, known, since, drops>>
  BY <1>0 DEF Emit, Types, Batch
<1> DEFINE e == [leg |-> l, status |-> status[l] + 1, id |-> clock + 1]
<1>3. e \in Event
  BY <1>0, <1>2 DEF Types, Event
<1>4. chan \in [open : BOOLEAN, buf : Seq(Event)] /\ chan' = Broadcast(e)
  BY <1>0, <1>1 DEF Types
<1>5. e.id = clock + 1
  OBVIOUS
<1> HIDE DEF e
<1>6. /\ chan' \in [open : BOOLEAN, buf : Seq(Event)]
      /\ \/ Len(chan.buf) < Buffer /\ chan'.buf = Append(chan.buf, e)
         \/ chan'.buf = chan.buf
  BY <1>3, <1>4, Broadcasts
<1>7. Len(chan'.buf) <= Buffer
  BY <1>0, <1>3, <1>4, <1>6
<1>8. Past(clock + 1)
  BY <1>0, <1>2, PastLater
<1>9. \A k \in 1..Len(chan'.buf) : chan'.buf[k].id <= clock + 1
  <2>1. CASE chan'.buf = chan.buf
    BY <1>8, <2>1 DEF Past
  <2>2. CASE chan'.buf = Append(chan.buf, e)
    <3> DEFINE b == chan.buf
               c == chan'.buf
    <3>1. b \in Seq(Event) /\ c = Append(b, e) /\ \A k \in 1..Len(b) : b[k].id <= clock + 1
      BY <1>4, <1>8, <2>2 DEF Past
    <3> HIDE DEF b, c
    <3>2. /\ Len(c) = Len(b) + 1 /\ c[Len(b) + 1] = e /\ Len(b) \in Nat
          /\ \A k \in 1..Len(b) : c[k] = b[k]
      BY <1>3, <3>1
    <3>3. \A k \in 1..Len(c) : k \in 1..Len(b) \/ k = Len(b) + 1
      BY <3>2
    <3>4. \A k \in 1..Len(c) : c[k].id <= clock + 1
      BY <1>2, <1>5, <3>1, <3>2, <3>3
    <3> QED
      BY <3>4 DEF c
  <2> QED
    BY <1>6, <2>1, <2>2
<1>10. /\ clock' \in Nat /\ sent' \in [Leg -> Nat] /\ status' \in [Leg -> Nat]
  BY SMTT(40), <1>0, <1>1, <1>2 DEF Types
<1>11. batch' \in [Ix -> Batch]
  <2>1. batch \in [Ix -> Batch] /\ batch[i] \in Batch
    BY <1>0 DEF Types
  <2>2. [batch[i] EXCEPT !.emit = @ \ {l}] \in Batch
    BY <2>1 DEF Batch
  <2>3. batch' = [batch EXCEPT ![i] = [batch[i] EXCEPT !.emit = @ \ {l}]]
    BY <1>1
  <2> QED
    BY <2>1, <2>2, <2>3
<1>12. Types'
  BY <1>0, <1>2, <1>6, <1>10, <1>11 DEF Types
<1>13. \A m \in Leg : sent'[m] <= clock + 1
  <2>1. \A m \in Leg : sent'[m] = IF m = l THEN clock + 1 ELSE sent[m]
    BY <1>0, <1>1 DEF Types
  <2> QED
    BY <1>2, <1>8, <2>1 DEF Past
<1>14. Past(clock)'
  BY <1>2, <1>8, <1>9, <1>13 DEF Past
<1>15. \A j \in Ix : batch'[j].emit \subseteq batch'[j].save /\ batch'[j].at <= clock'
  BY <1>0, <1>1, <1>2 DEF TInv, Types, Batch
<1>16. \A m \in Leg : rows'[m].status <= status'[m]
  <2>1. \A m \in Leg : rows[m].status <= status[m] /\ rows[m].status \in Nat /\ status[m] \in Nat
    BY DEF TInv, Types
  <2>2. \A m \in Leg : status'[m] = IF m = l THEN status[m] + 1 ELSE status[m]
    BY <1>0, <1>1 DEF Types
  <2> QED
    BY <1>2, <2>1, <2>2
<1> QED
  BY <1>2, <1>7, <1>12, <1>14, <1>15, <1>16 DEF TInv

\* Rows written with the current status, at a time that has come.
LEMMA WriteTypes ==
    ASSUME TInv, NEW L \in SUBSET Leg, NEW at \in Nat, Write(L, at),
           at <= clock', clock' \in Nat, clock <= clock', status' = status
    PROVE  /\ rows' \in [Leg -> [status : Nat, at : Nat]]
           /\ \A l \in Leg : rows'[l].status <= status'[l] /\ rows'[l].at <= clock'
BY DEF TInv, Types, Past, Write

\* So do a write's stamp and its commit.
LEMMA SaveTypes ==
    ASSUME TInv, NEW i \in Ix, Stamp(i) \/ Commit(i)
    PROVE  TInv'
<1>0. Types /\ Past(clock) /\ clock \in Nat
  BY DEF TInv, Types
<1> USE DEF Tick, client, server
<1>1. CASE Stamp(i)
  <2>1. /\ batch' = [batch EXCEPT ![i].at = clock + 1] /\ clock' = clock + 1
        /\ UNCHANGED <<status, sent, rows, chan, stream, page, pos, only, cursor, known,
                       since, drops>>
    BY <1>1 DEF Stamp
  <2>2. batch' \in [Ix -> Batch]
    <3>1. batch \in [Ix -> Batch] /\ batch[i] \in Batch /\ clock + 1 \in Nat
      BY <1>0 DEF Types
    <3>2. [batch[i] EXCEPT !.at = clock + 1] \in Batch
      BY <3>1 DEF Batch
    <3>3. batch' = [batch EXCEPT ![i] = [batch[i] EXCEPT !.at = clock + 1]]
      BY <2>1
    <3> QED
      BY <3>1, <3>2, <3>3
  <2>3. \A j \in Ix : batch'[j].emit \subseteq batch'[j].save /\ batch'[j].at <= clock'
    BY <1>0, <2>1 DEF TInv, Types, Batch
  <2>4. Types'
    <3>1. clock' \in Nat
      BY <1>0, <2>1
    <3> QED
      BY <1>0, <2>1, <2>2, <3>1 DEF Types
  <2>5. Past(clock)'
    <3>1. Past(clock + 1)
      BY <1>0, PastLater
    <3> QED
      BY <2>1, <3>1 DEF Past
  <2> QED
    BY <2>1, <2>3, <2>4, <2>5 DEF TInv
<1>2. CASE Commit(i)
  <2> DEFINE L(l) == Legs(batch[i].save, TxOf[l])
  <2>1. PICK l \in batch[i].save :
          /\ Write(L(l), batch[i].at)
          /\ batch' = [batch EXCEPT ![i] = [NoBatch EXCEPT !.save = batch[i].save \ L(l)]]
          /\ UNCHANGED <<clock, status, sent, chan, stream, page, pos, only, cursor, known,
                         since, drops>>
    BY <1>2 DEF Commit
  <2>2. L(l) \in SUBSET Leg /\ batch[i].at \in Nat /\ batch[i].at <= clock
    BY <1>0 DEF TInv, Types, Batch, Legs
  <2> HIDE DEF L
  <2>3. /\ rows' \in [Leg -> [status : Nat, at : Nat]]
        /\ \A m \in Leg : rows'[m].status <= status'[m] /\ rows'[m].at <= clock'
    BY <1>0, <2>1, <2>2, WriteTypes
  <2>4. batch' \in [Ix -> Batch]
    BY <1>0, <2>1 DEF Types, NoBatch, Batch
  <2>5. \A j \in Ix : batch'[j].emit \subseteq batch'[j].save /\ batch'[j].at <= clock'
    BY <1>0, <2>1 DEF TInv, Types, NoBatch, Batch
  <2>6. Types'
    BY <1>0, <2>1, <2>3, <2>4 DEF Types
  <2>7. Past(clock)'
    BY <1>0, <2>1, <2>3 DEF Types, Past
  <2> QED
    BY <2>1, <2>3, <2>5, <2>6, <2>7 DEF TInv
<1> QED
  BY <1>1, <1>2

\* The query's answer: rows of the database after the position, and all that
\* come before one of them.
Found == {[leg |-> l, status |-> rows[l].status, at |-> rows[l].at] :
             l \in {m \in Leg : IxOf[m] \in only /\ After(m)}}

\* A page is some of the rows found, closed downwards, and all unless full.
LEMMA Answer ==
    ASSUME TInv, NEW legs \in LoadLegsUpdatedSince
    PROVE  /\ legs \subseteq Found /\ legs \in SUBSET Row
           /\ IsFiniteSet(legs) /\ Cardinality(legs) <= Page /\ Cardinality(legs) \in Nat
           /\ \A a \in legs, b \in Found : Before(b, a) => b \in legs
           /\ legs # Found => Cardinality(legs) = Page
<1> DEFINE M == {m \in Leg : IxOf[m] \in only /\ After(m)}
           row == [l \in M |-> [leg |-> l, status |-> rows[l].status, at |-> rows[l].at]]
<1>1. /\ legs \subseteq Found /\ Cardinality(legs) <= Page
      /\ \A a \in legs, b \in Found : Before(b, a) => b \in legs
      /\ legs # Found => Cardinality(legs) = Page
  BY DEF LoadLegsUpdatedSince, Found
<1>2. Found \in SUBSET Row
  BY DEF Found, Row, TInv, Types
<1>3. IsFiniteSet(M)
  BY LegAssumption, FS_Subset
<1>4. Found = {row[l] : l \in M}
  BY DEF Found
<1> HIDE DEF M
<1>5. row \in [M -> Found] /\ Found = Range(row)
  BY <1>4 DEF Range
<1>6. row \in Surjection(M, Found)
  BY <1>4, <1>5 DEF Surjection
<1>7. IsFiniteSet(Found)
  BY <1>3, <1>6, FS_Surjection
<1>8. IsFiniteSet(legs)
  BY <1>1, <1>7, FS_Subset
<1> QED
  BY <1>1, <1>2, <1>8, FS_CardinalityType

\* The rows found are the database's, of legs the client follows.
LEMMA FoundRows ==
    ASSUME NEW r \in Found
    PROVE  /\ r.leg \in Leg /\ IxOf[r.leg] \in only /\ After(r.leg)
           /\ r.at = rows[r.leg].at /\ r.status = rows[r.leg].status
BY DEF Found

\* Reading a page, or leaving the catch-up, keeps types, times and limits.
LEMMA LoadPageTypes ==
    ASSUME TInv, LoadPage
    PROVE  TInv'
<1>0. Types /\ Past(clock)
  BY DEF TInv
<1>1. /\ UNCHANGED <<clock, status, sent, batch, rows, chan, only, cursor, known, since, drops>>
      /\ stream' \in {"off", "backfill", "live"}
  BY <1>0 DEF LoadPage, producer, client, Types
<1>2. SUFFICES /\ page' \in SUBSET Row /\ IsFiniteSet(page') /\ Cardinality(page') <= Page
               /\ pos' \in [at : Nat, leg : Nat, more : BOOLEAN]
               /\ pos'.at <= clock /\ \A r \in page' : r.at <= clock
  <2>1. Types'
    BY <1>0, <1>1, <1>2 DEF Types
  <2>2. Past(clock)'
    BY <1>0, <1>1, <1>2 DEF Past
  <2> QED
    BY <1>1, <1>2, <2>1, <2>2 DEF TInv
<1>3. CASE ~pos.more
  BY <1>3 DEF TInv, Types, Past, LoadPage
<1>4. CASE pos.more
  <2>1. PICK legs \in LoadLegsUpdatedSince :
          /\ page' = legs
          /\ IF Cardinality(legs) < Page THEN pos' = [pos EXCEPT !.more = FALSE]
             ELSE \E last \in legs :
                    pos' = [at |-> last.at, leg |-> last.leg, more |-> TRUE]
    BY <1>4 DEF LoadPage
  <2>2. /\ legs \subseteq Found /\ legs \in SUBSET Row
        /\ IsFiniteSet(legs) /\ Cardinality(legs) <= Page
    BY Answer
  <2>3. \A r \in legs : r.leg \in Leg /\ r.at = rows[r.leg].at /\ r.at <= clock
    BY <1>0, <2>2, FoundRows DEF Past
  <2>4. \A r \in legs : r.at \in Nat /\ r.leg \in Nat
    BY <2>2, LegAssumption DEF Row
  <2>5. pos \in [at : Nat, leg : Nat, more : BOOLEAN] /\ pos.at <= clock
    BY <1>0 DEF Types, Past
  <2>6. CASE pos' = [pos EXCEPT !.more = FALSE]
    BY <2>1, <2>2, <2>3, <2>5, <2>6
  <2>7. ASSUME NEW last \in legs, pos' = [at |-> last.at, leg |-> last.leg, more |-> TRUE]
        PROVE  pos' \in [at : Nat, leg : Nat, more : BOOLEAN] /\ pos'.at <= clock
    BY <2>3, <2>4, <2>7
  <2> QED
    BY <2>1, <2>2, <2>3, <2>6, <2>7
<1> QED
  BY <1>3, <1>4

\* So does a row of the page sent to the client.
LEMMA WriteRowTypes ==
    ASSUME TInv, WriteRow
    PROVE  TInv'
<1>0. Types /\ Past(clock)
  BY DEF TInv
<1>1. PICK row \in page : /\ known' = [known EXCEPT ![row.leg] = row.status]
                          /\ cursor' = row.at /\ page' = page \ {row}
  BY DEF WriteRow, Frame
<1>2. UNCHANGED <<clock, status, sent, batch, rows, chan, stream, pos, only, since, drops>>
  BY DEF WriteRow, producer
<1>3. row.at \in Nat /\ row.status \in Nat /\ row.at <= clock
  BY <1>0 DEF Types, Row, Past
<1>4. IsFiniteSet(page') /\ Cardinality(page') <= Page
  <2>1. IsFiniteSet(page) /\ Cardinality(page) <= Page /\ Page \in Nat
    BY LegAssumption DEF TInv
  <2>2. IsFiniteSet(page') /\ Cardinality(page') = Cardinality(page) - 1
    BY <1>1, <2>1, FS_RemoveElement
  <2>3. Cardinality(page) \in Nat
    BY <2>1, FS_CardinalityType
  <2> QED
    BY <2>1, <2>2, <2>3
<1>5. Types'
  BY <1>0, <1>1, <1>2, <1>3 DEF Types
<1>6. Past(clock)'
  BY <1>0, <1>1, <1>2, <1>3 DEF Past
<1> QED
  BY <1>2, <1>4, <1>5, <1>6 DEF TInv

\* What is left of the queue.
LEMMA Rest ==
    ASSUME NEW b \in Seq(Event), b # <<>>
    PROVE  /\ Tail(b) \in Seq(Event) /\ Head(b) = b[1] /\ b[1] \in Event
           /\ Len(b) \in Nat /\ 1 \in 1..Len(b) /\ Len(Tail(b)) = Len(b) - 1
           /\ \A k \in 1..Len(Tail(b)) : Tail(b)[k] = b[k + 1] /\ k + 1 \in 1..Len(b)
BY HeadTailProperties

\* So does a queued event sent to, or kept from, the client.
LEMMA WriteLiveTypes ==
    ASSUME TInv, WriteLive
    PROVE  TInv'
<1>0. Types /\ Past(clock) /\ Buffer \in Nat
  BY LegAssumption DEF TInv
<1> DEFINE b == chan.buf
           e == b[1]
<1>1. /\ b # <<>> /\ chan' = [chan EXCEPT !.buf = Tail(@)]
      /\ IF IxOf[Head(b).leg] \in only THEN Frame(Head(b).leg, Head(b).status, Head(b).id)
         ELSE UNCHANGED <<known, cursor>>
      /\ UNCHANGED <<clock, status, sent, batch, rows, stream, page, pos, only, since, drops>>
  BY DEF WriteLive, producer
<1>2. b \in Seq(Event) /\ chan.open \in BOOLEAN
  BY <1>0 DEF Types
<1>3. chan' = [open |-> chan.open, buf |-> Tail(b)]
  BY <1>0, <1>1 DEF Types
<1> HIDE DEF b
<1>4. /\ Tail(b) \in Seq(Event) /\ Head(b) = e /\ e \in Event /\ Len(b) \in Nat
      /\ 1 \in 1..Len(b) /\ Len(Tail(b)) = Len(b) - 1
      /\ \A k \in 1..Len(Tail(b)) : Tail(b)[k] = b[k + 1] /\ k + 1 \in 1..Len(b)
  BY <1>1, <1>2, Rest
<1>5. e.id \in Nat /\ e.status \in Nat /\ e.leg \in Leg
  BY <1>4 DEF Event
<1>6. \A k \in 1..Len(b) : b[k].id <= clock
  BY <1>0 DEF Past, b
<1>7. chan' \in [open : BOOLEAN, buf : Seq(Event)]
  BY <1>2, <1>3, <1>4
<1>8. Len(chan'.buf) <= Buffer /\ \A k \in 1..Len(chan'.buf) : chan'.buf[k].id <= clock
  <2>1. Len(b) <= Buffer
    BY DEF TInv, b
  <2> QED
    BY <1>0, <1>3, <1>4, <1>6, <2>1
<1>9. known' \in [Leg -> Nat] /\ cursor' \in Nat \cup {NoCursor}
  BY <1>0, <1>1, <1>4, <1>5 DEF Types, Frame
<1>10. cursor' # NoCursor => cursor' <= clock
  BY <1>0, <1>1, <1>4, <1>6 DEF Past, Frame
<1>11. Types'
  BY <1>0, <1>1, <1>7, <1>9 DEF Types
<1>12. Past(clock)'
  BY <1>0, <1>1, <1>8, <1>10 DEF Past
<1> QED
  BY <1>1, <1>8, <1>11, <1>12 DEF TInv

\* A stream begins or ends with nothing queued.
LEMMA ConnectTypes ==
    ASSUME TInv, Connect \/ Dropped \/ Disconnect
    PROVE  TInv'
<1>0. Types /\ Past(clock) /\ clock \in Nat /\ Buffer \in Nat /\ Page \in Nat
  BY LegAssumption DEF TInv, Types
<1>1. SUFFICES /\ UNCHANGED <<clock, status, sent, batch, rows, only, cursor, known>>
               /\ chan' \in [open : BOOLEAN, buf : {<<>>}]
               /\ stream' \in {"off", "backfill", "live"}
               /\ page' = page \/ page' = {}
               /\ pos' \in [at : Nat, leg : Nat, more : BOOLEAN] /\ pos'.at <= clock
               /\ since' \in Nat
  <2>1. chan'.buf = <<>> /\ Len(chan'.buf) = 0 /\ <<>> \in Seq(Event)
    BY <1>1
  <2>2. chan' \in [open : BOOLEAN, buf : Seq(Event)]
    BY <1>1, <2>1
  <2>3. Types'
    BY <1>0, <1>1, <2>2 DEF Types
  <2>4. Past(clock)'
    BY <1>0, <1>1, <2>1 DEF Past
  <2>5. IsFiniteSet(page') /\ Cardinality(page') <= Page
    <3>1. IsFiniteSet({}) /\ Cardinality({}) = 0
      BY FS_EmptySet
    <3>2. CASE page' = {}
      BY <1>0, <3>1, <3>2
    <3>3. CASE page' = page
      BY <3>3 DEF TInv
    <3> QED
      BY <1>1, <3>2, <3>3
  <2> QED
    BY <1>0, <1>1, <2>1, <2>3, <2>4, <2>5 DEF TInv
<1>2. CASE Connect
  <2>1. UNCHANGED <<clock, status, sent, batch, rows, page, only, cursor, known>>
    BY <1>2 DEF Connect, producer
  <2>2. chan' \in [open : BOOLEAN, buf : {<<>>}]
    BY <1>2 DEF Connect
  <2>3. cursor # NoCursor => cursor \in Nat /\ cursor <= clock
    BY <1>0 DEF Types, Past
  <2>4. CASE cursor = NoCursor
    <3>1. stream' = "live" /\ since' = clock /\ pos' = pos
      BY <1>2, <2>4 DEF Connect
    <3>2. pos \in [at : Nat, leg : Nat, more : BOOLEAN] /\ pos.at <= clock
      BY <1>0 DEF Types, Past
    <3> QED
      BY <1>0, <2>1, <2>2, <3>1, <3>2
  <2>5. CASE cursor # NoCursor
    <3>1. stream' = "backfill" /\ since' = since /\ pos' = Start(cursor)
      BY <1>2, <2>5 DEF Connect
    <3>2. Start(cursor) \in [at : Nat, leg : Nat, more : BOOLEAN] /\ Start(cursor).at <= clock
      BY <2>3, <2>5 DEF Start
    <3>3. since \in Nat
      BY <1>0 DEF Types
    <3> QED
      BY <2>1, <2>2, <3>1, <3>2, <3>3
  <2> QED
    BY <2>4, <2>5
<1>3. CASE Dropped \/ Disconnect
  <2>1. UNCHANGED <<clock, status, sent, batch, rows, only, cursor, known, since>> /\ End
    BY <1>3 DEF Dropped, Disconnect, producer, client
  <2>2. chan' \in [open : BOOLEAN, buf : {<<>>}] /\ stream' = "off" /\ page' = {}
    BY <2>1 DEF End, Closed
  <2>3. pos' \in [at : Nat, leg : Nat, more : BOOLEAN] /\ pos'.at <= clock
    BY <1>0, <2>1 DEF End, Start
  <2>4. since \in Nat
    BY <1>0 DEF Types
  <2> QED
    BY <2>1, <2>2, <2>3, <2>4
<1> QED
  BY <1>2, <1>3

\* Types, times and limits hold in every state.
LEMMA Typed == Spec => []TInv
<1>1. ASSUME TInv, [Next]_vars PROVE TInv'
  <2>1. CASE UNCHANGED vars
    BY <1>1, <2>1 DEF vars, producer, server, client, TInv, Types, Past
  <2>2. ASSUME NEW i \in Ix, Produce(i) PROVE TInv'
    BY <1>1, <2>2, TransitionTypes, EmitTypes, SaveTypes DEF Produce
  <2>3. CASE Connect \/ Disconnect
    BY <1>1, <2>3, ConnectTypes
  <2>4. CASE Serve
    BY <1>1, <2>4, LoadPageTypes, WriteRowTypes, WriteLiveTypes, ConnectTypes DEF Serve
  <2> QED
    BY <1>1, <2>1, <2>2, <2>3, <2>4 DEF Next
<1> QED
  BY <1>1, InitTypes, PTL DEF Spec

(***************************************************************************)
(* The stream's state, the hub's queue and the catch-up's page stay within *)
(* their limits, a cursor never runs ahead of the clock and no row ahead   *)
(* of its events, also with the three windows open.                        *)
(***************************************************************************)
THEOREM TypeCorrect == Spec => []TypeOK
<1>1. TInv => TypeOK
  BY DEF TInv, Types, Past, Batch, TypeOK
<1> QED
  BY <1>1, Typed, PTL

-----------------------------------------------------------------------------
(* Delivery *)

\* Facts about types, as the steps below use them.
LEMMA Shapes ==
    ASSUME TInv
    PROVE  /\ clock \in Nat /\ since \in Nat /\ cursor \in Nat \cup {NoCursor}
           /\ \A l \in Leg : /\ l \in Nat /\ l > 0 /\ IxOf[l] \in Ix /\ status[l] \in Nat
                             /\ sent[l] \in Nat /\ rows[l].at \in Nat
                             /\ rows[l].status \in Nat /\ known[l] \in Nat
           /\ \A j \in Ix : batch[j].at \in Nat /\ batch[j].save \subseteq Leg
                            /\ batch[j].emit \subseteq Leg
           /\ chan.buf \in Seq(Event) /\ chan.open \in BOOLEAN /\ Len(chan.buf) \in Nat
           /\ \A k \in 1..Len(chan.buf) : /\ chan.buf[k].leg \in Leg /\ chan.buf[k].id \in Nat
                                          /\ chan.buf[k].status \in Nat
           /\ \A r \in page : r.leg \in Leg /\ r.at \in Nat /\ r.status \in Nat
           /\ pos.at \in Nat /\ pos.leg \in Nat /\ pos.more \in BOOLEAN
<1>0. Types
  BY DEF TInv
<1>1. clock \in Nat /\ since \in Nat /\ cursor \in Nat \cup {NoCursor}
  BY <1>0 DEF Types
<1>2. \A l \in Leg : /\ l \in Nat /\ l > 0 /\ IxOf[l] \in Ix /\ status[l] \in Nat
                     /\ sent[l] \in Nat /\ rows[l].at \in Nat
                     /\ rows[l].status \in Nat /\ known[l] \in Nat
  BY <1>0, LegAssumption DEF Types
<1>3. \A j \in Ix : /\ batch[j].at \in Nat /\ batch[j].save \subseteq Leg
                    /\ batch[j].emit \subseteq Leg
  BY <1>0 DEF Types, Batch
<1>4. chan.buf \in Seq(Event) /\ chan.open \in BOOLEAN
  BY <1>0 DEF Types
<1>5. \A k \in 1..Len(chan.buf) : chan.buf[k] \in Event
  BY <1>4
<1>6. Len(chan.buf) \in Nat
  BY <1>4
<1>7. \A k \in 1..Len(chan.buf) : /\ chan.buf[k].leg \in Leg /\ chan.buf[k].id \in Nat
                                  /\ chan.buf[k].status \in Nat
  BY <1>5 DEF Event
<1>8. \A r \in page : r.leg \in Leg /\ r.at \in Nat /\ r.status \in Nat
  BY <1>0 DEF Types, Row
<1>9. pos.at \in Nat /\ pos.leg \in Nat /\ pos.more \in BOOLEAN
  BY <1>0 DEF Types
<1> QED
  BY <1>1, <1>2, <1>3, <1>4, <1>6, <1>7, <1>8, <1>9

\* The horizon is the clock, or one tick behind a stamp that waits.
LEMMA HorizonIs ==
    ASSUME TInv, Batches
    PROVE  /\ Horizon \in Nat /\ Horizon <= clock
           /\ \A j \in Ix : batch[j].at > 0 => batch[j].at = Horizon + 1
           /\ (\A j \in Ix : batch[j].at = 0) => Horizon = clock
<1>1. clock \in Nat /\ \A j \in Ix : batch[j].at \in Nat
  BY Shapes
<1>2. CASE \E j \in Ix : batch[j].at > 0
  BY <1>1, <1>2 DEF Horizon, Batches
<1>3. CASE ~\E j \in Ix : batch[j].at > 0
  BY <1>1, <1>3 DEF Horizon
<1> QED
  BY <1>2, <1>3

\* With Lag ruled out, whoever ticks the clock finds no stamp waiting.
LEMMA Idle ==
    ASSUME TInv, Batches, ~Lag, NEW i \in Ix, Unhurried(i), batch[i].at = 0
    PROVE  Horizon = clock /\ \A j \in Ix : batch[j].at = 0
<1>1. \A j \in Ix : batch[j].at = 0
  BY DEF Unhurried
<1> QED
  BY <1>1, HorizonIs

\* Rows that were owed are written after everything there is: pages, cursors
\* and queued events are older.
LEMMA RowsWritten ==
    ASSUME IInv, TInv', NEW L \in SUBSET Leg, NEW t \in Nat, Write(L, t), Horizon < t,
           \A l \in L : ~Saved(l), UNCHANGED <<status, sent, server, client>>
    PROVE  /\ Buffered' /\ Paged' /\ Phases' /\ Covered' /\ Reachable'
           /\ \A l \in Leg : /\ l \in L => Saved(l)' /\ rows'[l].at = t
                             /\ l \notin L => rows'[l] = rows[l]
<1>0. /\ TInv /\ Past(Horizon) /\ Batches /\ Stored /\ Buffered /\ Paged /\ Phases
      /\ Covered /\ Reachable
  BY DEF IInv
<1>1. /\ status' = status /\ sent' = sent /\ chan' = chan /\ stream' = stream
      /\ page' = page /\ pos' = pos /\ only' = only /\ cursor' = cursor
      /\ known' = known /\ since' = since
  BY DEF server, client
<1>2. \A l \in Leg : /\ l \in L => rows'[l].status = status[l] /\ rows'[l].at = t
                     /\ l \notin L => rows'[l] = rows[l]
  BY DEF Write
<1>3. Horizon \in Nat
  BY <1>0, HorizonIs
<1>4. /\ \A k \in 1..Len(chan.buf) : chan.buf[k].id < t
      /\ \A r \in page : r.at < t
      /\ pos.at < t /\ (cursor # NoCursor => cursor < t)
  <2>1. /\ \A k \in 1..Len(chan.buf) : chan.buf[k].id \in Nat
        /\ \A r \in page : r.at \in Nat
        /\ pos.at \in Nat /\ (cursor # NoCursor => cursor \in Nat)
    BY <1>0, Shapes
  <2> QED
    BY <1>0, <1>3, <2>1 DEF Past
<1>5. Buffered'
  BY <1>0, <1>1 DEF Buffered
<1>6. Phases'
  BY <1>0, <1>1 DEF Phases
<1>7. Paged'
  <2> SUFFICES ASSUME NEW r \in page
               PROVE  /\ IxOf[r.leg] \in only
                      /\ r.at <= rows'[r.leg].at
                      /\ r.at = rows'[r.leg].at => r.status = rows'[r.leg].status
                      /\ r.at < rows'[r.leg].at =>
                            /\ pos.at < rows'[r.leg].at
                            /\ \A s \in page : s.at < rows'[r.leg].at
                      /\ cursor <= r.at
                      /\ pos.more => \/ r.at < pos.at
                                     \/ r.at = pos.at /\ r.leg <= pos.leg /\ pos.leg > 0
    BY <1>1 DEF Paged
  <2>1. r.leg \in Leg /\ r.at \in Nat
    BY <1>0, Shapes
  <2>2. CASE r.leg \in L
    BY <1>0, <1>2, <1>4, <2>1, <2>2 DEF Paged
  <2>3. CASE r.leg \notin L
    BY <1>0, <1>2, <2>1, <2>3 DEF Paged
  <2> QED
    BY <2>2, <2>3
<1>8. ASSUME NEW l \in Leg, l \notin L
      PROVE  /\ InPage(l)' <=> InPage(l)
             /\ After(l)' <=> After(l)
             /\ Saved(l)' <=> Saved(l)
             /\ Beyond(l)' <=> Beyond(l)
  BY <1>1, <1>2, <1>8 DEF InPage, After, Saved, Beyond
<1>9. Covered'
  <2> SUFFICES ASSUME stream # "off", NEW l \in Leg, Eligible(l)'
               PROVE  (Queued(l) \/ Missed(l) \/ Settled(l))'
    BY <1>1 DEF Covered
  <2>1. Eligible(l)
    BY <1>1 DEF Eligible
  <2>2. CASE Queued(l)
    BY <1>1, <2>2 DEF Queued
  <2>3. CASE Missed(l)
    BY <1>1, <2>3 DEF Missed
  <2>4. CASE Settled(l)
    <3>1. CASE stream = "live"
      BY <1>1, <2>4, <3>1 DEF Settled, Absent
    <3>2. CASE stream = "backfill"
      <4>1. Absent(l)' /\ Saved(l) /\ l \notin L
        BY <1>1, <2>4, <3>2 DEF Settled, Absent
      <4>2. Saved(l)' /\ rows'[l] = rows[l]
        BY <1>2, <1>8, <4>1
      <4>3. known[l] = status[l] \/ InPage(l)' \/ (pos.more /\ After(l)')
        BY <1>8, <2>4, <3>2, <4>1 DEF Settled
      <4> QED
        BY <1>1, <2>4, <3>2, <4>1, <4>2, <4>3 DEF Settled
    <3> QED
      BY <1>0, <3>1, <3>2 DEF TInv, Types
  <2> QED
    BY <1>0, <2>1, <2>2, <2>3, <2>4 DEF Covered
<1>10. Reachable'
  <2> SUFFICES ASSUME cursor # NoCursor, NEW l \in Leg, Eligible(l)', known[l] # status[l],
                      Saved(l)'
               PROVE  IF stream = "backfill" THEN InPage(l)' \/ Beyond(l)'
                      ELSE rows'[l].at > cursor
    BY <1>1 DEF Reachable
  <2>1. Eligible(l)
    BY <1>1 DEF Eligible
  <2>2. CASE l \in L
    BY <1>1, <1>2, <1>4, <2>2 DEF Beyond, After
  <2>3. CASE l \notin L
    <3>1. Saved(l) /\ rows'[l] = rows[l]
      BY <1>2, <1>8, <2>3
    <3> QED
      BY <1>0, <1>8, <2>1, <2>3, <3>1 DEF Reachable
  <2> QED
    BY <2>2, <2>3
<1>11. \A l \in Leg : l \in L => Saved(l)'
  BY <1>1, <1>2 DEF Saved
<1> QED
  BY <1>2, <1>5, <1>6, <1>7, <1>9, <1>10, <1>11

\* What the client and the server see is the same, and so are the rows.
LEMMA SameView ==
    ASSUME IInv, UNCHANGED <<status, sent, rows, server, client>>
    PROVE  Buffered' /\ Paged' /\ Phases' /\ Covered' /\ Reachable'
<1>0. Buffered /\ Paged /\ Phases /\ Covered /\ Reachable
  BY DEF IInv
<1>1. /\ status' = status /\ sent' = sent /\ chan' = chan /\ stream' = stream
      /\ page' = page /\ pos' = pos /\ only' = only /\ cursor' = cursor
      /\ known' = known /\ since' = since /\ rows' = rows
  BY DEF server, client
<1>2. Buffered' /\ Paged' /\ Phases'
  BY <1>0, <1>1 DEF Buffered, Paged, Phases
<1>3. \A l \in Leg : /\ Eligible(l)' <=> Eligible(l)
                     /\ Queued(l)' <=> Queued(l)
                     /\ Missed(l)' <=> Missed(l)
                     /\ Saved(l)' <=> Saved(l)
                     /\ InPage(l)' <=> InPage(l)
                     /\ After(l)' <=> After(l)
                     /\ Absent(l)' <=> Absent(l)
                     /\ Beyond(l)' <=> Beyond(l)
  BY <1>1 DEF Eligible, Queued, Missed, Saved, InPage, After, Absent, Beyond
<1>4. \A l \in Leg : Settled(l)' <=> Settled(l)
  BY <1>1, <1>3 DEF Settled
<1>5. Covered' /\ Reachable'
  BY <1>0, <1>1, <1>3, <1>4 DEF Covered, Reachable
<1> QED
  BY <1>2, <1>5

\* A tracker's events wait; nothing else has changed.
LEMMA TransitionStep ==
    ASSUME IInv, TInv', NEW i \in Ix, Transition(i)
    PROVE  IInv'
<1>0. TInv /\ Past(Horizon) /\ Batches /\ Stored
  BY DEF IInv
<1>1. PICK L \in SUBSET {l \in Leg : IxOf[l] = i /\ status[l] < MaxEvents[l]} :
        batch' = [batch EXCEPT ![i] = [emit |-> L, save |-> L, at |-> 0]]
  BY DEF Transition
<1>2. batch[i] = NoBatch /\ UNCHANGED <<clock, status, sent, rows, server, client>>
  BY DEF Transition
<1>3. /\ batch'[i] = [emit |-> L, save |-> L, at |-> 0]
      /\ \A j \in Ix \ {i} : batch'[j] = batch[j]
      /\ batch[i].at = 0 /\ batch[i].save = {} /\ batch[i].emit = {}
  BY <1>0, <1>1, <1>2 DEF TInv, Types, NoBatch
<1>4. \A j \in Ix : batch'[j].at = batch[j].at
  BY <1>3
<1>5. Horizon' = Horizon
  BY <1>2, <1>4 DEF Horizon
<1>6. Past(Horizon)'
  BY <1>0, <1>2, <1>5 DEF Past, server, client
<1>7. Batches'
  BY <1>0, <1>2, <1>3, <1>4 DEF Batches
<1>8. Stored'
  <2> SUFFICES ASSUME NEW l \in Leg
               PROVE  /\ Saved(l) <=> l \notin batch'[IxOf[l]].save \/ l \in batch'[IxOf[l]].emit
                      /\ Saved(l) /\ sent[l] > 0 => rows[l].at > sent[l]
    BY <1>2 DEF Stored, Saved
  <2>1. IxOf[l] \in Ix
    BY LegAssumption
  <2> QED
    BY <1>0, <1>3, <2>1 DEF Stored
<1>9. Buffered' /\ Paged' /\ Phases' /\ Covered' /\ Reachable'
  BY <1>2, SameView
<1> QED
  BY <1>6, <1>7, <1>8, <1>9 DEF IInv

\* A write takes its stamp: nothing is later but the clock.
LEMMA StampStep ==
    ASSUME IInv, TInv', ~Lag, NEW i \in Ix, Stamp(i)
    PROVE  IInv'
<1>0. TInv /\ Past(Horizon) /\ Batches /\ Stored
  BY DEF IInv
<1>1. /\ batch[i].emit = {} /\ batch[i].at = 0 /\ Unhurried(i) /\ clock' = clock + 1
      /\ batch' = [batch EXCEPT ![i].at = clock + 1]
      /\ UNCHANGED <<status, sent, rows, server, client>>
  BY DEF Stamp, Tick
<1>2. Horizon = clock /\ clock \in Nat /\ \A j \in Ix : batch[j].at = 0
  BY <1>0, <1>1, Idle, Shapes
<1>3. /\ batch'[i].at = clock + 1 /\ \A j \in Ix \ {i} : batch'[j] = batch[j]
      /\ batch'[i].save = batch[i].save /\ batch'[i].emit = batch[i].emit
  BY <1>0, <1>1 DEF TInv, Types, Batch
<1>4. Horizon' = clock
  BY <1>1, <1>2, <1>3 DEF Horizon
<1>5. Past(Horizon)'
  <2>1. Past(clock)
    BY <1>0, <1>2
  <2> QED
    BY <1>1, <1>4, <2>1 DEF Past, server, client
<1>6. Batches'
  BY <1>0, <1>1, <1>2, <1>3 DEF Batches
<1>7. Stored'
  <2> SUFFICES ASSUME NEW l \in Leg
               PROVE  /\ Saved(l) <=> l \notin batch'[IxOf[l]].save \/ l \in batch'[IxOf[l]].emit
                      /\ Saved(l) /\ sent[l] > 0 => rows[l].at > sent[l]
    BY <1>1 DEF Stored, Saved
  <2>1. IxOf[l] \in Ix
    BY LegAssumption
  <2> QED
    BY <1>0, <1>3, <2>1 DEF Stored
<1>8. Buffered' /\ Paged' /\ Phases' /\ Covered' /\ Reachable'
  BY <1>1, SameView
<1> QED
  BY <1>5, <1>6, <1>7, <1>8 DEF IInv

\* A save: legs that were owed get rows, stamped with the latest time.
LEMMA SaveStep ==
    ASSUME IInv, TInv', NEW i \in Ix, NEW L \in SUBSET batch[i].save, batch[i].emit = {},
           NEW t \in Nat, Write(L, t), Horizon < t, Horizon' = t,
           UNCHANGED <<status, sent, server, client>>,
           batch'[i].save = batch[i].save \ L, batch'[i].emit = {},
           \A j \in Ix \ {i} : batch'[j] = batch[j], Batches'
    PROVE  IInv'
<1>0. TInv /\ Past(Horizon) /\ Batches /\ Stored
  BY DEF IInv
<1>1. /\ L \in SUBSET Leg /\ \A l \in L : IxOf[l] = i /\ ~Saved(l)
  <2>1. L \in SUBSET Leg /\ \A l \in L : l \in batch[i].save /\ IxOf[l] = i
    BY <1>0, Shapes DEF Batches
  <2>2. ASSUME NEW l \in L PROVE ~Saved(l)
    <3>1. Saved(l) <=> l \notin batch[IxOf[l]].save \/ l \in batch[IxOf[l]].emit
      BY <1>0, <2>1 DEF Stored
    <3> QED
      BY <2>1, <3>1
  <2> QED
    BY <2>1, <2>2
<1>2. /\ Buffered' /\ Paged' /\ Phases' /\ Covered' /\ Reachable'
      /\ \A l \in Leg : /\ l \in L => Saved(l)' /\ rows'[l].at = t
                        /\ l \notin L => rows'[l] = rows[l]
  BY <1>1, RowsWritten
<1>3. Horizon \in Nat
  BY <1>0, HorizonIs
<1>4. Past(t)
  BY <1>0, <1>3, PastLater DEF TInv
<1>5. Past(Horizon)'
  <2>1. \A l \in Leg : rows'[l].at <= t
    BY <1>2, <1>4 DEF Past
  <2> QED
    BY <1>4, <2>1 DEF Past, server, client
<1>6. Stored'
  <2> SUFFICES ASSUME NEW l \in Leg
               PROVE  /\ Saved(l)' <=> l \notin batch'[IxOf[l]].save \/ l \in batch'[IxOf[l]].emit
                      /\ Saved(l)' /\ sent[l] > 0 => rows'[l].at > sent[l]
    BY DEF Stored
  <2>1. IxOf[l] \in Ix /\ sent[l] \in Nat /\ sent[l] <= Horizon
    BY <1>0, Shapes DEF Past
  <2>2. CASE l \in L
    BY <1>1, <1>2, <1>3, <2>1, <2>2
  <2>3. CASE l \notin L
    <3>1. rows'[l] = rows[l] /\ (Saved(l)' <=> Saved(l))
      BY <1>2, <2>3 DEF Saved
    <3>2. Saved(l) <=> l \notin batch[IxOf[l]].save \/ l \in batch[IxOf[l]].emit
      BY <1>0 DEF Stored
    <3>3. CASE IxOf[l] = i
      BY <1>0, <2>3, <3>1, <3>2, <3>3 DEF Stored
    <3>4. CASE IxOf[l] # i
      BY <1>0, <2>1, <3>1, <3>2, <3>4 DEF Stored
    <3> QED
      BY <3>3, <3>4
  <2> QED
    BY <2>2, <2>3
<1> QED
  BY <1>2, <1>5, <1>6 DEF IInv

\* The stamped transaction is committed.
LEMMA CommitStep ==
    ASSUME IInv, TInv', NEW i \in Ix, Commit(i)
    PROVE  IInv'
<1>0. TInv /\ Batches
  BY DEF IInv
<1> DEFINE t == batch[i].at
<1>1. /\ t > 0 /\ UNCHANGED <<clock, status, sent, server, client>>
  BY DEF Commit
<1>2. PICK l \in batch[i].save :
        /\ Write(Legs(batch[i].save, TxOf[l]), t)
        /\ batch' = [batch EXCEPT ![i] =
                       [NoBatch EXCEPT !.save = batch[i].save \ Legs(batch[i].save, TxOf[l])]]
  BY DEF Commit
<1> DEFINE L == Legs(batch[i].save, TxOf[l])
<1>3. L \in SUBSET batch[i].save
  BY DEF Legs
<1>4. /\ batch[i].emit = {} /\ t = clock /\ t = Horizon + 1 /\ Horizon \in Nat
      /\ t \in Nat /\ \A j \in Ix \ {i} : batch[j].at = 0
  BY <1>0, <1>1, HorizonIs, Shapes DEF Batches
<1>5. /\ batch'[i].save = batch[i].save \ L /\ batch'[i].emit = {} /\ batch'[i].at = 0
      /\ \A j \in Ix \ {i} : batch'[j] = batch[j]
  BY <1>0, <1>2 DEF TInv, Types, NoBatch
<1>6. Horizon' = t
  BY <1>1, <1>4, <1>5 DEF Horizon
<1>7. Batches'
  BY <1>0, <1>4, <1>5 DEF Batches
<1>8. Horizon < t
  BY <1>4
<1> HIDE DEF L
<1>9. Write(L, t)
  BY <1>2 DEF L
<1> QED
  BY <1>1, <1>3, <1>4, <1>5, <1>6, <1>7, <1>8, <1>9, SaveStep

\* An event is broadcast: its leg is queued, or lost with the subscription,
\* and in any case unsaved.
LEMMA EmitStep ==
    ASSUME IInv, TInv', ~Lag, NEW i \in Ix, Emit(i)
    PROVE  IInv'
<1>0. /\ TInv /\ Past(Horizon) /\ Batches /\ Stored /\ Buffered /\ Paged /\ Phases
      /\ Covered /\ Reachable
  BY DEF IInv
<1>1. PICK l \in batch[i].emit :
        /\ status' = [status EXCEPT ![l] = @ + 1]
        /\ sent' = [sent EXCEPT ![l] = clock + 1]
        /\ batch' = [batch EXCEPT ![i].emit = @ \ {l}]
        /\ chan' = Broadcast([leg |-> l, status |-> status[l] + 1, id |-> clock + 1])
  BY DEF Emit
<1>2. /\ clock' = clock + 1 /\ Unhurried(i) /\ rows' = rows /\ stream' = stream
      /\ page' = page /\ pos' = pos /\ only' = only /\ cursor' = cursor
      /\ known' = known /\ since' = since
  BY DEF Emit, Tick, client
<1>3. /\ l \in Leg /\ l \in batch[i].save /\ IxOf[l] = i /\ batch[i].at = 0
  <2>1. batch[i].emit # {} /\ batch[i].at \in Nat /\ l \in batch[i].save /\ l \in Leg
    BY <1>0, <1>1, Shapes DEF TInv
  <2> QED
    BY <1>0, <2>1 DEF Batches
<1>4. Horizon = clock /\ clock \in Nat /\ \A j \in Ix : batch[j].at = 0
  BY <1>0, <1>2, <1>3, Idle, Shapes
<1>5. /\ \A j \in Ix : batch'[j].at = 0 /\ batch'[j].save = batch[j].save
      /\ batch'[i].emit = batch[i].emit \ {l}
      /\ \A j \in Ix \ {i} : batch'[j].emit = batch[j].emit
  <2>1. batch \in [Ix -> Batch] /\ batch[i] \in Batch
    BY <1>0 DEF TInv, Types
  <2> DEFINE new == [batch[i] EXCEPT !.emit = @ \ {l}]
  <2>2. batch' = [batch EXCEPT ![i] = new]
    BY <1>1
  <2>3. new.emit = batch[i].emit \ {l} /\ new.save = batch[i].save /\ new.at = batch[i].at
    BY <2>1 DEF Batch
  <2> HIDE DEF new
  <2>4. batch'[i] = new /\ \A j \in Ix \ {i} : batch'[j] = batch[j]
    BY <2>1, <2>2
  <2> QED
    BY <1>4, <2>3, <2>4
<1>6. Horizon' = clock + 1
  BY <1>2, <1>5 DEF Horizon
<1>7. Past(Horizon)'
  BY <1>2, <1>6 DEF TInv, Past
<1>8. Batches'
  BY <1>0, <1>5 DEF Batches
<1>9. /\ status'[l] = status[l] + 1 /\ sent'[l] = clock + 1
      /\ \A m \in Leg \ {l} : status'[m] = status[m] /\ sent'[m] = sent[m]
      /\ status[l] \in Nat /\ rows[l].status \in Nat /\ rows[l].status <= status[l]
  <2>1. status \in [Leg -> Nat] /\ sent \in [Leg -> Nat]
    BY <1>0 DEF TInv, Types
  <2> QED
    BY <1>0, <1>1, <1>3, <2>1, Shapes DEF TInv
<1>10. ~Saved(l)' /\ \A m \in Leg \ {l} : Saved(m)' <=> Saved(m)
  BY <1>2, <1>9 DEF Saved
<1>11. Stored'
  <2> SUFFICES ASSUME NEW m \in Leg
               PROVE  /\ Saved(m)' <=> m \notin batch'[IxOf[m]].save \/ m \in batch'[IxOf[m]].emit
                      /\ Saved(m)' /\ sent'[m] > 0 => rows'[m].at > sent'[m]
    BY DEF Stored
  <2>1. IxOf[m] \in Ix
    BY LegAssumption
  <2>2. CASE m = l
    BY <1>3, <1>5, <1>10, <2>2
  <2>3. CASE m # l
    BY <1>0, <1>2, <1>5, <1>9, <1>10, <2>1, <2>3 DEF Stored
  <2> QED
    BY <2>2, <2>3
<1>12. Paged' /\ Phases'
  <2>1. stream = "off" => chan' = chan
    BY <1>0, <1>1 DEF Phases, Closed, Broadcast
  <2> QED
    BY <1>0, <1>2, <2>1 DEF Paged, Phases
<1> DEFINE e == [leg |-> l, status |-> status[l] + 1, id |-> clock + 1]
           b == chan.buf
           c == chan'.buf
<1>13. e \in Event /\ e.leg = l /\ e.status = status'[l] /\ e.id = clock + 1 /\ e.id = sent'[l]
  BY <1>3, <1>4, <1>9 DEF Event
<1>14. b \in Seq(Event) /\ Len(b) \in Nat /\ \A k \in 1..Len(b) : b[k].id <= clock /\ b[k].id \in Nat /\ b[k].leg \in Leg
  BY <1>0, <1>4, Shapes DEF Past
<1>15. \/ chan.open /\ chan'.open /\ c = Append(b, e)
       \/ ~chan'.open /\ c = b
  <2>1. chan \in [open : BOOLEAN, buf : Seq(Event)] /\ chan' = Broadcast(e)
    BY <1>0, <1>1 DEF TInv, Types
  <2> HIDE DEF e
  <2> QED
    BY <1>13, <2>1, Broadcasts
<1>16. \A j, k \in 1..Len(b) : j < k => b[j].id < b[k].id
  BY <1>0 DEF Buffered
<1>17. \A k \in 1..Len(b) : /\ b[k].id <= sent[b[k].leg]
                            /\ b[k].id = sent[b[k].leg] => b[k].status = status[b[k].leg]
  BY <1>0 DEF Buffered
<1>18. \A k \in 1..Len(b) : /\ b[k].id <= sent'[b[k].leg]
                            /\ b[k].id = sent'[b[k].leg] => b[k].status = status'[b[k].leg]
  <2> SUFFICES ASSUME NEW k \in 1..Len(b)
               PROVE  /\ b[k].id <= sent'[b[k].leg]
                      /\ b[k].id = sent'[b[k].leg] => b[k].status = status'[b[k].leg]
    OBVIOUS
  <2> DEFINE m == b[k].leg
             d == b[k].id
  <2>1. d \in Nat /\ d <= clock /\ m \in Leg /\ d <= sent[m] /\ (d = sent[m] => b[k].status = status[m])
    BY <1>14, <1>17
  <2> HIDE DEF m, d
  <2>2. d <= sent'[m] /\ (d = sent'[m] => b[k].status = status'[m])
    <3>1. CASE m = l
      BY <1>4, <1>9, <2>1, <3>1
    <3>2. CASE m # l
      BY <1>9, <2>1, <3>2
    <3> QED
      BY <3>1, <3>2
  <2> QED
    BY <2>2 DEF m, d
<1>19. ASSUME NEW m \in Leg, m # l, Eligible(m)', stream # "off"
       PROVE  Queued(m) \/ Missed(m) \/ Settled(m)
  <2>1. Eligible(m)
    BY <1>2, <1>9, <1>19 DEF Eligible
  <2> QED
    BY <1>0, <1>19, <2>1 DEF Covered
<1>20. ASSUME NEW m \in Leg, m # l, stream = "live" \/ stream = "backfill", Absent(m)', Settled(m)
       PROVE  Settled(m)'
  <2>1. InPage(m)' <=> InPage(m)
    BY <1>2 DEF InPage
  <2>2. After(m)' <=> After(m)
    BY <1>2 DEF After
  <2> QED
    BY <1>2, <1>9, <1>10, <1>20, <2>1, <2>2 DEF Settled
<1>21. stream # "off" => stream = "live" \/ stream = "backfill"
  BY <1>0 DEF TInv, Types
<1>22. ASSUME ~chan'.open, c = b PROVE Buffered' /\ Covered'
  <2>1. Buffered'
    BY <1>16, <1>18, <1>22 DEF Buffered
  <2>2. Missed(l)'
    BY <1>4, <1>9, <1>14, <1>22 DEF Missed
  <2>3. ASSUME NEW m \in Leg, m # l, Queued(m) \/ Missed(m) \/ Settled(m), stream # "off"
        PROVE  (Queued(m) \/ Missed(m) \/ Settled(m))'
    <3>1. CASE Queued(m)
      BY <1>9, <1>22, <2>3, <3>1 DEF Queued
    <3>2. CASE Missed(m)
      BY <1>9, <1>22, <2>3, <3>2 DEF Missed
    <3>3. CASE Settled(m)
      <4>1. Absent(m)'
        BY <1>22, <3>3 DEF Settled, Absent
      <4> QED
        BY <1>20, <1>21, <2>3, <3>3, <4>1
    <3> QED
      BY <2>3, <3>1, <3>2, <3>3
  <2>4. Covered'
    BY <1>2, <1>19, <2>2, <2>3 DEF Covered
  <2> QED
    BY <2>1, <2>4
<1>23. ASSUME chan.open, chan'.open, c = Append(b, e) PROVE Buffered' /\ Covered'
  <2> HIDE DEF e, b, c
  <2>1. /\ Len(c) = Len(b) + 1 /\ c[Len(b) + 1] = e /\ \A k \in 1..Len(b) : c[k] = b[k]
        /\ \A k \in 1..Len(c) : k \in 1..Len(b) \/ k = Len(b) + 1
        /\ Len(b) + 1 \in 1..Len(c) /\ \A k \in 1..Len(b) : k \in 1..Len(c)
    BY <1>13, <1>14, <1>23
  <2>2. \A j, k \in 1..Len(c) : j < k => c[j].id < c[k].id
    <3> SUFFICES ASSUME NEW j \in 1..Len(c), NEW k \in 1..Len(c), j < k
                 PROVE  c[j].id < c[k].id
      OBVIOUS
    <3>1. j \in 1..Len(b)
      BY <1>14, <2>1
    <3>2. CASE k \in 1..Len(b)
      BY <1>16, <2>1, <3>1, <3>2
    <3>3. CASE k = Len(b) + 1
      BY <1>4, <1>13, <1>14, <2>1, <3>1, <3>3
    <3> QED
      BY <2>1, <3>2, <3>3
  <2>3. \A k \in 1..Len(c) : /\ c[k].id <= sent'[c[k].leg]
                             /\ c[k].id = sent'[c[k].leg] => c[k].status = status'[c[k].leg]
    <3> SUFFICES ASSUME NEW k \in 1..Len(c)
                 PROVE  /\ c[k].id <= sent'[c[k].leg]
                        /\ c[k].id = sent'[c[k].leg] => c[k].status = status'[c[k].leg]
      OBVIOUS
    <3>1. CASE k \in 1..Len(b)
      BY <1>18, <2>1, <3>1
    <3>2. CASE k = Len(b) + 1
      BY <1>4, <1>13, <2>1, <3>2
    <3> QED
      BY <2>1, <3>1, <3>2
  <2>4. Buffered'
    BY <2>2, <2>3 DEF Buffered, c
  <2>5. Queued(l)'
    BY <1>13, <2>1 DEF Queued, c
  <2>6. ASSUME NEW m \in Leg, m # l, Queued(m) \/ Missed(m) \/ Settled(m), stream # "off"
        PROVE  (Queued(m) \/ Missed(m) \/ Settled(m))'
    <3>1. CASE Queued(m)
      <4>1. PICK k \in 1..Len(b) : b[k].leg = m /\ b[k].id = sent[m]
        BY <3>1 DEF Queued, b
      <4>2. k \in 1..Len(c) /\ c[k].leg = m /\ c[k].id = sent'[m]
        BY <1>9, <2>1, <2>6, <4>1
      <4> QED
        BY <4>2 DEF Queued, c
    <3>2. CASE Missed(m)
      BY <1>23, <3>2 DEF Missed
    <3>3. CASE Settled(m)
      <4>1. \A k \in 1..Len(b) : b[k].leg # m
        BY <3>3 DEF Settled, Absent, b
      <4>2. \A k \in 1..Len(c) : c[k].leg # m
        BY <1>13, <2>1, <2>6, <4>1
      <4>3. Absent(m)'
        BY <4>2 DEF Absent, c
      <4> QED
        BY <1>20, <1>21, <2>6, <3>3, <4>3
    <3> QED
      BY <2>6, <3>1, <3>2, <3>3
  <2>7. Covered'
    BY <1>2, <1>19, <2>5, <2>6 DEF Covered
  <2> QED
    BY <2>4, <2>7
<1>24. Reachable'
  <2> SUFFICES ASSUME cursor # NoCursor, NEW m \in Leg, Eligible(m)', known[m] # status'[m],
                      Saved(m)'
               PROVE  IF stream = "backfill" THEN InPage(m)' \/ Beyond(m)'
                      ELSE rows[m].at > cursor
    BY <1>2 DEF Reachable
  <2>1. m # l /\ Saved(m)
    BY <1>10
  <2>2. Eligible(m) /\ known[m] # status[m]
    BY <1>2, <1>9, <2>1 DEF Eligible
  <2>3. (InPage(m)' <=> InPage(m)) /\ (Beyond(m)' <=> Beyond(m))
    BY <1>2 DEF InPage, Beyond, After
  <2> QED
    BY <1>0, <2>1, <2>2, <2>3 DEF Reachable
<1> QED
  BY <1>7, <1>8, <1>11, <1>12, <1>15, <1>22, <1>23, <1>24 DEF IInv

\* The producers' part of the invariant does not depend on the consumers.
LEMMA ProducersRest ==
    ASSUME IInv, UNCHANGED <<clock, producer>>
    PROVE  Batches' /\ Stored' /\ Horizon' = Horizon
BY DEF IInv, producer, Batches, Stored, Saved, Horizon

\* A client subscribes: without a cursor nothing older is owed to it, with one
\* the catch-up that begins reaches what it does not know, all of it saved.
LEMMA ConnectStep ==
    ASSUME IInv, TInv', ~Overlap, Connect
    PROVE  IInv'
<1>0. /\ TInv /\ Past(Horizon) /\ Phases /\ Reachable /\ Batches
  BY DEF IInv
<1>1. /\ stream = "off" /\ page = {} /\ chan'.buf = <<>> /\ chan'.open
      /\ UNCHANGED <<clock, producer, page, only, cursor, known>>
      /\ UNCHANGED <<status, sent, rows>>
  BY <1>0 DEF Connect, Phases, producer
<1>2. Batches' /\ Stored' /\ Horizon' = Horizon
  BY <1>1, ProducersRest
<1>3. Len(chan'.buf) = 0 /\ 1..Len(chan'.buf) = {}
  BY <1>1
<1>4. Buffered' /\ Paged'
  BY <1>1, <1>3 DEF Buffered, Paged
<1>5. Horizon \in Nat /\ Horizon <= clock /\ clock \in Nat
  BY <1>0, HorizonIs, Shapes
<1>6. CASE cursor = NoCursor
  <2>1. stream' = "live" /\ since' = clock /\ pos' = pos
    BY <1>6 DEF Connect
  <2>2. Past(Horizon)'
    BY <1>0, <1>1, <1>2, <1>3, <2>1 DEF Past
  <2>3. \A l \in Leg : ~Eligible(l)'
    <3>1. \A l \in Leg : sent[l] <= Horizon /\ sent[l] \in Nat
      BY <1>0, Shapes DEF Past
    <3> QED
      BY <1>1, <1>5, <2>1, <3>1 DEF Eligible
  <2>4. Covered' /\ Reachable'
    BY <2>3 DEF Covered, Reachable
  <2>5. Phases'
    BY <1>1, <2>1 DEF Phases
  <2> QED
    BY <1>2, <1>4, <2>2, <2>4, <2>5 DEF IInv
<1>7. CASE cursor # NoCursor
  <2>1. /\ stream' = "backfill" /\ since' = since /\ pos' = Start(cursor)
        /\ Unsaved = {}
    BY <1>7 DEF Connect
  <2>2. pos'.at = cursor /\ pos'.leg = 0 /\ pos'.more
    BY <2>1 DEF Start
  <2>3. Past(Horizon)'
    BY <1>0, <1>1, <1>2, <1>3, <1>7, <2>2 DEF Past
  <2>4. cursor \in Nat
    BY <1>0, <1>7, Shapes
  <2>5. Phases'
    BY <1>1, <1>7, <2>1, <2>2, <2>4 DEF Phases
  <2>6. ASSUME NEW l \in Leg, Eligible(l)'
        PROVE  Saved(l)' /\ (known[l] = status[l] \/ After(l)')
    <3>1. Eligible(l) /\ Saved(l) /\ Saved(l)'
      BY <1>1, <2>1, <2>6 DEF Eligible, Unsaved, Saved
    <3>2. known[l] = status[l] \/ rows[l].at > cursor
      BY <1>0, <1>1, <1>7, <3>1 DEF Reachable
    <3> QED
      BY <1>1, <2>2, <3>1, <3>2 DEF After
  <2>7. Covered'
    <3> SUFFICES ASSUME NEW l \in Leg, Eligible(l)' PROVE Settled(l)'
      BY DEF Covered
    <3> QED
      BY <1>1, <1>3, <2>1, <2>2, <2>6 DEF Settled, Absent
  <2>8. Reachable'
    BY <1>1, <2>1, <2>2, <2>6 DEF Reachable, Beyond
  <2> QED
    BY <1>2, <1>4, <2>3, <2>5, <2>7, <2>8 DEF IInv
<1> QED
  BY <1>6, <1>7

\* A stream ends: the client's cursor is before what it does not know.
LEMMA EndStep ==
    ASSUME IInv, TInv', ~Cut, Dropped \/ Disconnect
    PROVE  IInv'
<1>0. /\ TInv /\ Past(Horizon) /\ Phases /\ Reachable /\ Paged /\ Batches
  BY DEF IInv
<1>1. /\ stream' = "off" /\ chan' = Closed /\ page' = {} /\ pos' = Start(0)
      /\ UNCHANGED <<clock, producer, only, cursor, known, since>>
      /\ UNCHANGED <<status, sent, rows>>
  BY DEF Dropped, Disconnect, End, producer, client
<1>2. Batches' /\ Stored' /\ Horizon' = Horizon
  BY <1>1, ProducersRest
<1>3. chan'.buf = <<>> /\ Len(chan'.buf) = 0 /\ 1..Len(chan'.buf) = {} /\ pos'.at = 0
  BY <1>1 DEF Closed, Start
<1>4. Buffered' /\ Paged' /\ Phases' /\ Covered'
  BY <1>1, <1>3 DEF Buffered, Paged, Phases, Covered
<1>5. Horizon \in Nat
  BY <1>0, HorizonIs
<1>6. Past(Horizon)'
  BY <1>0, <1>1, <1>2, <1>3, <1>5 DEF Past
<1>7. Reachable'
  <2> SUFFICES ASSUME cursor # NoCursor, NEW l \in Leg, Eligible(l), known[l] # status[l], Saved(l)
               PROVE  rows[l].at > cursor
    BY <1>1 DEF Reachable, Eligible, Saved
  <2>1. IF stream = "backfill" THEN InPage(l) \/ Beyond(l) ELSE rows[l].at > cursor
    BY <1>0 DEF Reachable
  <2>2. CASE stream # "backfill"
    BY <2>1, <2>2
  <2>3. CASE stream = "backfill"
    <3>1. SameSave = {}
      BY <2>3 DEF Dropped, Disconnect
    <3>2. rows[l].at # cursor
      BY <3>1 DEF SameSave, Saved
    <3>3. cursor \in Nat /\ rows[l].at \in Nat /\ pos.at \in Nat
      BY <1>0, Shapes
    <3>4. CASE InPage(l)
      <4>1. PICK r \in page : r.leg = l /\ r.at = rows[l].at
        BY <3>4 DEF InPage
      <4>2. cursor <= r.at
        BY <1>0 DEF Paged
      <4> QED
        BY <3>2, <3>3, <4>1, <4>2
    <3>5. CASE Beyond(l)
      <4>1. CASE pos.more
        <5>1. rows[l].at >= pos.at
          BY <3>3, <3>5, <4>1 DEF Beyond, After
        <5>2. cursor <= pos.at
          BY <1>0, <2>3, <4>1 DEF Phases
        <5> QED
          BY <3>2, <3>3, <5>1, <5>2
      <4>2. CASE ~pos.more
        BY <3>5, <4>2 DEF Beyond
      <4> QED
        BY <4>1, <4>2
    <3> QED
      BY <2>1, <2>3, <3>4, <3>5
  <2> QED
    BY <2>2, <2>3
<1> QED
  BY <1>2, <1>4, <1>6, <1>7 DEF IInv

\* A page is fetched: what it leaves out is after the new position.
LEMMA FetchStep ==
    ASSUME IInv, TInv', LoadPage, pos.more
    PROVE  IInv'
<1>0. /\ TInv /\ Past(Horizon) /\ Phases /\ Buffered /\ Covered /\ Reachable /\ Batches
  BY DEF IInv
<1>1. /\ stream = "backfill" /\ stream' = "backfill" /\ page = {}
      /\ UNCHANGED <<clock, producer, chan, only, cursor, known, since>>
      /\ UNCHANGED <<status, sent, rows>>
  BY DEF LoadPage, producer, client
<1>2. PICK legs \in LoadLegsUpdatedSince :
        /\ page' = legs
        /\ IF Cardinality(legs) < Page THEN pos' = [pos EXCEPT !.more = FALSE]
           ELSE \E last \in legs :
                  /\ \A a \in legs \ {last} : Before(a, last)
                  /\ pos' = [at |-> last.at, leg |-> last.leg, more |-> TRUE]
  BY DEF LoadPage
<1>3. /\ legs \subseteq Found /\ Cardinality(legs) \in Nat /\ Page \in Nat
      /\ \A a \in legs, b \in Found : Before(b, a) => b \in legs
      /\ legs # Found => Cardinality(legs) = Page
  BY <1>0, Answer, LegAssumption
<1>4. \A r \in legs : /\ r.leg \in Leg /\ IxOf[r.leg] \in only /\ After(r.leg)
                      /\ r.at = rows[r.leg].at /\ r.status = rows[r.leg].status
                      /\ r.at \in Nat /\ r.leg \in Nat /\ r.leg > 0
  BY <1>0, <1>3, FoundRows, Shapes
<1>5. cursor # NoCursor /\ cursor \in Nat /\ cursor <= pos.at /\ pos.at \in Nat
  BY <1>0, <1>1, Shapes DEF Phases
<1>6. \A r \in legs : cursor <= r.at
  BY <1>4, <1>5 DEF After
<1>7. \/ /\ legs = Found /\ pos' = [pos EXCEPT !.more = FALSE]
      \/ \E last \in legs : /\ \A a \in legs \ {last} : Before(a, last)
                            /\ pos' = [at |-> last.at, leg |-> last.leg, more |-> TRUE]
  BY <1>2, <1>3
<1>8. pos \in [at : Nat, leg : Nat, more : BOOLEAN]
  BY <1>0 DEF TInv, Types
<1>9. ASSUME legs = Found, pos' = [pos EXCEPT !.more = FALSE]
      PROVE  /\ ~pos'.more /\ pos'.at = pos.at
  BY <1>8, <1>9
<1>10. ASSUME NEW last \in legs, \A a \in legs \ {last} : Before(a, last),
              pos' = [at |-> last.at, leg |-> last.leg, more |-> TRUE]
       PROVE  /\ pos'.more /\ pos'.at = last.at /\ pos'.leg = last.leg
              /\ \A r \in legs : \/ r.at < pos'.at
                                 \/ r.at = pos'.at /\ r.leg <= pos'.leg /\ pos'.leg > 0
  BY <1>4, <1>10 DEF Before
<1>11. Batches' /\ Stored' /\ Horizon' = Horizon
  BY <1>1, ProducersRest
<1>12. Past(Horizon)'
  <2>1. \A r \in legs : r.at <= Horizon
    BY <1>0, <1>4 DEF Past
  <2>2. pos'.at <= Horizon
    BY <1>0, <1>7, <1>9, <1>10, <2>1 DEF Past
  <2> QED
    BY <1>0, <1>1, <1>2, <1>11, <2>1, <2>2 DEF Past
<1>13. Buffered'
  BY <1>0, <1>1 DEF Buffered
<1>14. Paged'
  <2>1. \A r \in legs : pos'.more => \/ r.at < pos'.at
                                     \/ r.at = pos'.at /\ r.leg <= pos'.leg /\ pos'.leg > 0
    BY <1>7, <1>9, <1>10
  <2>2. \A r \in legs : r.at <= rows[r.leg].at /\ ~(r.at < rows[r.leg].at)
    BY <1>4
  <2> QED
    BY <1>1, <1>2, <1>4, <1>6, <2>1, <2>2 DEF Paged
<1>15. Phases'
  BY <1>1, <1>5, <1>6, <1>7, <1>9, <1>10 DEF Phases
<1>16. ASSUME NEW l \in Leg, IxOf[l] \in only, After(l)
       PROVE  InPage(l)' \/ (pos'.more /\ After(l)')
  <2> DEFINE row == [leg |-> l, status |-> rows[l].status, at |-> rows[l].at]
  <2>1. row \in Found
    BY <1>16 DEF Found
  <2>2. row.leg = l /\ row.at = rows[l].at /\ row.status = rows[l].status
    OBVIOUS
  <2>3. CASE row \in legs
    <3>1. row \in page' /\ row.leg = l /\ row.at = rows'[l].at
      BY <1>1, <1>2, <2>2, <2>3
    <3> QED
      BY <3>1 DEF InPage
  <2>4. CASE row \notin legs
    <3>1. legs # Found
      BY <2>1, <2>4
    <3>2. PICK last \in legs : pos' = [at |-> last.at, leg |-> last.leg, more |-> TRUE]
      BY <1>2, <1>3, <3>1
    <3>3. ~Before(row, last)
      BY <1>3, <2>1, <2>4, <3>2
    <3>4. rows[l].at \in Nat /\ l \in Nat
      BY <1>0, Shapes
    <3>5. last.leg # l
      <4> SUFFICES ASSUME last.leg = l PROVE FALSE
        OBVIOUS
      <4>1. PICK m \in Leg : last = [leg |-> m, status |-> rows[m].status, at |-> rows[m].at]
        BY <1>3, <3>2 DEF Found
      <4>2. last = row
        BY <4>1
      <4> QED
        BY <2>4, <4>2
    <3>6. rows[l].at > last.at \/ (rows[l].at = last.at /\ l > last.leg)
      BY <1>4, <2>2, <3>3, <3>4, <3>5 DEF Before
    <3> QED
      BY <1>1, <1>4, <3>2, <3>6 DEF After
  <2> QED
    BY <2>3, <2>4
<1>17. \A l \in Leg : ~InPage(l)
  BY <1>1 DEF InPage
<1>18. Covered'
  <2> SUFFICES ASSUME NEW l \in Leg, Eligible(l)'
               PROVE  (Queued(l) \/ Missed(l) \/ Settled(l))'
    BY DEF Covered
  <2>1. Eligible(l)
    BY <1>1 DEF Eligible
  <2>2. CASE Queued(l)
    BY <1>1, <2>2 DEF Queued
  <2>3. CASE Missed(l)
    BY <1>1, <2>3 DEF Missed
  <2>4. CASE Settled(l)
    <3>1. /\ Absent(l)' /\ Saved(l)' /\ \A r \in page' : r.leg = l => r.at = rows'[l].at
      BY <1>1, <1>2, <1>4, <2>4 DEF Settled, Absent, Saved
    <3>2. known[l] = status[l] \/ After(l)
      BY <1>1, <1>17, <2>4 DEF Settled
    <3>3. IxOf[l] \in only
      BY <2>1 DEF Eligible
    <3>4. known'[l] = status'[l] \/ InPage(l)' \/ (pos'.more /\ After(l)')
      BY <1>1, <1>16, <3>2, <3>3
    <3> QED
      BY <1>1, <3>1, <3>4 DEF Settled
  <2> QED
    BY <1>0, <1>1, <2>1, <2>2, <2>3, <2>4 DEF Covered
<1>19. Reachable'
  <2> SUFFICES ASSUME NEW l \in Leg, Eligible(l)', known[l] # status[l], Saved(l)'
               PROVE  InPage(l)' \/ Beyond(l)'
    BY <1>1 DEF Reachable
  <2>1. Eligible(l) /\ Saved(l) /\ IxOf[l] \in only
    BY <1>1 DEF Eligible, Saved
  <2>2. Beyond(l)
    BY <1>0, <1>1, <1>5, <1>17, <2>1 DEF Reachable
  <2>3. After(l)
    BY <2>2 DEF Beyond
  <2>4. InPage(l)' \/ (pos'.more /\ After(l)')
    BY <1>16, <2>1, <2>3
  <2> QED
    BY <2>4 DEF Beyond
<1> QED
  BY <1>11, <1>12, <1>13, <1>14, <1>15, <1>18, <1>19 DEF IInv

\* The catch-up is over: what it did not bring is queued, lost or later.
LEMMA LiveStep ==
    ASSUME IInv, TInv', LoadPage, ~pos.more
    PROVE  IInv'
<1>0. /\ TInv /\ Past(Horizon) /\ Phases /\ Buffered /\ Covered /\ Reachable
  BY DEF IInv
<1>1. /\ stream = "backfill" /\ stream' = "live" /\ page = {} /\ page' = {} /\ pos' = pos
      /\ UNCHANGED <<clock, producer, chan, only, cursor, known, since>>
      /\ UNCHANGED <<status, sent, rows>>
  BY DEF LoadPage, producer, client
<1>2. Batches' /\ Stored' /\ Horizon' = Horizon
  BY <1>1, ProducersRest
<1>3. Past(Horizon)'
  BY <1>0, <1>1, <1>2 DEF Past
<1>4. Buffered' /\ Paged' /\ Phases'
  BY <1>0, <1>1 DEF Buffered, Paged, Phases
<1>5. \A l \in Leg : ~InPage(l)
  BY <1>1 DEF InPage
<1>6. Covered'
  <2> SUFFICES ASSUME NEW l \in Leg, Eligible(l)'
               PROVE  (Queued(l) \/ Missed(l) \/ Settled(l))'
    BY DEF Covered
  <2>1. Eligible(l)
    BY <1>1 DEF Eligible
  <2>2. CASE Queued(l)
    BY <1>1, <2>2 DEF Queued
  <2>3. CASE Missed(l)
    BY <1>1, <2>3 DEF Missed
  <2>4. CASE Settled(l)
    BY <1>1, <1>5, <2>4 DEF Settled, Absent
  <2> QED
    BY <1>0, <1>1, <2>1, <2>2, <2>3, <2>4 DEF Covered
<1>7. Reachable'
  BY <1>0, <1>1, <1>5 DEF Reachable, Eligible, Saved, Beyond
<1> QED
  BY <1>2, <1>3, <1>4, <1>6, <1>7 DEF IInv

\* A row reaches the client: later ones are behind its cursor's time.
LEMMA WriteRowStep ==
    ASSUME IInv, TInv', WriteRow
    PROVE  IInv'
<1>0. /\ TInv /\ Past(Horizon) /\ Phases /\ Buffered /\ Paged /\ Covered /\ Reachable
  BY DEF IInv
<1>1. PICK row \in page : /\ \A a \in page \ {row} : Before(row, a)
                          /\ known' = [known EXCEPT ![row.leg] = row.status]
                          /\ cursor' = row.at /\ page' = page \ {row}
  BY DEF WriteRow, Frame
<1>2. /\ UNCHANGED <<clock, producer, chan, stream, pos, only, since>>
      /\ UNCHANGED <<status, sent, rows>>
  BY DEF WriteRow, producer
<1>3. stream = "backfill" /\ cursor # NoCursor
  BY <1>0, <1>1 DEF Phases
<1>4. /\ row.leg \in Leg /\ row.at \in Nat /\ row.at # NoCursor
      /\ \A r \in page : r.at \in Nat /\ r.leg \in Leg
  BY <1>0, LegAssumption, Shapes
<1>5. known'[row.leg] = row.status /\ \A l \in Leg \ {row.leg} : known'[l] = known[l]
  BY <1>0, <1>1, <1>4 DEF TInv, Types
<1>6. Batches' /\ Stored' /\ Horizon' = Horizon
  BY <1>2, ProducersRest
<1>7. Past(Horizon)'
  BY <1>0, <1>1, <1>2, <1>6 DEF Past
<1>8. Buffered'
  BY <1>0, <1>2 DEF Buffered
<1>9. \A r \in page : row.at <= r.at
  BY <1>1, <1>4 DEF Before
<1>10. Paged'
  BY <1>0, <1>1, <1>2, <1>9 DEF Paged
<1>11. Phases'
  <2>1. pos.more => row.at <= pos.at
    BY <1>0, <1>4, Shapes DEF Paged
  <2> QED
    BY <1>1, <1>2, <1>3, <1>4, <2>1 DEF Phases
<1>12. \A l \in Leg : l # row.leg /\ InPage(l) => InPage(l)'
  BY <1>1, <1>2 DEF InPage
<1>13. \A l \in Leg : (After(l)' <=> After(l)) /\ (Saved(l)' <=> Saved(l))
                      /\ (Eligible(l)' <=> Eligible(l))
  BY <1>2 DEF After, Saved, Eligible
<1>14. Covered'
  <2> SUFFICES ASSUME NEW l \in Leg, Eligible(l)'
               PROVE  (Queued(l) \/ Missed(l) \/ Settled(l))'
    BY DEF Covered
  <2>1. Eligible(l)
    BY <1>13
  <2>2. CASE Queued(l)
    BY <1>2, <2>2 DEF Queued
  <2>3. CASE Missed(l)
    BY <1>2, <2>3 DEF Missed
  <2>4. CASE Settled(l)
    <3>1. /\ Absent(l)' /\ Saved(l) /\ Saved(l)'
          /\ \A r \in page : r.leg = l => r.at = rows[l].at
      BY <1>2, <1>3, <1>13, <2>4 DEF Settled, Absent
    <3>2. known'[l] = status[l] \/ InPage(l)' \/ (pos.more /\ After(l)')
      <4>1. CASE l = row.leg
        BY <1>0, <1>1, <1>5, <3>1, <4>1 DEF Paged, Saved
      <4>2. CASE l # row.leg
        BY <1>3, <1>5, <1>12, <1>13, <2>4, <4>2 DEF Settled
      <4> QED
        BY <4>1, <4>2
    <3> QED
      BY <1>1, <1>2, <1>3, <3>1, <3>2 DEF Settled
  <2> QED
    BY <1>0, <1>3, <2>1, <2>2, <2>3, <2>4 DEF Covered
<1>15. Reachable'
  <2> SUFFICES ASSUME NEW l \in Leg, Eligible(l), known'[l] # status[l], Saved(l)
               PROVE  InPage(l)' \/ Beyond(l)'
    BY <1>2, <1>3, <1>13 DEF Reachable
  <2>1. rows[l].at \in Nat
    BY <1>0, Shapes
  <2>2. CASE l = row.leg
    <3>1. row.at # rows[l].at /\ row.at <= rows[l].at
      BY <1>0, <1>5, <2>2 DEF Paged, Saved
    <3>2. row.at < rows[l].at
      BY <1>4, <2>1, <3>1
    <3>3. pos.at < rows[l].at /\ \A s \in page : s.at < rows[l].at
      BY <1>0, <2>2, <3>2 DEF Paged
    <3> QED
      BY <1>1, <1>2, <3>2, <3>3 DEF Beyond, After
  <2>3. CASE l # row.leg
    <3>1. known[l] # status[l]
      BY <1>5, <2>3
    <3>2. InPage(l) \/ Beyond(l)
      BY <1>0, <1>3, <3>1 DEF Reachable
    <3>3. CASE Beyond(l)
      BY <1>1, <1>2, <1>13, <3>3 DEF Beyond
    <3> QED
      BY <1>12, <2>3, <3>2, <3>3
  <2> QED
    BY <2>2, <2>3
<1> QED
  BY <1>6, <1>7, <1>8, <1>10, <1>11, <1>14, <1>15 DEF IInv

\* A queued event reaches the client: later ones have later ids, and so will
\* have the rows they are saved in.
LEMMA WriteLiveStep ==
    ASSUME IInv, TInv', WriteLive
    PROVE  IInv'
<1>0. /\ TInv /\ Past(Horizon) /\ Phases /\ Stored /\ Buffered /\ Covered /\ Reachable
  BY DEF IInv
<1> DEFINE b == chan.buf
           c == chan'.buf
           e == b[1]
<1>1. /\ stream = "live" /\ b # <<>> /\ chan' = [chan EXCEPT !.buf = Tail(@)]
      /\ IF IxOf[Head(b).leg] \in only THEN Frame(Head(b).leg, Head(b).status, Head(b).id)
         ELSE UNCHANGED <<known, cursor>>
      /\ UNCHANGED <<clock, producer, stream, page, pos, only, since>>
      /\ UNCHANGED <<status, sent, rows>>
  BY DEF WriteLive, producer
<1>2. b \in Seq(Event) /\ c = Tail(b) /\ chan'.open = chan.open
  <2>1. chan \in [open : BOOLEAN, buf : Seq(Event)]
    BY <1>0 DEF TInv, Types
  <2> QED
    BY <1>1, <2>1
<1>3. /\ \A k \in 1..Len(b) : /\ b[k].leg \in Leg /\ b[k].id \in Nat /\ b[k].id <= Horizon
                              /\ b[k].id <= sent[b[k].leg]
                              /\ b[k].id = sent[b[k].leg] => b[k].status = status[b[k].leg]
      /\ \A j, k \in 1..Len(b) : j < k => b[j].id < b[k].id
  BY <1>0, Shapes DEF Past, Buffered
<1> HIDE DEF b
<1>4. /\ Head(b) = e /\ Len(b) \in Nat /\ 1 \in 1..Len(b) /\ Len(Tail(b)) = Len(b) - 1
      /\ \A k \in 1..Len(Tail(b)) : Tail(b)[k] = b[k + 1] /\ k + 1 \in 1..Len(b)
  BY <1>1, <1>2, Rest
<1> HIDE DEF c
<1>5. /\ \A k \in 1..Len(c) : k \in Nat /\ c[k] = b[k + 1] /\ k + 1 \in 1..Len(b)
      /\ \A k \in 1..Len(b) : k = 1 \/ (k - 1 \in 1..Len(c) /\ c[k - 1] = b[k])
  BY <1>2, <1>4
<1>6. Batches' /\ Stored' /\ Horizon' = Horizon
  BY <1>1, ProducersRest
<1>7. \A k \in 1..Len(c) : c[k].id <= Horizon
  BY <1>3, <1>5
<1>8. e.leg \in Leg /\ e.id \in Nat /\ e.id <= Horizon /\ e.id # NoCursor
  BY <1>3, <1>4, LegAssumption
<1>9. \/ /\ IxOf[e.leg] \in only /\ cursor' = e.id /\ known'[e.leg] = e.status
         /\ \A l \in Leg \ {e.leg} : known'[l] = known[l]
      \/ IxOf[e.leg] \notin only /\ cursor' = cursor /\ known' = known
  <2>1. known \in [Leg -> Nat]
    BY <1>0 DEF TInv, Types
  <2> QED
    BY <1>1, <1>4, <1>8, <2>1 DEF Frame
<1>10. Past(Horizon)'
  <2>1. cursor' # NoCursor => cursor' <= Horizon
    BY <1>0, <1>8, <1>9 DEF Past
  <2> QED
    BY <1>0, <1>1, <1>6, <1>7, <2>1 DEF Past, c
<1>11. Buffered'
  <2>1. \A j, k \in 1..Len(c) : j < k => c[j].id < c[k].id
    <3> SUFFICES ASSUME NEW j \in 1..Len(c), NEW k \in 1..Len(c), j < k
                 PROVE  c[j].id < c[k].id
      OBVIOUS
    <3>1. j + 1 \in 1..Len(b) /\ k + 1 \in 1..Len(b) /\ j + 1 < k + 1
      BY <1>5
    <3>2. b[j + 1].id < b[k + 1].id
      BY <1>3, <3>1
    <3> QED
      BY <1>5, <3>2
  <2>2. \A k \in 1..Len(c) : /\ c[k].id <= sent[c[k].leg]
                             /\ c[k].id = sent[c[k].leg] => c[k].status = status[c[k].leg]
    BY <1>3, <1>5
  <2> QED
    BY <1>1, <2>1, <2>2 DEF Buffered, c
<1>12. Paged' /\ Phases'
  <2>1. page = {}
    BY <1>0, <1>1 DEF Phases
  <2> QED
    BY <1>1, <2>1 DEF Paged, Phases
<1>13. ASSUME NEW l \in Leg, Eligible(l)
       PROVE  \/ /\ Queued(l)' /\ sent[l] > e.id
              \/ Missed(l)' /\ sent[l] > e.id
              \/ Settled(l)' /\ known'[l] = status[l]
  <2>1. Queued(l) \/ Missed(l) \/ Settled(l)
    BY <1>0, <1>1, <1>13 DEF Covered
  <2>2. sent[l] \in Nat
    BY <1>0, Shapes
  <2>3. CASE Queued(l)
    <3>1. PICK k \in 1..Len(b) : b[k].leg = l /\ b[k].id = sent[l]
      BY <2>3 DEF Queued, b
    <3>2. CASE k = 1
      <4>1. e.leg = l /\ e.id = sent[l] /\ IxOf[e.leg] \in only
        BY <1>13, <3>1, <3>2 DEF Eligible
      <4>2. known'[l] = status[l]
        BY <1>3, <1>4, <1>9, <4>1
      <4>3. ASSUME NEW j \in 1..Len(c) PROVE c[j].leg # l
        <5> SUFFICES ASSUME c[j].leg = l PROVE FALSE
          OBVIOUS
        <5>1. j + 1 \in 1..Len(b) /\ 1 < j + 1 /\ b[j + 1].leg = l
          BY <1>5
        <5>2. b[1].id < b[j + 1].id /\ b[j + 1].id <= sent[l] /\ b[j + 1].id \in Nat
          BY <1>3, <1>4, <5>1
        <5> QED
          BY <1>8, <2>2, <4>1, <5>2
      <4>4. Settled(l)'
        BY <1>1, <4>2, <4>3 DEF Settled, Absent, c
      <4> QED
        BY <4>2, <4>4
    <3>3. CASE k # 1
      <4>1. 1 < k
        BY <3>3
      <4>2. e.id < sent[l]
        BY <1>3, <1>4, <3>1, <4>1
      <4>3. k - 1 \in 1..Len(c) /\ c[k - 1].leg = l /\ c[k - 1].id = sent'[l]
        BY <1>1, <1>5, <3>1, <3>3
      <4>4. Queued(l)'
        BY <4>3 DEF Queued, c
      <4> QED
        BY <1>8, <2>2, <4>2, <4>4
    <3> QED
      BY <3>2, <3>3
  <2>4. CASE Missed(l)
    <3>1. ~chan.open /\ \A k \in 1..Len(b) : b[k].id < sent[l]
      BY <2>4 DEF Missed, b
    <3>2. \A k \in 1..Len(c) : c[k].id < sent[l]
      BY <1>5, <3>1
    <3>3. Missed(l)'
      BY <1>1, <1>2, <3>1, <3>2 DEF Missed, c
    <3> QED
      BY <1>4, <1>8, <2>2, <3>1, <3>3
  <2>5. CASE Settled(l)
    <3>1. known[l] = status[l] /\ \A k \in 1..Len(b) : b[k].leg # l
      BY <1>1, <2>5 DEF Settled, Absent, b
    <3>2. e.leg # l /\ \A k \in 1..Len(c) : c[k].leg # l
      BY <1>4, <1>5, <3>1
    <3>3. known'[l] = status[l]
      BY <1>9, <3>1, <3>2
    <3>4. Settled(l)'
      BY <1>1, <3>2, <3>3 DEF Settled, Absent, c
    <3> QED
      BY <3>3, <3>4
  <2> QED
    BY <2>1, <2>3, <2>4, <2>5
<1>14. \A l \in Leg : (Eligible(l)' <=> Eligible(l)) /\ (Saved(l)' <=> Saved(l))
  BY <1>1 DEF Eligible, Saved
<1>15. Covered'
  BY <1>1, <1>13, <1>14 DEF Covered
<1>16. Reachable'
  <2> SUFFICES ASSUME cursor' # NoCursor, NEW l \in Leg, Eligible(l), known'[l] # status[l],
                      Saved(l)
               PROVE  rows[l].at > cursor'
    BY <1>1, <1>14 DEF Reachable
  <2>1. CASE cursor' = cursor /\ known' = known
    BY <1>0, <1>1, <2>1 DEF Reachable
  <2>2. CASE cursor' = e.id
    <3>1. sent[l] > e.id
      BY <1>13
    <3>2. sent[l] \in Nat /\ rows[l].at \in Nat
      BY <1>0, Shapes
    <3>3. rows[l].at > sent[l]
      BY <1>0, <1>8, <3>1, <3>2 DEF Stored
    <3> QED
      BY <1>8, <2>2, <3>1, <3>2, <3>3
  <2> QED
    BY <1>9, <2>1, <2>2
<1> QED
  BY <1>6, <1>10, <1>11, <1>12, <1>15, <1>16 DEF IInv

\* Nothing has been emitted: nothing is owed.
LEMMA InitDelivery == Init => IInv
<1> SUFFICES ASSUME Init PROVE IInv
  OBVIOUS
<1>1. TInv
  BY InitTypes
<1>2. /\ clock = 0 /\ chan = Closed /\ chan.buf = <<>> /\ Len(chan.buf) = 0
      /\ stream = "off" /\ page = {} /\ since = 0
      /\ \A i \in Ix : batch[i].at = 0 /\ batch[i].emit = {} /\ batch[i].save = {}
      /\ \A l \in Leg : /\ status[l] = 0 /\ sent[l] = 0 /\ rows[l].status = 0
  BY DEF Init, Closed, NoBatch
<1>3. Horizon = clock
  BY <1>2 DEF Horizon
<1>4. Past(Horizon)
  BY <1>1, <1>3 DEF TInv
<1>5. Batches /\ Stored
  <2>1. Batches
    BY <1>2 DEF Batches
  <2>2. \A l \in Leg : IxOf[l] \in Ix
    BY LegAssumption
  <2>3. \A l \in Leg : /\ Saved(l) /\ l \notin batch[IxOf[l]].save
                      /\ ~(sent[l] > 0)
    BY <1>2, <2>2 DEF Saved
  <2> QED
    BY <2>1, <2>3 DEF Stored
<1>6. Buffered /\ Paged /\ Phases /\ Covered
  BY <1>2 DEF Buffered, Paged, Phases, Covered
<1>7. Reachable
  BY <1>2 DEF Reachable, Eligible
<1> QED
  BY <1>1, <1>4, <1>5, <1>6, <1>7 DEF IInv

(***************************************************************************)
(* Delivery is at least once for any number of indexers, legs, events and  *)
(* disconnections and any limits, provided no client subscribes between an *)
(* event and its save, no connection breaks between two rows of one save   *)
(* and no stamped update is overtaken.                                     *)
(***************************************************************************)
THEOREM AtLeastOnce ==
    ASSUME ~Overlap, ~Cut, ~Lag
    PROVE  Spec => []NeverDropped
<1>1. ASSUME IInv, TInv', [Next]_vars PROVE IInv'
  <2>1. CASE UNCHANGED vars
    <3>1. /\ UNCHANGED <<status, sent, rows, server, client>>
          /\ UNCHANGED <<clock, producer>>
      BY <2>1 DEF vars, producer
    <3>2. Buffered' /\ Paged' /\ Phases' /\ Covered' /\ Reachable'
      BY <1>1, <3>1, SameView
    <3>3. Batches' /\ Stored' /\ Horizon' = Horizon
      BY <1>1, <3>1, ProducersRest
    <3>4. Past(Horizon)'
      BY <1>1, <3>1, <3>3 DEF IInv, Past, server, client
    <3> QED
      BY <1>1, <3>2, <3>3, <3>4 DEF IInv
  <2>2. ASSUME NEW i \in Ix, Produce(i) PROVE IInv'
    BY <1>1, <2>2, TransitionStep, EmitStep, StampStep, CommitStep DEF Produce
  <2>3. CASE Connect
    BY <1>1, <2>3, ConnectStep
  <2>4. CASE Disconnect
    BY <1>1, <2>4, EndStep
  <2>5. CASE Serve
    BY <1>1, <2>5, FetchStep, LiveStep, WriteRowStep, WriteLiveStep, EndStep DEF Serve
  <2> QED
    BY <1>1, <2>1, <2>2, <2>3, <2>4, <2>5 DEF Next
<1>2. IInv => NeverDropped
  <2> SUFFICES ASSUME IInv, Drained, NEW l \in Leg, IxOf[l] \in only, sent[l] > since
               PROVE  known[l] = status[l]
    BY DEF NeverDropped, Informed
  <2>1. stream = "live" /\ chan.open /\ chan.buf = <<>> /\ 1..Len(chan.buf) = {}
    BY DEF Drained
  <2>2. Queued(l) \/ Missed(l) \/ Settled(l)
    BY <2>1 DEF IInv, Covered, Eligible
  <2> QED
    BY <2>1, <2>2 DEF Queued, Missed, Settled
<1> QED
  BY <1>1, <1>2, InitDelivery, Typed, PTL DEF Spec
=============================================================================
