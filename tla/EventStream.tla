----------------------------- MODULE EventStream -----------------------------
(***************************************************************************)
(* The consumer's side: indexers emit and then store what their trackers   *)
(* report (emitAll and persistEvents in internal/indexer/blocks.go), the   *)
(* hub broadcasts to live subscribers (internal/event/hub.go), and one     *)
(* client streams GET /v1/events (internal/api/api.go), replaying from the *)
(* database whatever changed since the last id it received.                *)
(*                                                                         *)
(* A leg is a number, in (tx_hash, log_index) order; its status is the     *)
(* count of the transitions it went through.  Every stamp reads a later    *)
(* clock; an event's stamp and its broadcast are one step.  The client     *)
(* follows all indexers.                                                   *)
(***************************************************************************)
EXTENDS Naturals, Sequences, FiniteSets

CONSTANTS
    Ix,             \* indexers
    Leg,            \* transfer legs
    TxOf,           \* the transaction of each leg
    IxOf,           \* the indexer of each leg
    Buffer,         \* subscriberBuffer
    Page,           \* backfillPage
    NoCursor,       \* a client without a last event id
    MaxEvents,      \* bound: transitions of each leg
    MaxDrops,       \* bound: connections the client loses
    Overlap,        \* a client may connect between an Emit and its save
    Cut,            \* a connection may break between two legs of one save
    Lag             \* another indexer may emit or store between a write's
                    \* stamp and its commit

ASSUME LegAssumption == /\ Leg \subseteq Nat \ {0} /\ IsFiniteSet(Leg)
                        /\ IxOf \in [Leg -> Ix]
                        /\ Buffer \in Nat \ {0} /\ Page \in Nat \ {0}
                        /\ NoCursor \notin Nat

VARIABLES
    clock,
    status,     \* transitions each leg went through, as emitted
    sent,       \* when the latest of them was emitted
    batch,      \* each indexer's emitAll: legs to emit, then legs to save
    rows,       \* transactions table: [status, at] of each leg
    chan,       \* the subscription: [open, buf]
    stream,     \* handleEvents: "off", "backfill" or "live"
    page,       \* rows of the current catch-up page not yet written
    pos,        \* [at, leg, more]: the keyset cursor, and whether a page follows
    only,       \* indexers the client asks for: all, or the one it names
    cursor,     \* the last id the client received
    known,      \* the status the last frame of each leg carried
    since,      \* a client without a cursor is promised what follows this
    drops

producer == <<status, sent, batch, rows>>
server == <<chan, stream, page, pos>>
client == <<only, cursor, known, since, drops>>
vars == <<clock, producer, server, client>>

NoBatch == [emit |-> {}, save |-> {}, at |-> 0]
Closed == [open |-> FALSE, buf |-> <<>>]
Start(at) == [at |-> at, leg |-> 0, more |-> TRUE]

Init ==
    /\ clock = 0
    /\ status = [l \in Leg |-> 0] /\ sent = [l \in Leg |-> 0]
    /\ batch = [i \in Ix |-> NoBatch]
    /\ rows = [l \in Leg |-> [status |-> 0, at |-> 0]]
    /\ chan = Closed /\ stream = "off" /\ page = {} /\ pos = Start(0)
    /\ only \in {Ix} \cup {{i} : i \in Ix} /\ cursor \in {0, NoCursor}
    /\ known = [l \in Leg |-> 0] /\ since = 0 /\ drops = 0

Tick == clock' = clock + 1

-----------------------------------------------------------------------------
(* emitAll *)

\* A tracker method returned events: whole transactions, at least one.
Transition(i) ==
    /\ batch[i] = NoBatch
    /\ \E L \in SUBSET {l \in Leg : IxOf[l] = i /\ status[l] < MaxEvents[l]} :
        /\ L # {}
        /\ \A l \in L, m \in Leg : TxOf[m] = TxOf[l] => m \in L
        /\ batch' = [batch EXCEPT ![i] = [emit |-> L, save |-> L, at |-> 0]]
    /\ UNCHANGED <<clock, status, sent, rows, server, client>>

\* Mutants: the event is lost instead of the subscriber; one too many queued.
BroadcastSkip(e) ==
    IF chan.open /\ Len(chan.buf) < Buffer
    THEN [chan EXCEPT !.buf = Append(@, e)] ELSE chan
BroadcastOver(e) ==
    IF ~chan.open THEN chan
    ELSE IF Len(chan.buf) <= Buffer THEN [chan EXCEPT !.buf = Append(@, e)]
    ELSE [chan EXCEPT !.open = FALSE]
\* Hub.Emit: a subscriber without room is dropped and sees its channel close.
Broadcast(e) ==
    IF ~chan.open THEN chan
    ELSE IF Len(chan.buf) < Buffer THEN [chan EXCEPT !.buf = Append(@, e)]
    ELSE [chan EXCEPT !.open = FALSE]

\* No other indexer is between its stamp and its commit.
Unhurried(i) == Lag \/ \A j \in Ix \ {i} : batch[j].at = 0

Emit(i) ==
    /\ Unhurried(i)
    /\ \E l \in batch[i].emit :
        /\ status' = [status EXCEPT ![l] = @ + 1]
        /\ sent' = [sent EXCEPT ![l] = clock + 1]
        /\ batch' = [batch EXCEPT ![i].emit = @ \ {l}]
        /\ chan' = Broadcast([leg |-> l, status |-> status[l] + 1, id |-> clock + 1])
    /\ Tick
    /\ UNCHANGED <<rows, stream, page, pos, client>>

\* The legs of one transaction of the batch, all written at once.
Legs(L, tx) == {l \in L : TxOf[l] = tx}

Write(L, at) ==
    rows' = [l \in Leg |-> IF l \in L THEN [status |-> status[l], at |-> at] ELSE rows[l]]

\* persistEvents, once every event is out: one transaction at a time.  A write
\* takes its stamp and commits later: UpdateTransactionStatus waits for the
\* write lock in between, SaveTransaction has it already.  Every write
\* succeeds; a refused one would leave its rows behind what was emitted.
Stamp(i) ==
    /\ Unhurried(i)
    /\ batch[i].emit = {} /\ batch[i].save # {} /\ batch[i].at = 0
    /\ batch' = [batch EXCEPT ![i].at = clock + 1]
    /\ Tick
    /\ UNCHANGED <<status, sent, rows, server, client>>

Commit(i) ==
    /\ batch[i].at > 0
    /\ \E l \in batch[i].save :
        LET L == Legs(batch[i].save, TxOf[l])
        IN  /\ Write(L, batch[i].at)
            /\ batch' = [batch EXCEPT ![i] = [NoBatch EXCEPT !.save = batch[i].save \ L]]
    /\ UNCHANGED <<clock, status, sent, server, client>>

-----------------------------------------------------------------------------
(* handleEvents *)

\* Emitted, not yet in the database.
Unsaved == {l \in Leg : status[l] # rows[l].status}

\* Subscribe comes before the backfill; without a cursor there is none.
Connect ==
    /\ stream = "off"
    /\ Overlap \/ cursor = NoCursor \/ Unsaved = {}
    /\ chan' = [open |-> TRUE, buf |-> <<>>]
    /\ IF cursor = NoCursor
       THEN stream' = "live" /\ since' = clock /\ UNCHANGED pos
       ELSE stream' = "backfill" /\ pos' = Start(cursor) /\ UNCHANGED since
    /\ UNCHANGED <<clock, producer, page, only, cursor, known, drops>>

\* LoadLegsUpdatedSince: rows after the keyset cursor, in its order.
\* Mutants: paging by time alone, skipping or repeating rows.
AfterTime(l) == rows[l].at > pos.at
AfterAgain(l) == rows[l].at > 0 /\ rows[l].at >= pos.at
After(l) == \/ rows[l].at > pos.at
            \/ pos.leg > 0 /\ rows[l].at = pos.at /\ l > pos.leg

Before(a, b) == \/ a.at < b.at
                \/ a.at = b.at /\ a.leg < b.leg

\* The query's answer: the first rows of those found, at most a page of them.
LoadLegsUpdatedSince ==
    LET found == {[leg |-> l, status |-> rows[l].status, at |-> rows[l].at] :
                     l \in {m \in Leg : IxOf[m] \in only /\ After(m)}}
    IN  {legs \in SUBSET found :
            /\ Cardinality(legs) <= Page
            /\ \A a \in legs, b \in found : Before(b, a) => b \in legs
            /\ legs # found => Cardinality(legs) = Page}

\* backfill: one query per page; a full page is followed by another.
LoadPage ==
    /\ stream = "backfill" /\ page = {}
    /\ IF pos.more
       THEN \E legs \in LoadLegsUpdatedSince :
            /\ page' = legs
            /\ IF Cardinality(legs) < Page THEN pos' = [pos EXCEPT !.more = FALSE]
               ELSE \E last \in legs :
                      /\ \A a \in legs \ {last} : Before(a, last)
                      /\ pos' = [at |-> last.at, leg |-> last.leg, more |-> TRUE]
            /\ UNCHANGED stream
       ELSE stream' = "live" /\ UNCHANGED <<page, pos>>
    /\ UNCHANGED <<clock, producer, chan, client>>

\* A frame reaches the client.
Frame(leg, st, id) ==
    /\ known' = [known EXCEPT ![leg] = st]
    /\ cursor' = id

WriteRow ==
    /\ \E row \in page :
        /\ \A a \in page \ {row} : Before(row, a)
        /\ Frame(row.leg, row.status, row.at)
        /\ page' = page \ {row}
    /\ UNCHANGED <<clock, producer, chan, stream, pos, only, since, drops>>

WriteLive ==
    /\ stream = "live" /\ chan.buf # <<>>
    /\ LET e == Head(chan.buf) IN
       IF IxOf[e.leg] \in only THEN Frame(e.leg, e.status, e.id)
       ELSE UNCHANGED <<known, cursor>>
    /\ chan' = [chan EXCEPT !.buf = Tail(@)]
    /\ UNCHANGED <<clock, producer, stream, page, pos, only, since, drops>>

End == stream' = "off" /\ chan' = Closed /\ page' = {} /\ pos' = Start(0)

\* The hub closed the channel, and what it held has been delivered.
Dropped ==
    /\ stream = "live" /\ ~chan.open /\ chan.buf = <<>>
    /\ End
    /\ UNCHANGED <<clock, producer, client>>

\* The rows saved together with the one the client received last.
SameSave == {l \in Leg : rows[l].at = cursor /\ known[l] # rows[l].status}

Disconnect ==
    /\ stream # "off" /\ drops < MaxDrops
    /\ Cut \/ SameSave = {}
    /\ End
    /\ drops' = drops + 1
    /\ UNCHANGED <<clock, producer, only, cursor, known, since>>

-----------------------------------------------------------------------------
Produce(i) == Transition(i) \/ Emit(i) \/ Stamp(i) \/ Commit(i)
Serve == LoadPage \/ WriteRow \/ WriteLive \/ Dropped

Next == (\E i \in Ix : Produce(i)) \/ Connect \/ Serve \/ Disconnect

Spec == Init /\ [][Next]_vars

(***************************************************************************)
(* The handler's loop and an indexer's emitAll run on once started, and    *)
(* the client reconnects.                                                  *)
(***************************************************************************)
Fairness == /\ WF_vars(Serve) /\ WF_vars(Connect)
            /\ \A i \in Ix : WF_vars(Emit(i) \/ Stamp(i) \/ Commit(i))

LiveSpec == Spec /\ Fairness

-----------------------------------------------------------------------------
\* The handler's state, and the queue and page limits.
TypeOK ==
    /\ stream \in {"off", "backfill", "live"}
    /\ cursor \in (0..clock) \cup {NoCursor}
    /\ Len(chan.buf) <= Buffer /\ Cardinality(page) <= Page
    /\ \A i \in Ix : batch[i].emit \subseteq batch[i].save /\ batch[i].save \subseteq Leg
    /\ \A l \in Leg : rows[l].status <= status[l] /\ rows[l].at <= clock

\* The stream is live, nothing is queued and nothing is being emitted.
Drained == /\ stream = "live" /\ chan = [open |-> TRUE, buf |-> <<>>]
           /\ \A i \in Ix : batch[i] = NoBatch

Informed == \A l \in Leg : IxOf[l] \in only /\ sent[l] > since => known[l] = status[l]

(***************************************************************************)
(* Delivery is at-least-once: a client whose stream is live and drained    *)
(* has received the current status of every leg it asked for, as the last  *)
(* frame about it, whatever disconnections, slow reads and catch-ups went   *)
(* before.                                                                 *)
(***************************************************************************)
NeverDropped == Drained => Informed

(***************************************************************************)
(* A client that keeps reconnecting ends up informed: a dropped slow       *)
(* consumer sees its stream end, paging terminates.                        *)
(***************************************************************************)
Finished == \A l \in Leg : status[l] = MaxEvents[l]
EventuallyInformed == Finished ~> (Drained /\ Informed)

=============================================================================
