----------------------------- MODULE PendingWatch -----------------------------
(***************************************************************************)
(* The pending watcher (internal/indexer/pending.go) and the session       *)
(* around it (runSession in indexer.go): the subscription loop, its lookup *)
(* workers and the one-time mempool snapshot, which hand matches to a      *)
(* dispatch goroutine that may be busy with blocks for any length of time. *)
(*                                                                         *)
(* Goroutines of an ended session share nothing with the next one but the  *)
(* snapshot flag, so the next session is taken to start once they are gone.*)
(***************************************************************************)
EXTENDS Naturals, Sequences, SequencesExt, FiniteSets, FiniteSetsExt

CONSTANTS
    Arrivals,       \* bound: transactions that reach the node's pool
    Matching,       \* those with a transfer of interest
    Worker,         \* lookup workers (Concurrency)
    WorkCap,        \* pendingHashBuffer
    OutCap,         \* capacity of pendingMatches
    LookupBatch,    \* pendingLookupBatch
    MaxSessions     \* bound: sessions of the process

\* Transactions are numbered in the order in which they arrive.
Hash == 1..Arrivals

ASSUME PendingAssumption ==
    /\ Arrivals \in Nat /\ Matching \subseteq Hash
    /\ WorkCap \in Nat \ {0} /\ OutCap \in Nat \ {0} /\ LookupBatch \in Nat \ {0}

VARIABLES
    offers,     \* the subscription this session gets: "full", "hashes" or "neither"
    pool,       \* the node's mempool
    sessions,
    cancelled,  \* sessionCtx
    watcher,    \* watchPending: "subscribe", "full", "hashes", "leave", "ended"
    sub,        \* the subscription channel (txCh or hashCh)
    heard,      \* what this session was notified of
    work,       \* hashes that wait for a worker
    worker,     \* [st, hashes] of each worker; its hashes came in their order
    dropped,    \* hashes dropped since the last report
    reported,   \* hashes reported as dropped in this session
    out,        \* pendingMatches
    taken,      \* mempoolSnapshot
    loader,     \* loadMempool: [st, txs]
    content,    \* what this session's snapshot held
    settled,    \* hashes matched or looked up in this session
    lost        \* hashes dropped in this session

session == <<sessions, cancelled>>
pipeline == <<work, worker, dropped, reported>>
mempool == <<taken, loader, content>>
gone == <<settled, lost>>
vars == <<offers, pool, session, watcher, sub, heard, pipeline, out, mempool, gone>>

NoWork == [st |-> "idle", hashes |-> {}]
NoLoad == [st |-> "none", txs |-> {}]

Fresh ==
    /\ cancelled' = FALSE /\ watcher' = "subscribe" /\ sub' = <<>> /\ heard' = {}
    /\ work' = <<>> /\ worker' = [w \in Worker |-> NoWork] /\ dropped' = 0 /\ reported' = 0
    /\ out' = <<>> /\ loader' = NoLoad /\ content' = {}
    /\ settled' = {} /\ lost' = {}

Init ==
    /\ offers \in {"full", "hashes", "neither"}
    /\ pool = {} /\ sessions = 1 /\ taken = FALSE
    /\ cancelled = FALSE /\ watcher = "subscribe" /\ sub = <<>> /\ heard = {}
    /\ work = <<>> /\ worker = [w \in Worker |-> NoWork] /\ dropped = 0 /\ reported = 0
    /\ out = <<>> /\ loader = NoLoad /\ content = {}
    /\ settled = {} /\ lost = {}

\* pendingMatches has room.  Mutant: for one more than its capacity.
RoomPlus == Len(out) <= OutCap
Room == Len(out) < OutCap

Subscribed == watcher \in {"full", "hashes"}

\* A transaction enters the pool; a subscription hears of it.
Arrive ==
    /\ pool # Hash
    /\ LET h == Cardinality(pool) + 1 IN
       /\ pool' = pool \cup {h}
       /\ IF Subscribed THEN sub' = Append(sub, h) /\ heard' = heard \cup {h}
          ELSE UNCHANGED <<sub, heard>>
    /\ UNCHANGED <<offers, session, watcher, pipeline, out, mempool, gone>>

-----------------------------------------------------------------------------
(* watchPending *)

\* loadMempool: the first caller of the process takes the snapshot.
StartLoad == /\ loader' = (IF taken THEN NoLoad ELSE [NoLoad EXCEPT !.st = "status"])
             /\ taken' = TRUE

\* The subscription comes first, then the snapshot; without a subscription
\* only the snapshot is left, and the watcher ends with it.
\* Mutant: the snapshot is asked for before the subscription stands.
SubscribeAfter ==
    /\ watcher = "subscribe" /\ ~cancelled
    /\ \/ /\ loader = NoLoad /\ ~taken /\ StartLoad /\ UNCHANGED watcher
       \/ /\ taken
          /\ watcher' = (IF offers = "neither" THEN "leave" ELSE offers)
          /\ UNCHANGED <<loader, taken>>
    /\ UNCHANGED <<offers, pool, session, sub, heard, pipeline, out, content, gone>>
Subscribe ==
    /\ watcher = "subscribe" /\ ~cancelled
    /\ watcher' = (IF offers = "neither" THEN "leave" ELSE offers)
    /\ StartLoad
    /\ UNCHANGED <<offers, pool, session, sub, heard, pipeline, out, content, gone>>

\* txpool_status fails, or the content is fetched, or fetching it fails.
Status ==
    /\ loader.st = "status"
    /\ \/ loader' = NoLoad
       \/ loader' = [loader EXCEPT !.st = "content"]
    /\ UNCHANGED <<offers, pool, session, watcher, sub, heard, pipeline, out, taken,
                   content, gone>>

Content ==
    /\ loader.st = "content"
    /\ \/ loader' = NoLoad /\ UNCHANGED content
       \/ /\ ~cancelled
          /\ loader' = [st |-> "match", txs |-> pool] /\ content' = pool
    /\ UNCHANGED <<offers, pool, session, watcher, sub, heard, pipeline, out, taken,
                   gone>>

\* A match of the snapshot waits for room in out, or for the session's end.
Load ==
    /\ loader.st = "match"
    /\ \/ /\ loader.txs \cap Matching = {} \/ cancelled
          /\ loader' = NoLoad /\ UNCHANGED out
       \/ \E h \in loader.txs \cap Matching :
            /\ Room
            /\ out' = Append(out, h) /\ loader' = [loader EXCEPT !.txs = @ \ {h}]
    /\ UNCHANGED <<offers, pool, session, watcher, sub, heard, pipeline, taken,
                   content, gone>>

\* consumePendingTxs: the loop itself waits for room in out.
TakeTx ==
    /\ watcher = "full" /\ sub # <<>>
    /\ LET h == Head(sub) IN
       /\ IF h \in Matching THEN Room /\ out' = Append(out, h)
          ELSE UNCHANGED out
       /\ settled' = settled \cup {h}
    /\ sub' = Tail(sub)
    /\ UNCHANGED <<offers, pool, session, watcher, heard, pipeline, mempool, lost>>

\* consumePendingHashes: the loop never waits; what finds no room is dropped
\* and counted.  Mutant: it waits for a worker.
TakeHashWaits ==
    /\ watcher = "hashes" /\ sub # <<>> /\ Len(work) < WorkCap
    /\ sub' = Tail(sub)
    /\ work' = Append(work, Head(sub))
    /\ UNCHANGED <<offers, pool, session, watcher, heard, worker, dropped, reported, out,
                   mempool, gone>>
TakeHash ==
    /\ watcher = "hashes" /\ sub # <<>>
    /\ sub' = Tail(sub)
    /\ IF Len(work) < WorkCap
       THEN work' = Append(work, Head(sub)) /\ UNCHANGED <<dropped, lost>>
       ELSE /\ dropped' = dropped + 1 /\ lost' = lost \cup {Head(sub)}
            /\ UNCHANGED work
    /\ UNCHANGED <<offers, pool, session, watcher, heard, worker, reported, out, mempool,
                   settled>>

\* Mutant: the counter is not reset.
ReportAgain ==
    /\ watcher = "hashes" /\ dropped > 0 /\ reported < Cardinality(Hash)
    /\ reported' = reported + dropped
    /\ UNCHANGED <<offers, pool, session, watcher, sub, heard, work, worker, dropped, out,
                   mempool, gone>>
Report ==
    /\ watcher = "hashes" /\ dropped > 0
    /\ reported' = reported + dropped /\ dropped' = 0
    /\ UNCHANGED <<offers, pool, session, watcher, sub, heard, work, worker, out, mempool,
                   gone>>

\* The session is over, or the subscription failed, which ends the session:
\* the workers are told, and awaited.  Over before it has subscribed, it still
\* spends the process's snapshot.
StopWatching ==
    /\ watcher \in {"subscribe", "full", "hashes"}
    /\ \/ cancelled /\ UNCHANGED cancelled
       \/ Subscribed /\ cancelled' = TRUE
    /\ watcher' = "leave"
    /\ taken' = (taken \/ watcher = "subscribe")
    /\ UNCHANGED <<offers, pool, sessions, sub, heard, pipeline, out, loader, content, gone>>

Stopped(w) == worker[w].st = "ended"

\* wg.Wait; in block-only mode the snapshot is the watcher's own.
Leave ==
    /\ watcher = "leave" /\ (offers = "neither" => loader = NoLoad)
    /\ offers = "hashes" => \A w \in Worker : Stopped(w)
    /\ watcher' = "ended"
    /\ UNCHANGED <<offers, pool, session, sub, heard, pipeline, out, mempool, gone>>

-----------------------------------------------------------------------------
(* The workers of consumePendingHashes *)

WorkerDone == cancelled \/ watcher \in {"leave", "ended"}

\* A hash, and whatever else is queued before the request goes out.
TakeWork(w) ==
    /\ worker[w].st \in {"idle", "asking"} /\ Cardinality(worker[w].hashes) < LookupBatch
    /\ work # <<>>
    /\ worker' = [worker EXCEPT ![w] = [st |-> "asking", hashes |-> @.hashes \cup {Head(work)}]]
    /\ work' = Tail(work)
    /\ UNCHANGED <<offers, pool, session, watcher, sub, heard, dropped, reported, out,
                   mempool, gone>>

\* lookupBatch: the request fails and the burst is dropped, or some hashes
\* are not found.
LookupBatchFails(w) ==
    /\ worker[w].st = "asking"
    /\ worker' = [worker EXCEPT ![w] = NoWork]
    /\ settled' = settled \cup worker[w].hashes
    /\ UNCHANGED <<offers, pool, session, watcher, sub, heard, work, dropped, reported, out,
                   mempool, lost>>

LookupBatchAnswers(w) ==
    /\ worker[w].st = "asking" /\ ~WorkerDone
    /\ \E found \in SUBSET (worker[w].hashes \cap Matching) :
        /\ worker' = [worker EXCEPT ![w] = [st |-> "emitting", hashes |-> found]]
        /\ settled' = settled \cup (worker[w].hashes \ found)
    /\ UNCHANGED <<offers, pool, session, watcher, sub, heard, work, dropped, reported, out,
                   mempool, lost>>

\* emit, once per match: room in out, or the end.  Mutant: only room.
EmitBlocking(w) ==
    /\ worker[w].st = "emitting"
    /\ IF worker[w].hashes = {}
       THEN worker' = [worker EXCEPT ![w] = NoWork] /\ UNCHANGED <<out, settled>>
       ELSE /\ Room
            /\ LET h == Min(worker[w].hashes) IN
               /\ out' = Append(out, h)
               /\ worker' = [worker EXCEPT ![w].hashes = @ \ {h}]
               /\ settled' = settled \cup {h}
    /\ UNCHANGED <<offers, pool, session, watcher, sub, heard, work, dropped, reported,
                   mempool, lost>>
Emit(w) ==
    /\ worker[w].st = "emitting"
    /\ \/ /\ worker[w].hashes = {}
          /\ worker' = [worker EXCEPT ![w] = NoWork] /\ UNCHANGED <<out, settled>>
       \/ /\ worker[w].hashes # {} /\ Room
          /\ LET h == Min(worker[w].hashes) IN
             /\ out' = Append(out, h)
             /\ worker' = [worker EXCEPT ![w].hashes = @ \ {h}]
             /\ settled' = settled \cup {h}
       \/ /\ worker[w].hashes # {} /\ WorkerDone
          /\ worker' = [worker EXCEPT ![w].st = "ended"] /\ UNCHANGED <<out, settled>>
    /\ UNCHANGED <<offers, pool, session, watcher, sub, heard, work, dropped, reported,
                   mempool, lost>>

WorkerEnds(w) ==
    /\ worker[w] = NoWork /\ WorkerDone /\ offers = "hashes"
    /\ worker' = [worker EXCEPT ![w].st = "ended"]
    /\ UNCHANGED <<offers, pool, session, watcher, sub, heard, work, dropped, reported, out,
                   mempool, gone>>

-----------------------------------------------------------------------------
(* runSession *)

\* The dispatch goroutine takes a match, in its select or in drainLive.
Dispatch ==
    /\ ~cancelled /\ out # <<>>
    /\ out' = Tail(out)
    /\ UNCHANGED <<offers, pool, session, watcher, sub, heard, pipeline, mempool, gone>>

\* The session ends for a reason of its own.
EndSession ==
    /\ ~cancelled /\ cancelled' = TRUE
    /\ UNCHANGED <<offers, pool, sessions, watcher, sub, heard, pipeline, out, mempool, gone>>

\* In block-only mode and in full mode there are no lookup workers.
AllEnded == /\ watcher = "ended" /\ loader = NoLoad
            /\ offers = "hashes" => \A w \in Worker : Stopped(w) \/ worker[w] = NoWork

\* A request for a subscription may fail this time that did not before.
Reconnect ==
    /\ cancelled /\ AllEnded /\ sessions < MaxSessions
    /\ sessions' = sessions + 1
    /\ offers' \in {"full", "hashes", "neither"}
    /\ Fresh
    /\ UNCHANGED <<pool, taken>>

Watch == Subscribe \/ TakeTx \/ TakeHash \/ Report \/ StopWatching \/ Leave
Lookup(w) == TakeWork(w) \/ LookupBatchFails(w) \/ LookupBatchAnswers(w)
             \/ Emit(w) \/ WorkerEnds(w)
LoadMempool == Status \/ Content \/ Load

Next == \/ Arrive
        \/ Watch \/ (\E w \in Worker : Lookup(w)) \/ LoadMempool
        \/ Dispatch \/ EndSession \/ Reconnect

Spec == Init /\ [][Next]_vars

(***************************************************************************)
(* The session's goroutines run and requests end.  Nothing is assumed of   *)
(* the dispatch goroutine, which may spend any time on a block, nor of the *)
(* subscription.                                                           *)
(***************************************************************************)
Fairness == /\ WF_vars(Subscribe \/ TakeTx \/ TakeHash \/ Leave)
            /\ WF_vars(cancelled /\ StopWatching)
            /\ WF_vars(LoadMempool)
            /\ \A w \in Worker : WF_vars(Lookup(w))

LiveSpec == Spec /\ Fairness

-----------------------------------------------------------------------------
\* The channels keep their capacities.
TypeOK ==
    /\ offers \in {"full", "hashes", "neither"} /\ cancelled \in BOOLEAN
    /\ watcher \in {"subscribe", "full", "hashes", "leave", "ended"}
    /\ pool \subseteq Hash /\ heard \subseteq pool /\ content \subseteq pool
    /\ sub \in Seq(Hash)
    /\ work \in Seq(Hash) /\ Len(work) <= WorkCap
    /\ out \in Seq(Hash) /\ Len(out) <= OutCap
    /\ worker \in [Worker -> [st : {"idle", "asking", "emitting", "ended"},
                              hashes : SUBSET Hash]]
    /\ \A w \in Worker : Cardinality(worker[w].hashes) <= LookupBatch
    /\ dropped \in Nat /\ reported \in Nat /\ taken \in BOOLEAN
    /\ loader \in [st : {"none", "status", "content", "match"}, txs : SUBSET Hash]
    /\ settled \subseteq heard /\ lost \subseteq heard

(***************************************************************************)
(* No notification is lost silently: while the hash loop runs, every hash  *)
(* heard of is queued, looked up, handed over or given up for a reason,    *)
(* and the hashes without room are exactly those counted.                  *)
(***************************************************************************)
Queued(h) == \/ h \in ToSet(sub) \cup ToSet(work)
             \/ \E w \in Worker : h \in worker[w].hashes
EveryHashAccounted ==
    watcher = "hashes" /\ ~cancelled =>
        /\ \A h \in heard : Queued(h) # (h \in settled \cup lost)
        /\ dropped + reported = Cardinality(lost)

(***************************************************************************)
(* The subscription stands before the snapshot is taken, so nothing slips  *)
(* between the two.                                                        *)
(***************************************************************************)
NothingSlips == Subscribed /\ content # {} => pool \subseteq heard \cup content

(***************************************************************************)
(* The hash subscription is drained however long the dispatch goroutine    *)
(* stays away: a slow block never makes the provider cut the connection.   *)
(***************************************************************************)
Drained == (watcher = "hashes" /\ sub # <<>>) ~> (sub = <<>> \/ watcher # "hashes")

(***************************************************************************)
(* Every goroutine of an ended session ends, with nobody left to read what *)
(* they have to say.                                                       *)
(***************************************************************************)
SessionEnds == cancelled ~> AllEnded

=============================================================================
