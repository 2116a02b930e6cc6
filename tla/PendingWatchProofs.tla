-------------------------- MODULE PendingWatchProofs --------------------------
(***************************************************************************)
(* Proofs about the pending watcher, for any number of transactions,       *)
(* workers and sessions, and any channel capacities.                       *)
(*                                                                         *)
(* The accounting of hashes becomes inductive with three more facts: a     *)
(* hash is in one place only (HeldOnce), the pool is numbered without gaps *)
(* (PoolIsPrefix), so that a new arrival is nowhere yet, and a session     *)
(* asks for the snapshot only once it has subscribed (SnapshotAfter).      *)
(***************************************************************************)
EXTENDS PendingWatch, QueueLemmas

\* The transactions that arrived are the first ones.
PoolIsPrefix == \E n \in 0..Arrivals : pool = 1..n

\* A hash waits in one place.
HeldOnce ==
    /\ IsInjective(sub) /\ IsInjective(work) /\ ToSet(sub) \cap ToSet(work) = {}
    /\ \A w \in Worker : worker[w].hashes \cap (ToSet(sub) \cup ToSet(work)) = {}
    /\ \A v, w \in Worker : v # w => worker[v].hashes \cap worker[w].hashes = {}

\* A hash that waits was heard of and has met no end; one heard of waits or
\* has met its end.
Accounted ==
    /\ \A h : Queued(h) => h \in heard \ (settled \cup lost)
    /\ \A h \in heard : Queued(h) \/ h \in settled \cup lost

\* Every lost hash is counted once.
Counted == dropped + reported = Cardinality(lost)

\* A session that has not subscribed has no snapshot and asks for none.
SnapshotAfter == watcher = "subscribe" => loader = NoLoad /\ content = {}

IInv == /\ TypeOK /\ PoolIsPrefix /\ HeldOnce /\ Accounted /\ Counted
        /\ SnapshotAfter /\ NothingSlips

-----------------------------------------------------------------------------
\* The hashes are finitely many numbers.
LEMMA HashNumbers ==
    /\ Arrivals \in Nat /\ Hash \in SUBSET Nat /\ IsFiniteSet(Hash)
    /\ Cardinality({}) = 0 /\ ToSet(<<>>) = {} /\ IsInjective(<<>>)
<1>1. Arrivals \in Nat
  BY PendingAssumption
<1>2. Hash \in SUBSET Nat
  BY <1>1 DEF Hash
<1>3. IsFiniteSet(Hash)
  BY <1>1, FS_Interval DEF Hash
<1>4. Cardinality({}) = 0
  BY FS_EmptySet
<1>5. ToSet(<<>>) = {} /\ IsInjective(<<>>)
  BY DEF ToSet, IsInjective
<1> QED
  BY <1>1, <1>2, <1>3, <1>4, <1>5

\* A fresh session has heard of nothing.
LEMMA InitIInv == Init => IInv
<1> SUFFICES ASSUME Init PROVE IInv
  OBVIOUS
<1>1. TypeOK
  <2>1. /\ sub \in Seq(Hash) /\ work \in Seq(Hash) /\ out \in Seq(Hash)
        /\ Len(work) <= WorkCap /\ Len(out) <= OutCap
    BY PendingAssumption DEF Init
  <2>2. /\ worker \in [Worker -> [st : {"idle", "asking", "emitting", "ended"},
                                  hashes : SUBSET Hash]]
        /\ \A w \in Worker : worker[w].hashes = {}
    BY DEF Init, NoWork
  <2>3. 0 <= LookupBatch
    BY PendingAssumption
  <2>4. ASSUME NEW w \in Worker PROVE Cardinality(worker[w].hashes) <= LookupBatch
    BY <2>2, <2>3, HashNumbers
  <2> QED
    BY <2>1, <2>2, <2>4 DEF Init, TypeOK, NoLoad
<1>2. PoolIsPrefix
  BY HashNumbers DEF Init, PoolIsPrefix
<1>3. HeldOnce /\ Accounted
  BY HashNumbers DEF Init, HeldOnce, Accounted, Queued, NoWork
<1>4. Counted /\ SnapshotAfter /\ NothingSlips
  BY HashNumbers DEF Init, Counted, SnapshotAfter, NothingSlips, Subscribed
<1> QED
  BY <1>1, <1>2, <1>3, <1>4 DEF IInv

\* A step that moves no hash keeps the accounts.
LEMMA QuietAccounts ==
    ASSUME HeldOnce, Accounted, UNCHANGED <<sub, heard, work, worker, settled, lost>>
    PROVE  HeldOnce' /\ Accounted'
<1>1. HeldOnce'
  BY DEF HeldOnce
<1>2. \A h : Queued(h)' <=> Queued(h)
  BY DEF Queued
<1>3. Accounted'
  BY <1>2 DEF Accounted
<1> QED
  BY <1>1, <1>3

\* A new arrival is heard of by a subscription, and is nowhere else.
LEMMA ArriveIInv == ASSUME IInv, Arrive PROVE IInv'
<1> USE DEF IInv
<1> DEFINE h == Cardinality(pool) + 1
<1>1. PICK n \in 0..Arrivals : pool = 1..n
  BY DEF PoolIsPrefix
<1>2. /\ h = n + 1 /\ h \in Hash /\ n < Arrivals
  <2>1. Cardinality(1..n) = n
    BY HashNumbers, FS_Interval
  <2>2. n # Arrivals
    BY <1>1 DEF Arrive, Hash
  <2> QED
    BY <1>1, <2>1, <2>2, HashNumbers DEF Hash
<1>3. pool' = pool \cup {h}
  BY DEF Arrive
<1>4. UNCHANGED <<offers, session, watcher, pipeline, out, mempool, gone>>
  BY DEF Arrive
<1>5. IF Subscribed THEN sub' = Append(sub, h) /\ heard' = heard \cup {h}
      ELSE UNCHANGED <<sub, heard>>
  BY DEF Arrive
<1> HIDE DEF h
<1>6. h \notin pool /\ h \notin heard
  BY <1>1, <1>2, HashNumbers DEF TypeOK
<1>7. PoolIsPrefix'
  <2>1. pool' = 1..(n + 1) /\ n + 1 \in 0..Arrivals
    BY <1>1, <1>2, <1>3, HashNumbers
  <2> QED
    BY <2>1 DEF PoolIsPrefix
<1>8. (Counted /\ SnapshotAfter)'
  BY <1>4 DEF Counted, SnapshotAfter, pipeline, gone, mempool
<1>9. NothingSlips'
  BY <1>3, <1>4, <1>5 DEF NothingSlips, Subscribed, mempool
<1>10. CASE Subscribed
  <2>1. sub \in Seq(Hash) /\ ~Queued(h) /\ h \notin settled \cup lost
    BY <1>6 DEF TypeOK, Accounted
  <2>2. /\ sub' \in Seq(Hash) /\ ToSet(sub') = ToSet(sub) \cup {h} /\ IsInjective(sub')
    <3>1. IsInjective(sub) /\ h \notin ToSet(sub)
      BY <2>1 DEF HeldOnce, Queued
    <3>2. sub' = Append(sub, h)
      BY <1>5, <1>10
    <3> QED
      BY <1>2, <2>1, <3>1, <3>2, AppendDistinct
  <2>3. TypeOK'
    BY <1>2, <1>3, <1>4, <1>5, <1>10, <2>2
    DEF TypeOK, session, pipeline, mempool, gone
  <2>4. HeldOnce'
    BY <1>4, <2>1, <2>2 DEF HeldOnce, Queued, pipeline
  <2>5. \A g : Queued(g)' <=> Queued(g) \/ g = h
    BY <1>4, <2>2 DEF Queued, pipeline
  <2>6. Accounted'
    BY <1>4, <1>5, <1>10, <2>1, <2>5 DEF Accounted, gone
  <2> QED
    BY <1>7, <1>8, <1>9, <2>3, <2>4, <2>6
<1>11. CASE ~Subscribed
  <2>1. TypeOK'
    BY <1>2, <1>3, <1>4, <1>5, <1>11 DEF TypeOK, session, pipeline, mempool, gone
  <2>2. HeldOnce' /\ Accounted'
    BY <1>4, <1>5, <1>11, QuietAccounts DEF pipeline, gone
  <2> QED
    BY <1>7, <1>8, <1>9, <2>1, <2>2
<1> QED
  BY <1>10, <1>11

-----------------------------------------------------------------------------
(* The subscription loop *)

\* A notification taken off the subscription by the full-transaction loop is
\* settled.
LEMMA TakeTxIInv == ASSUME IInv, TakeTx PROVE IInv'
<1> USE DEF IInv
<1> DEFINE h == Head(sub)
<1>1. /\ UNCHANGED <<offers, pool, session, watcher, heard, pipeline, mempool, lost>>
      /\ settled' = settled \cup {h} /\ sub' = Tail(sub)
      /\ out' = out \/ (Room /\ out' = Append(out, h))
  BY DEF TakeTx
<1>2. sub \in Seq(Hash) /\ sub # <<>> /\ IsInjective(sub)
  BY DEF TypeOK, HeldOnce, TakeTx
<1> HIDE DEF h
<1>3. /\ sub' \in Seq(Hash) /\ h \in Hash /\ IsInjective(sub') /\ h \in ToSet(sub)
      /\ ToSet(sub') = ToSet(sub) \ {h}
  BY <1>1, <1>2, TailShift, TailDistinct DEF h
<1>4. h \in heard /\ Queued(h)
  BY <1>3 DEF Accounted, Queued
<1>5. out' \in Seq(Hash) /\ Len(out') <= OutCap
  <2>1. out \in Seq(Hash) /\ Len(out) \in Nat /\ OutCap \in Nat
    BY PendingAssumption DEF TypeOK
  <2>2. CASE out' = out
    BY <2>2 DEF TypeOK
  <2>3. CASE Room /\ out' = Append(out, h)
    BY <1>3, <2>1, <2>3, AppendDistinct DEF Room
  <2> QED
    BY <1>1, <2>2, <2>3
<1>6. TypeOK'
  BY <1>1, <1>3, <1>4, <1>5 DEF TypeOK, session, pipeline, mempool
<1>7. HeldOnce'
  BY <1>1, <1>3 DEF HeldOnce, pipeline
<1>8. \A g : Queued(g)' <=> Queued(g) /\ g # h
  BY <1>1, <1>3 DEF Queued, HeldOnce, pipeline
<1>9. Accounted'
  BY <1>1, <1>4, <1>8 DEF Accounted
<1>10. (PoolIsPrefix /\ Counted /\ SnapshotAfter /\ NothingSlips)'
  BY <1>1
  DEF PoolIsPrefix, Counted, SnapshotAfter, NothingSlips, Subscribed, pipeline, mempool
<1> QED
  BY <1>6, <1>7, <1>9, <1>10

\* A hash taken off the subscription is queued, or dropped and counted.
LEMMA TakeHashIInv == ASSUME IInv, TakeHash PROVE IInv'
<1> USE DEF IInv
<1> DEFINE h == Head(sub)
<1>1. /\ UNCHANGED <<offers, pool, session, watcher, heard, worker, reported, out, mempool,
                     settled>>
      /\ sub' = Tail(sub)
      /\ \/ Len(work) < WorkCap /\ work' = Append(work, h) /\ UNCHANGED <<dropped, lost>>
         \/ dropped' = dropped + 1 /\ lost' = lost \cup {h} /\ UNCHANGED work
  BY DEF TakeHash
<1>2. sub \in Seq(Hash) /\ sub # <<>> /\ IsInjective(sub)
  BY DEF TypeOK, HeldOnce, TakeHash
<1> HIDE DEF h
<1>3. /\ sub' \in Seq(Hash) /\ h \in Hash /\ IsInjective(sub') /\ h \in ToSet(sub)
      /\ ToSet(sub') = ToSet(sub) \ {h}
  BY <1>1, <1>2, TailShift, TailDistinct DEF h
<1>4. h \in heard /\ Queued(h) /\ h \notin settled \cup lost
  BY <1>3 DEF Accounted, Queued
<1>5. h \notin ToSet(work) /\ \A w \in Worker : h \notin worker[w].hashes
  BY <1>3 DEF HeldOnce
<1>6. (PoolIsPrefix /\ SnapshotAfter /\ NothingSlips)'
  BY <1>1 DEF PoolIsPrefix, SnapshotAfter, NothingSlips, Subscribed, mempool
<1>7. CASE Len(work) < WorkCap /\ work' = Append(work, h) /\ UNCHANGED <<dropped, lost>>
  <2>1. work \in Seq(Hash) /\ Len(work) \in Nat /\ WorkCap \in Nat
    BY PendingAssumption DEF TypeOK
  <2>2. /\ work' \in Seq(Hash) /\ Len(work') <= WorkCap
        /\ ToSet(work') = ToSet(work) \cup {h} /\ IsInjective(work')
    BY <1>3, <1>5, <1>7, <2>1, AppendDistinct DEF HeldOnce
  <2>3. TypeOK'
    BY <1>1, <1>3, <1>7, <2>2 DEF TypeOK, session, mempool
  <2>4. HeldOnce'
    BY <1>1, <1>3, <1>5, <2>2 DEF HeldOnce
  <2>5. \A g : Queued(g)' <=> Queued(g)
    BY <1>1, <1>3, <2>2 DEF Queued
  <2>6. Accounted' /\ Counted'
    BY <1>1, <1>7, <2>5 DEF Accounted, Counted
  <2> QED
    BY <1>6, <2>3, <2>4, <2>6
<1>8. CASE dropped' = dropped + 1 /\ lost' = lost \cup {h} /\ UNCHANGED work
  <2>1. Cardinality(lost') = Cardinality(lost) + 1 /\ Cardinality(lost) \in Nat
    <3>1. lost \in SUBSET Hash
      BY DEF TypeOK
    <3> QED
      BY <1>3, <1>4, <1>8, <3>1, HashNumbers, OneMore
  <2>2. TypeOK'
    BY <1>1, <1>3, <1>4, <1>8 DEF TypeOK, session, mempool
  <2>3. HeldOnce'
    BY <1>1, <1>3, <1>8 DEF HeldOnce
  <2>4. \A g : Queued(g)' <=> Queued(g) /\ g # h
    BY <1>1, <1>3, <1>5, <1>8 DEF Queued
  <2>5. Accounted'
    BY <1>1, <1>4, <1>8, <2>4 DEF Accounted
  <2>6. Counted'
    BY <1>1, <1>8, <2>1 DEF Counted, TypeOK
  <2> QED
    BY <1>6, <2>2, <2>3, <2>5, <2>6
<1> QED
  BY <1>1, <1>7, <1>8

-----------------------------------------------------------------------------
(* The workers *)

\* A worker takes over the hash that waited longest.
LEMMA TakeWorkIInv == ASSUME IInv, NEW w \in Worker, TakeWork(w) PROVE IInv'
<1> USE DEF IInv
<1> DEFINE h == Head(work)
<1>1. /\ UNCHANGED <<offers, pool, session, watcher, sub, heard, dropped, reported, out,
                     mempool, gone>>
      /\ work' = Tail(work) /\ Cardinality(worker[w].hashes) < LookupBatch
      /\ worker' = [worker EXCEPT ![w] = [st |-> "asking", hashes |-> @.hashes \cup {h}]]
  BY DEF TakeWork
<1>2. work \in Seq(Hash) /\ work # <<>> /\ IsInjective(work)
  BY DEF TypeOK, HeldOnce, TakeWork
<1> HIDE DEF h
<1>3. /\ work' \in Seq(Hash) /\ h \in Hash /\ IsInjective(work') /\ h \in ToSet(work)
      /\ ToSet(work') = ToSet(work) \ {h} /\ Len(work') = Len(work) - 1
  BY <1>1, <1>2, TailShift, TailDistinct DEF h
<1>4. worker \in [Worker -> [st : {"idle", "asking", "emitting", "ended"},
                             hashes : SUBSET Hash]]
  BY DEF TypeOK
<1>5. /\ worker' \in [Worker -> [st : {"idle", "asking", "emitting", "ended"},
                                 hashes : SUBSET Hash]]
      /\ worker'[w].hashes = worker[w].hashes \cup {h}
      /\ \A v \in Worker \ {w} : worker'[v] = worker[v]
  BY <1>1, <1>3, <1>4
<1>6. h \notin ToSet(sub) /\ \A v \in Worker : h \notin worker[v].hashes
  BY <1>3 DEF HeldOnce
<1>7. Cardinality(worker'[w].hashes) <= LookupBatch
  <2>1. worker[w].hashes \in SUBSET Hash /\ LookupBatch \in Nat
    BY <1>4, PendingAssumption
  <2>2. /\ Cardinality(worker[w].hashes) \in Nat
        /\ Cardinality(worker[w].hashes \cup {h}) = Cardinality(worker[w].hashes) + 1
    BY <1>3, <1>6, <2>1, HashNumbers, OneMore
  <2> QED
    BY <1>1, <1>5, <2>1, <2>2
<1>8. TypeOK'
  <2>1. Len(work') <= WorkCap
    BY <1>2, <1>3, PendingAssumption DEF TypeOK
  <2>2. \A v \in Worker : Cardinality(worker'[v].hashes) <= LookupBatch
    BY <1>5, <1>7 DEF TypeOK
  <2> QED
    BY <1>1, <1>3, <1>5, <2>1, <2>2 DEF TypeOK, session, mempool, gone
<1>9. HeldOnce'
  <2>1. \A v \in Worker : worker'[v].hashes \cap (ToSet(sub') \cup ToSet(work')) = {}
    BY <1>1, <1>3, <1>5, <1>6 DEF HeldOnce
  <2>2. \A u, v \in Worker : u # v => worker'[u].hashes \cap worker'[v].hashes = {}
    BY <1>5, <1>6 DEF HeldOnce
  <2> QED
    BY <1>1, <1>3, <2>1, <2>2 DEF HeldOnce
<1>10. \A g : Queued(g)' <=> Queued(g)
  <2>1. \A g : (\E v \in Worker : g \in worker'[v].hashes) <=>
                 g = h \/ (\E v \in Worker : g \in worker[v].hashes)
    BY <1>5
  <2> QED
    BY <1>1, <1>3, <2>1 DEF Queued
<1>11. Accounted' /\ Counted'
  BY <1>1, <1>10 DEF Accounted, Counted, gone
<1>12. (PoolIsPrefix /\ SnapshotAfter /\ NothingSlips)'
  BY <1>1 DEF PoolIsPrefix, SnapshotAfter, NothingSlips, Subscribed, mempool
<1> QED
  BY <1>8, <1>9, <1>11, <1>12

\* A worker keeps some of its hashes and settles the others.
LEMMA KeepSomeIInv ==
    ASSUME IInv, NEW w \in Worker, NEW K \in SUBSET worker[w].hashes,
           NEW st \in {"idle", "asking", "emitting", "ended"},
           worker' = [worker EXCEPT ![w] = [st |-> st, hashes |-> K]],
           settled' = settled \cup (worker[w].hashes \ K),
           out' \in Seq(Hash), Len(out') <= OutCap,
           UNCHANGED <<offers, pool, session, watcher, sub, heard, work, dropped, reported,
                       mempool, lost>>
    PROVE  IInv'
<1> USE DEF IInv
<1>1. /\ worker \in [Worker -> [st : {"idle", "asking", "emitting", "ended"},
                                hashes : SUBSET Hash]]
      /\ worker[w].hashes \in SUBSET Hash
  BY DEF TypeOK
<1>2. /\ worker' \in [Worker -> [st : {"idle", "asking", "emitting", "ended"},
                                 hashes : SUBSET Hash]]
      /\ worker'[w].hashes = K /\ \A v \in Worker \ {w} : worker'[v] = worker[v]
  BY <1>1
<1>3. worker[w].hashes \subseteq heard
  BY DEF Accounted, Queued
<1>4. Cardinality(K) <= LookupBatch
  <2>1. /\ Cardinality(worker[w].hashes) \in Nat /\ Cardinality(K) \in Nat
        /\ Cardinality(K) <= Cardinality(worker[w].hashes)
    <3>1. IsFiniteSet(worker[w].hashes)
      BY <1>1, HashNumbers, FS_Subset
    <3>2. IsFiniteSet(K) /\ Cardinality(K) <= Cardinality(worker[w].hashes)
      BY <3>1, FS_Subset
    <3> QED
      BY <3>1, <3>2, FS_CardinalityType
  <2> QED
    BY <2>1, PendingAssumption DEF TypeOK
<1>5. TypeOK'
  <2>1. \A v \in Worker : Cardinality(worker'[v].hashes) <= LookupBatch
    BY <1>2, <1>4 DEF TypeOK
  <2>2. settled' \subseteq heard
    BY <1>3 DEF TypeOK
  <2> QED
    BY <1>2, <2>1, <2>2 DEF TypeOK, session, mempool
<1>6. HeldOnce'
  <2>1. \A v \in Worker : worker'[v].hashes \subseteq worker[v].hashes
    BY <1>2
  <2> QED
    BY <2>1 DEF HeldOnce
<1>7. \A g : Queued(g)' <=> Queued(g) /\ g \notin worker[w].hashes \ K
  <2>1. \A g : (\E v \in Worker : g \in worker'[v].hashes) <=>
            (\E v \in Worker : g \in worker[v].hashes) /\ g \notin worker[w].hashes \ K
    BY <1>2 DEF HeldOnce
  <2> QED
    BY <2>1 DEF Queued, HeldOnce
<1>8. \A g \in worker[w].hashes : Queued(g)
  BY DEF Queued
<1>9. Accounted' /\ Counted'
  BY <1>7, <1>8 DEF Accounted, Counted
<1>10. (PoolIsPrefix /\ SnapshotAfter /\ NothingSlips)'
  BY DEF PoolIsPrefix, SnapshotAfter, NothingSlips, Subscribed, mempool
<1> QED
  BY <1>5, <1>6, <1>9, <1>10

\* Each answer to a lookup, and each match handed over, settles what it names.
LEMMA LookupIInv == ASSUME IInv, NEW w \in Worker, Lookup(w) PROVE IInv'
<1>0. /\ worker \in [Worker -> [st : {"idle", "asking", "emitting", "ended"},
                                hashes : SUBSET Hash]]
      /\ worker[w] = [st |-> worker[w].st, hashes |-> worker[w].hashes]
      /\ worker[w].st \in {"idle", "asking", "emitting", "ended"}
      /\ worker[w].hashes \in SUBSET Hash
      /\ out \in Seq(Hash) /\ Len(out) <= OutCap /\ Len(out) \in Nat /\ OutCap \in Nat
  BY PendingAssumption DEF IInv, TypeOK
<1>1. CASE LookupBatchFails(w)
  <2>1. /\ worker' = [worker EXCEPT ![w] = [st |-> "idle", hashes |-> {}]]
        /\ settled' = settled \cup (worker[w].hashes \ {})
        /\ UNCHANGED <<offers, pool, session, watcher, sub, heard, work, dropped, reported,
                       mempool, lost>>
        /\ out' = out
    BY <1>1 DEF LookupBatchFails, NoWork
  <2> QED
    BY <1>0, <2>1, KeepSomeIInv
<1>2. CASE LookupBatchAnswers(w)
  <2>1. PICK found \in SUBSET (worker[w].hashes \cap Matching) :
          /\ worker' = [worker EXCEPT ![w] = [st |-> "emitting", hashes |-> found]]
          /\ settled' = settled \cup (worker[w].hashes \ found)
    BY <1>2 DEF LookupBatchAnswers
  <2>2. /\ UNCHANGED <<offers, pool, session, watcher, sub, heard, work, dropped, reported,
                       mempool, lost>>
        /\ out' = out /\ found \in SUBSET worker[w].hashes
    BY <1>2 DEF LookupBatchAnswers
  <2> QED
    BY <1>0, <2>1, <2>2, KeepSomeIInv
<1>3. CASE Emit(w)
  <2>0. UNCHANGED <<offers, pool, session, watcher, sub, heard, work, dropped, reported,
                    mempool, lost>>
    BY <1>3 DEF Emit
  <2>1. CASE /\ worker[w].hashes = {}
             /\ worker' = [worker EXCEPT ![w] = NoWork] /\ UNCHANGED <<out, settled>>
    <3>1. /\ worker' = [worker EXCEPT ![w] = [st |-> "idle", hashes |-> {}]]
          /\ settled' = settled \cup (worker[w].hashes \ {})
      BY <2>1 DEF NoWork
    <3> QED
      BY <1>0, <2>0, <2>1, <3>1, KeepSomeIInv
  <2>2. CASE /\ worker[w].hashes # {} /\ Room
             /\ LET h == Min(worker[w].hashes) IN
                /\ out' = Append(out, h)
                /\ worker' = [worker EXCEPT ![w].hashes = @ \ {h}]
                /\ settled' = settled \cup {h}
    <3> DEFINE h == Min(worker[w].hashes)
               K == worker[w].hashes \ {h}
    <3>1. h \in worker[w].hashes
      BY <1>0, <2>2, HashNumbers, MinIsIn
    <3>2. /\ out' = Append(out, h) /\ settled' = settled \cup {h}
          /\ worker' = [worker EXCEPT ![w].hashes = K]
      BY <2>2
    <3> HIDE DEF h
    <3>3. out' \in Seq(Hash) /\ Len(out') <= OutCap
      BY <1>0, <2>2, <3>1, <3>2, AppendDistinct DEF Room
    <3>4. K \in SUBSET worker[w].hashes /\ worker[w].hashes \ K = {h}
      BY <3>1
    <3>5. worker' = [worker EXCEPT ![w] = [st |-> worker[w].st, hashes |-> K]]
      <4> HIDE DEF K
      <4>1. [worker[w] EXCEPT !.hashes = K] = [st |-> worker[w].st, hashes |-> K]
        BY <1>0
      <4>2. worker' = [worker EXCEPT ![w] = [worker[w] EXCEPT !.hashes = K]]
        BY <1>0, <3>2
      <4> QED
        BY <4>1, <4>2
    <3> HIDE DEF K
    <3>6. settled' = settled \cup (worker[w].hashes \ K)
      BY <3>2, <3>4
    <3> QED
      BY <1>0, <2>0, <3>3, <3>4, <3>5, <3>6, KeepSomeIInv
  <2>3. CASE /\ worker[w].hashes # {} /\ WorkerDone
             /\ worker' = [worker EXCEPT ![w].st = "ended"] /\ UNCHANGED <<out, settled>>
    <3>1. worker' = [worker EXCEPT ![w] = [st |-> "ended", hashes |-> worker[w].hashes]]
      <4>1. [worker[w] EXCEPT !.st = "ended"] = [st |-> "ended", hashes |-> worker[w].hashes]
        BY <1>0
      <4>2. worker' = [worker EXCEPT ![w] = [worker[w] EXCEPT !.st = "ended"]]
        BY <1>0, <2>3
      <4> QED
        BY <4>1, <4>2
    <3>2. settled' = settled \cup (worker[w].hashes \ worker[w].hashes)
      BY <2>3
    <3> QED
      BY <1>0, <2>0, <2>3, <3>1, <3>2, KeepSomeIInv
  <2> QED
    BY <1>3, <2>1, <2>2, <2>3 DEF Emit
<1>4. CASE WorkerEnds(w)
  <2>1. /\ worker' = [worker EXCEPT ![w] = [st |-> "ended", hashes |-> worker[w].hashes]]
        /\ settled' = settled \cup (worker[w].hashes \ worker[w].hashes)
    <3>1. [worker[w] EXCEPT !.st = "ended"] = [st |-> "ended", hashes |-> worker[w].hashes]
      BY <1>0
    <3>2. worker' = [worker EXCEPT ![w] = [worker[w] EXCEPT !.st = "ended"]]
      BY <1>0, <1>4 DEF WorkerEnds
    <3> QED
      BY <1>4, <3>1, <3>2 DEF WorkerEnds, gone
  <2>2. /\ UNCHANGED <<offers, pool, session, watcher, sub, heard, work, dropped, reported,
                       mempool, lost>>
        /\ out' = out
    BY <1>4 DEF WorkerEnds, gone
  <2> QED
    BY <1>0, <2>1, <2>2, KeepSomeIInv
<1> QED
  BY <1>1, <1>2, <1>3, <1>4, TakeWorkIInv DEF Lookup

-----------------------------------------------------------------------------
(* The snapshot and the session *)

\* The snapshot is asked for once the subscription stands.
LEMMA SubscribeIInv == ASSUME IInv, Subscribe PROVE IInv'
<1> USE DEF IInv
<1>1. HeldOnce' /\ Accounted'
  BY QuietAccounts DEF Subscribe, pipeline, gone
<1>2. TypeOK'
  BY DEF TypeOK, Subscribe, StartLoad, NoLoad, session, pipeline, gone
<1>3. PoolIsPrefix' /\ Counted'
  BY DEF PoolIsPrefix, Counted, Subscribe, pipeline, gone
<1>4. SnapshotAfter' /\ NothingSlips'
  BY DEF SnapshotAfter, NothingSlips, Subscribe, TypeOK
<1> QED
  BY <1>1, <1>2, <1>3, <1>4

\* A snapshot holds all of the pool it was taken of.
LEMMA LoadMempoolIInv == ASSUME IInv, LoadMempool PROVE IInv'
<1> USE DEF IInv
<1>1. /\ UNCHANGED <<offers, pool, session, watcher, sub, heard, pipeline, taken, gone>>
      /\ loader.st # "none"
  BY DEF LoadMempool, Status, Content, Load
<1>2. HeldOnce' /\ Accounted'
  BY <1>1, QuietAccounts DEF pipeline, gone
<1>3. PoolIsPrefix' /\ Counted'
  BY <1>1 DEF PoolIsPrefix, Counted, pipeline, gone
<1>4. watcher # "subscribe"
  BY <1>1 DEF SnapshotAfter, NoLoad
<1>5. /\ content' = content \/ content' = pool
      /\ loader' \in [st : {"none", "status", "content", "match"}, txs : SUBSET Hash]
      /\ out' \in Seq(Hash) /\ Len(out') <= OutCap
  <2>0. /\ loader \in [st : {"none", "status", "content", "match"}, txs : SUBSET Hash]
        /\ out \in Seq(Hash) /\ Len(out) \in Nat /\ OutCap \in Nat /\ pool \in SUBSET Hash
        /\ Len(out) <= OutCap
    BY PendingAssumption DEF TypeOK
  <2>1. CASE Status
    BY <2>0, <2>1 DEF Status, NoLoad
  <2>2. CASE Content
    BY <2>0, <2>2 DEF Content, NoLoad
  <2>3. CASE Load /\ out' = out
    BY <2>0, <2>3 DEF Load, NoLoad
  <2>4. CASE Load /\ out' # out
    <3>1. PICK h \in loader.txs \cap Matching :
            /\ Room /\ out' = Append(out, h) /\ loader' = [loader EXCEPT !.txs = @ \ {h}]
      BY <2>4 DEF Load
    <3>2. h \in Hash /\ content' = content
      BY <2>0, <2>4 DEF Load
    <3>3. out' \in Seq(Hash) /\ Len(out') <= OutCap
      BY <2>0, <3>1, <3>2, AppendDistinct DEF Room
    <3> QED
      BY <2>0, <3>1, <3>2, <3>3
  <2> QED
    BY <2>1, <2>2, <2>3, <2>4 DEF LoadMempool
<1>6. TypeOK'
  BY <1>1, <1>5 DEF TypeOK, session, pipeline, gone
<1>7. SnapshotAfter' /\ NothingSlips'
  BY <1>1, <1>4, <1>5 DEF SnapshotAfter, NothingSlips, Subscribed
<1> QED
  BY <1>2, <1>3, <1>6, <1>7

\* A report moves the count of dropped hashes, and resets it.
LEMMA ReportIInv == ASSUME IInv, Report PROVE IInv'
<1> USE DEF IInv
<1>1. HeldOnce' /\ Accounted'
  BY QuietAccounts DEF Report, gone
<1>2. TypeOK' /\ Counted'
  BY DEF TypeOK, Counted, Report, session, mempool, gone
<1>3. PoolIsPrefix' /\ SnapshotAfter' /\ NothingSlips'
  BY DEF PoolIsPrefix, SnapshotAfter, NothingSlips, Subscribed, Report, mempool
<1> QED
  BY <1>1, <1>2, <1>3

\* Ending a session, and handing a match to the dispatch goroutine, move no
\* hash of the watcher.
LEMMA SessionIInv ==
    ASSUME IInv, StopWatching \/ Leave \/ Dispatch \/ EndSession
    PROVE  IInv'
<1> USE DEF IInv
<1>1. /\ UNCHANGED <<offers, pool, sub, heard, pipeline, loader, content, gone>>
      /\ cancelled' \in BOOLEAN /\ taken' \in BOOLEAN
      /\ watcher' = watcher \/ watcher' \in {"leave", "ended"}
      /\ out' = out \/ (out # <<>> /\ out' = Tail(out))
  BY DEF TypeOK, StopWatching, Leave, Dispatch, EndSession, session, mempool
<1>2. HeldOnce' /\ Accounted'
  BY <1>1, QuietAccounts DEF pipeline, gone
<1>3. out' \in Seq(Hash) /\ Len(out') <= OutCap
  <2>1. out \in Seq(Hash) /\ Len(out) \in Nat /\ OutCap \in Nat /\ Len(out) <= OutCap
    BY PendingAssumption DEF TypeOK
  <2>2. CASE out # <<>> /\ out' = Tail(out)
    BY <2>1, <2>2, TailShift
  <2> QED
    BY <1>1, <2>1, <2>2
<1>4. TypeOK'
  BY <1>1, <1>3 DEF TypeOK, pipeline, gone
<1>5. PoolIsPrefix' /\ Counted' /\ SnapshotAfter' /\ NothingSlips'
  BY <1>1 DEF PoolIsPrefix, Counted, SnapshotAfter, NothingSlips, Subscribed,
     pipeline, gone
<1> QED
  BY <1>2, <1>4, <1>5

\* The next session starts afresh, on the same pool.
LEMMA ReconnectIInv == ASSUME IInv, Reconnect PROVE IInv'
<1> USE DEF IInv
<1>1. UNCHANGED <<pool, taken>> /\ offers' \in {"full", "hashes", "neither"}
  BY DEF Reconnect
<1>2. /\ sub' \in Seq(Hash) /\ work' \in Seq(Hash) /\ out' \in Seq(Hash)
      /\ Len(work') <= WorkCap /\ Len(out') <= OutCap
  BY PendingAssumption DEF Reconnect, Fresh
<1>3. /\ worker' \in [Worker -> [st : {"idle", "asking", "emitting", "ended"},
                                 hashes : SUBSET Hash]]
      /\ \A w \in Worker : worker'[w].hashes = {}
  BY DEF Reconnect, Fresh, NoWork
<1>4. \A w \in Worker : Cardinality(worker'[w].hashes) <= LookupBatch
  <2>1. 0 <= LookupBatch
    BY PendingAssumption
  <2> QED
    BY <2>1, <1>3, HashNumbers
<1>5. TypeOK'
  BY <1>1, <1>2, <1>3, <1>4 DEF Reconnect, Fresh, TypeOK, NoLoad
<1>6. PoolIsPrefix'
  BY <1>1 DEF PoolIsPrefix
<1>7. HeldOnce' /\ Accounted'
  BY <1>3, HashNumbers DEF Reconnect, Fresh, HeldOnce, Accounted, Queued
<1>8. Counted' /\ SnapshotAfter' /\ NothingSlips'
  BY HashNumbers DEF Reconnect, Fresh, Counted, SnapshotAfter, NothingSlips, Subscribed
<1> QED
  BY <1>5, <1>6, <1>7, <1>8

\* Every step keeps the invariant.
LEMMA NextIInv == ASSUME IInv, [Next]_vars PROVE IInv'
<1>1. CASE Watch
  BY <1>1, SubscribeIInv, TakeTxIInv, TakeHashIInv, ReportIInv, SessionIInv DEF Watch
<1>2. CASE \E w \in Worker : Lookup(w)
  BY <1>2, LookupIInv
<1>3. CASE UNCHANGED vars
  <2>1. UNCHANGED <<offers, pool, session, watcher, sub, heard, pipeline, out, mempool, gone>>
    BY <1>3 DEF vars
  <2>2. HeldOnce' /\ Accounted'
    BY <2>1, QuietAccounts DEF IInv, pipeline, gone
  <2>3. (TypeOK /\ PoolIsPrefix /\ Counted /\ SnapshotAfter /\ NothingSlips)'
    BY <2>1 DEF IInv, TypeOK, PoolIsPrefix, Counted, SnapshotAfter, NothingSlips,
       Subscribed, session, pipeline, mempool, gone
  <2> QED
    BY <2>2, <2>3 DEF IInv
<1> QED
  BY <1>1, <1>2, <1>3, ArriveIInv, LoadMempoolIInv, SessionIInv, ReconnectIInv DEF Next

\* IInv is an inductive invariant of the watcher.
LEMMA Inductive == Spec => []IInv
BY InitIInv, NextIInv, PTL DEF Spec

-----------------------------------------------------------------------------
(* What the watcher guarantees *)

\* The channels keep their capacities, and a worker its batch.
THEOREM TypeCorrect == Spec => []TypeOK
<1>1. IInv => TypeOK
  BY DEF IInv
<1> QED
  BY <1>1, Inductive, PTL

\* While the hash loop runs, every hash heard of is on its way or has met its
\* end, never both, and exactly the hashes without room are counted as dropped.
THEOREM NothingLostSilently == Spec => []EveryHashAccounted
<1>1. ASSUME IInv PROVE EveryHashAccounted
  <2>1. ASSUME NEW h \in heard PROVE Queued(h) # (h \in settled \cup lost)
    <3>1. Queued(h) => ~(h \in settled \cup lost)
      BY <1>1 DEF IInv, Accounted
    <3>2. Queued(h) \/ h \in settled \cup lost
      BY <1>1 DEF IInv, Accounted
    <3>3. Queued(h) \in BOOLEAN
      BY DEF Queued
    <3> QED
      BY <3>1, <3>2, <3>3
  <2>2. dropped + reported = Cardinality(lost)
    BY <1>1 DEF IInv, Counted
  <2> QED
    BY <2>1, <2>2 DEF EveryHashAccounted
<1> QED
  BY <1>1, Inductive, PTL

\* Nothing slips between the subscription and the snapshot.
THEOREM SnapshotComplete == Spec => []NothingSlips
<1>1. IInv => NothingSlips
  BY DEF IInv
<1> QED
  BY <1>1, Inductive, PTL

=============================================================================
