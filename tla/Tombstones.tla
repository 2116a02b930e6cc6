----------------------------- MODULE Tombstones -----------------------------
(***************************************************************************)
(* The tracker's tombstones as implemented (bury in tracker.go): a map of  *)
(* live tombstones, and a FIFO of burials whose stale entries (the hash    *)
(* was buried again, or mined again) are skipped by eviction and removed   *)
(* by compaction once there are too many.                                  *)
(***************************************************************************)
EXTENDS TerminalMemory, Filters, SequencesExt

CONSTANT MaxSeq     \* bound: burials explored

VARIABLES
    tombstones,     \* [typ, seq] of each hash, seq 0 for none
    fifo,           \* tombstoneFIFO: [hash, seq], earliest first
    seq             \* tombstoneSeq

memoryVars == <<tombstones, fifo, seq>>

None == [typ |-> "none", seq |-> 0]

MemoryInit == tombstones = [h \in Hash |-> None] /\ fifo = <<>> /\ seq = 0

Live(m) == {h \in Hash : m[h] # None}

\* A FIFO entry still stands for its hash's tombstone.
\* Mutant: any tombstone of the hash will do.
MatchesHash(m, ref) == m[ref.hash].seq > 0
Matches(m, ref) == m[ref.hash].seq = ref.seq

\* Mutant: the newest entry's tombstone goes.
EvictNewest(m, f) ==
    IF Cardinality(Live(m)) <= Cap THEN [m |-> m, f |-> f]
    ELSE [m |-> [m EXCEPT ![f[Len(f)].hash] = None], f |-> SubSeq(f, 1, Len(f) - 1)]

\* The eviction loop: entries go until one of them removes a tombstone.
Evict(m, f) ==
    IF Cardinality(Live(m)) <= Cap \/ f = <<>>
    THEN [m |-> m, f |-> f]
    ELSE LET hits == {i \in 1..Len(f) : Matches(m, f[i])}
             i == CHOOSE j \in hits : \A k \in hits : j <= k
         IN  IF hits = {} THEN [m |-> m, f |-> <<>>]
             ELSE [m |-> [m EXCEPT ![f[i].hash] = None],
                   f |-> SubSeq(f, i + 1, Len(f))]

\* The FIFO without its stale entries.
Fresh(m, f) == Only(f, {ref \in ToSet(f) : Matches(m, ref)})

CompactNever(m, f) == f     \* mutant: never compacted
Compact(m, f) == IF Len(f) > 2 * Cap THEN Fresh(m, f) ELSE f

bury(hash, typ) ==
    LET r == Evict([tombstones EXCEPT ![hash] = [typ |-> typ, seq |-> seq + 1]],
                   Append(fifo, [hash |-> hash, seq |-> seq + 1]))
    IN  /\ seq' = seq + 1
        /\ tombstones' = r.m
        /\ fifo' = Compact(r.m, r.f)

\* OnMined deletes a tombstone that does not hold; its FIFO entry stays.
\* A mined transaction's ending is `confirmed', which does.
clear(hash) ==
    /\ tombstones[hash].typ \in Terminal \ {"confirmed"}
    /\ tombstones' = [tombstones EXCEPT ![hash] = None]
    /\ UNCHANGED <<fifo, seq>>

MemoryNext == \E h \in Hash : \/ clear(h)
                              \/ /\ seq < MaxSeq
                                 /\ \E typ \in Terminal : bury(h, typ)

MemorySpec == MemoryInit /\ [][MemoryNext]_memoryVars

-----------------------------------------------------------------------------
(***************************************************************************)
(* At most Cap tombstones, and never more than twice as many FIFO entries, *)
(* each with a tombstone or superseded; every tombstone has its entry, so  *)
(* none can outlive the memory.                                            *)
(***************************************************************************)
FifoBounded ==
    /\ Cardinality(Live(tombstones)) <= Cap
    /\ Len(fifo) <= 2 * Cap
    /\ \A h \in Live(tombstones) :
        \E i \in 1..Len(fifo) : fifo[i] = [hash |-> h, seq |-> tombstones[h].seq]

(***************************************************************************)
(* The map and its FIFO behave as a queue of distinct hashes: a burial     *)
(* evicts the earliest live one and no stale entry evicts anything.        *)
(***************************************************************************)
LiveRefs == Fresh(tombstones, fifo)

OF == INSTANCE OldestFirst WITH
        Ending <- Terminal,
        ended <- [i \in 1..Len(LiveRefs) |->
                    <<LiveRefs[i].hash, tombstones[LiveRefs[i].hash].typ>>]

ForgetsOldest == OF!Spec

(***************************************************************************)
(* Every burial is one the tracker's models allow (TerminalMemory): the    *)
(* hash is remembered, and only the excess over Cap is forgotten.          *)
(***************************************************************************)
Ended(m) == [h \in Hash |-> m[h].typ]

ImplementsMemory ==
    [][IF seq' = seq
       THEN \E h \in Hash : Ended(tombstones)' = Exhume(Ended(tombstones), h)
       ELSE \E h \in Hash, typ \in Terminal :
              tombstones'[h].seq = seq' /\ \E E \in Evictions(Ended(tombstones), {h}) :
                Ended(tombstones)' = Bury(Ended(tombstones), {h}, typ, E)]_memoryVars

=============================================================================
