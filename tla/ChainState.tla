----------------------------- MODULE ChainState -----------------------------
(***************************************************************************)
(* chainState (internal/indexer/chain.go): the ring buffer of recently     *)
(* processed headers and the decisions taken from it, as operators on      *)
(* c = [refs, tip].  A header is [num, hash]; the parent hash is only ever *)
(* read from an announced head.                                            *)
(***************************************************************************)
EXTENDS Naturals, FiniteSets

CONSTANTS
    RingSize,       \* depth: max(64, confirmations + 16) in the code
    AncestorChunk,  \* ancestorChunk: headers per findAncestor round trip
    NoRef           \* a ring slot, or tip, never written

ASSUME RingAssumption == /\ RingSize \in Nat \ {0}
                         /\ AncestorChunk \in Nat \ {0}

newChainState == [refs |-> [i \in 0..(RingSize - 1) |-> NoRef], tip |-> NoRef]

\* record: the slot is overwritten, the tip moves unless the header is lower.
record(c, r) ==
    [refs |-> [c.refs EXCEPT ![r.num % RingSize] = r],
     tip  |-> IF c.tip = NoRef \/ r.num >= c.tip.num THEN r ELSE c.tip]

\* at: the header recorded for number n, if its slot still holds it.
Held(c, n) == c.refs[n % RingSize] # NoRef /\ c.refs[n % RingSize].num = n
at(c, n) == c.refs[n % RingSize]

floorOf(c) == IF c.tip = NoRef \/ c.tip.num < RingSize - 1 THEN 0
              ELSE c.tip.num - (RingSize - 1)

resetTipNot(c, n) == c    \* mutant: the tip stays
resetTip(c, n) == IF Held(c, n) THEN [c EXCEPT !.tip = at(c, n)] ELSE c

\* snapshot: the headers between the floor and the tip.
snapshot(c) ==
    IF c.tip = NoRef THEN {}
    ELSE {at(c, n) : n \in {m \in floorOf(c)..c.tip.num : Held(c, m)}}

\* classify: how an announced head [num, hash, parent] relates to the tip.
classify(c, h) ==
    IF c.tip = NoRef \/ (h.parent = c.tip.hash /\ h.num = c.tip.num + 1)
    THEN "extend"
    ELSE IF h.num > c.tip.num + 1 THEN "gap"
    ELSE IF h.num <= c.tip.num /\ Held(c, h.num) /\ at(c, h.num).hash = h.hash
    THEN "stale" ELSE "reorg"

-----------------------------------------------------------------------------
(* findAncestor walks down from a number to the ring's floor, comparing    *)
(* the held headers with the node's, AncestorChunk of them per request.    *)
Candidates(c, from) == {n \in (floorOf(c) + 1)..from : Held(c, n)}

\* The highest AncestorChunk candidates: the next request.
NextChunk(c, from) ==
    LET all == Candidates(c, from)
    IN  {n \in all : Cardinality({m \in all : m > n}) < AncestorChunk}

Top(S) == CHOOSE n \in S : \A m \in S : m <= n
Bottom(S) == CHOOSE n \in S : \A m \in S : m >= n

\* Rebuilding the ring from saved headers, in ascending order.
Rebuilt(refs) ==
    IF refs = {} THEN newChainState
    ELSE LET tip == CHOOSE r \in refs : \A q \in refs : q.num <= r.num
         IN  [refs |-> [i \in 0..(RingSize - 1) |->
                 LET here == {r \in refs : r.num % RingSize = i}
                 IN  IF here = {} THEN NoRef
                     ELSE CHOOSE r \in here : \A q \in here : q.num <= r.num],
              tip |-> tip]

=============================================================================
