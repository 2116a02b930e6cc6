--------------------------- MODULE TerminalMemory ---------------------------
(***************************************************************************)
(* What the tracker remembers of transactions it has stopped following     *)
(* (Tracker.tombstones in internal/indexer/tracker.go), seen from outside: *)
(* how each remembered hash ended, for at most Cap hashes, the earliest    *)
(* buried being forgotten first.  The order of burials is left open here   *)
(* (any older hash may be the one forgotten); Tombstones.tla keeps it and  *)
(* is shown to implement this memory.                                      *)
(***************************************************************************)
EXTENDS Naturals, FiniteSets

CONSTANTS
    Hash,   \* transaction hashes
    Cap     \* tombstoneCap

ASSUME HashAssumption == IsFiniteSet(Hash)
ASSUME CapAssumption == Cap \in Nat \ {0}

\* The ways a followed transaction ends.
Terminal == {"confirmed", "failed", "dropped", "replaced"}

Memory == [Hash -> Terminal \cup {"none"}]

NoMemory == [h \in Hash |-> "none"]

Buried(m) == {h \in Hash : m[h] # "none"}

(***************************************************************************)
(* The sets of hashes that burying all of R may push out: exactly the      *)
(* excess over Cap, and members of R (the newest) only once every other    *)
(* hash is gone.                                                           *)
(***************************************************************************)
Evictions(m, R) ==
    LET kept == Buried(m) \cup R
    IN  IF Cardinality(kept) <= Cap
        THEN {{}}
        ELSE {E \in SUBSET kept :
                 /\ Cardinality(E) = Cardinality(kept) - Cap
                 /\ E \cap R # {} => (Buried(m) \ R) \subseteq E}

\* The memory after burying R as typ and forgetting E.
Bury(m, R, typ, E) ==
    [h \in Hash |-> IF h \in E THEN "none" ELSE IF h \in R THEN typ ELSE m[h]]

ExhumeNot(m, h) == m      \* mutant: the ending is not revoked

\* OnMined clears a tombstone that does not hold: the hash mined again.
Exhume(m, h) == [m EXCEPT ![h] = "none"]

=============================================================================
