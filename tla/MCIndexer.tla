------------------------------ MODULE MCIndexer ------------------------------
(* p pays a watched address with a token transfer; q, of no interest, takes *)
(* the same nonce.  Bodies: an empty one and one for each transaction.      *)
EXTENDS Indexer

CONSTANTS p, q, slot, other, Height, Reorgs, Fails, Crashes, Expiries, Gossips,
          Finals, Outages, Silent, Queue, Calm

MCBody == {"e", "P", "Q"}
MCTxsIn == [b \in MCBody |-> CASE b = "P" -> {p} [] b = "Q" -> {q} [] OTHER -> {}]
MCSlotOf == [h \in {p, q} |-> slot]
MCCallLegs == [h \in {p, q} |-> IF h = p THEN {"calldata"} ELSE {}]
MCFoundLegs == [h \in {p, q} |-> IF h = p THEN {"log"} ELSE {}]
\* Two payments of different senders, in one block.
MCPairBody == {"e", "B"}
MCPairIn == [b \in MCPairBody |-> IF b = "B" THEN {p, q} ELSE {}]
MCPairSlots == [h \in {p, q} |-> IF h = p THEN slot ELSE other]
MCPairCalls == [h \in {p, q} |-> {"calldata"}]
MCPairLegs == [h \in {p, q} |-> {"log"}]
MCPairBlock == UNION {[1..n -> MCPairBody] : n \in 1..Height}

\* p also sends native value along.
MCBothCalls == [h \in {p, q} |-> IF h = p THEN {"native", "calldata"} ELSE {}]
MCBothLegs == [h \in {p, q} |-> IF h = p THEN {"native", "log"} ELSE {}]
MCNoLegs == [h \in {p, q} |-> {}]
MCGenesis == <<"e">>
MCBound == [height |-> Height, reorgs |-> Reorgs, fails |-> Fails,
            crashes |-> Crashes, expiries |-> Expiries, gossips |-> Gossips,
            finals |-> Finals, outages |-> Outages,
            silent |-> Silent, queue |-> Queue, calm |-> Calm]
MCBlock == UNION {[1..n -> MCBody] : n \in 1..Height}
=============================================================================
