----------------------------- MODULE MCPrefetch -----------------------------
(* Two workers that overtake each other, spans of several blocks with a      *)
(* shorter last one, and a slot buffer that fills up.                        *)
EXTENDS Prefetch

MCShapes == {[workers |-> 2, batch |-> 1, receipts |-> FALSE],
             [workers |-> 1, batch |-> 3, receipts |-> TRUE],
             [workers |-> 1, batch |-> 1, receipts |-> FALSE]}
=============================================================================
