----------------------------- MODULE OldestFirst -----------------------------
(***************************************************************************)
(* The memory of endings as promised (the comments of bury and tombstoneCap*)
(* in tracker.go): the last Cap hashes buried and not revoked, in order,   *)
(* each once; one too many pushes out the earliest.                        *)
(***************************************************************************)
EXTENDS Filters, SequencesExt

CONSTANTS Hash, Cap, Ending

VARIABLE ended   \* <<hash, ending>> pairs, earliest burial first

Without(s, h) == Only(s, {r \in ToSet(s) : r[1] # h})

Latest(s) == IF Len(s) > Cap THEN Tail(s) ELSE s

Init == ended = <<>>

Bury(h, typ) == ended' = Latest(Append(Without(ended, h), <<h, typ>>))

Revoke(h) == ended' = Without(ended, h)

Next == \E h \in Hash : Revoke(h) \/ \E typ \in Ending : Bury(h, typ)

Spec == Init /\ [][Next]_ended

=============================================================================
