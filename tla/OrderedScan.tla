----------------------------- MODULE OrderedScan -----------------------------
(***************************************************************************)
(* What a scan of the blocks First..Final promises, however its fetches    *)
(* are pipelined: the blocks are processed one by one in scan order, and   *)
(* the resume point is saved only once none is left to process.            *)
(***************************************************************************)
EXTENDS Naturals, Sequences

CONSTANTS First, Final

VARIABLES
    desc,       \* newest first (catchUp) or oldest first (processRange)
    cutoff,     \* blocks up to here are older than max_catchup_age
    done,       \* the numbers processed so far
    outcome     \* "running", "saved" or "failed"

vars == <<desc, cutoff, done, outcome>>

Length == Final + 1 - First

\* The k-th number in scan order.
Num(k) == IF desc THEN Final + 1 - k ELSE First + k - 1

Init == /\ desc \in BOOLEAN
        /\ cutoff \in 0..Final /\ (~desc => cutoff = 0)
        /\ done = <<>> /\ outcome = "running"

Step == /\ outcome = "running" /\ Len(done) < Length
        /\ Num(Len(done) + 1) > cutoff
        /\ done' = Append(done, Num(Len(done) + 1))
        /\ UNCHANGED <<desc, cutoff, outcome>>

Save == /\ outcome = "running"
        /\ Len(done) = Length \/ Num(Len(done) + 1) <= cutoff
        /\ outcome' = "saved"
        /\ UNCHANGED <<desc, cutoff, done>>

Fail == /\ outcome = "running" /\ outcome' = "failed"
        /\ UNCHANGED <<desc, cutoff, done>>

Next == Step \/ Save \/ Fail

Spec == Init /\ [][Next]_vars
=============================================================================
