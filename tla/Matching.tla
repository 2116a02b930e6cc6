------------------------------- MODULE Matching -------------------------------
(***************************************************************************)
(* The matcher (internal/indexer/matcher.go) and the log filters built     *)
(* from it (transferTopicFilters in blocks.go): which transfers of a       *)
(* transaction or a log touch a watched address.                           *)
(*                                                                         *)
(* A transaction is [signer, to, value, input]; input is the decoded call  *)
(* data, [method, from, to, amount].  A log is [tx, index, token, topics,  *)
(* from, to, value]; topics = 3 for an ERC-20 transfer.                    *)
(***************************************************************************)
EXTENDS Naturals, Sequences, FiniteSets

CONSTANTS
    Watched,        \* watched addresses
    Tokens          \* watched token contracts

Touches(from, to) == from \in Watched \/ to \in Watched

\* direction: the side that is watched; a transfer between two is "self".
direction(from, to) ==
    CASE from \in Watched /\ to \in Watched -> "self"
      [] to \in Watched   -> "in"
      [] from \in Watched -> "out"
      [] OTHER            -> "none"

\* decodeERC20Transfer: transfer moves the signer's tokens, transferFrom
\* those of the owner it names.
decodeERC20Transfer(signer, input) ==
    CASE input.method = "transfer"     -> {[input EXCEPT !.from = signer]}
      [] input.method = "transferFrom" -> {input}
      [] OTHER                         -> {}

\* match: the native leg and, for a call of a watched token, the intended
\* token leg.  Nothing is reported that moves no value.
match(tx) ==
    LET native == direction(tx.signer, tx.to) # "none" /\ tx.value > 0
        call   == \E d \in decodeERC20Transfer(tx.signer, tx.input) :
                      /\ tx.to \in Tokens /\ direction(d.from, d.to) # "none"
                      /\ d.amount > 0
    IN  (IF native THEN {"native"} ELSE {}) \cup (IF call THEN {"calldata"} ELSE {})

MatchLog(lg) ==
    /\ lg.token \in Tokens /\ lg.topics = 3
    /\ direction(lg.from, lg.to) # "none"
    /\ lg.value > 0

-----------------------------------------------------------------------------
(* eth_getLogs *)

\* transferTopicFilters: incoming and outgoing, or every Transfer of the
\* watched tokens when there are too many addresses to name.
\* Mutant: only incoming transfers are asked for.
transferTopicFiltersIn(large) == IF large THEN <<"any">> ELSE <<"to">>
transferTopicFilters(large) == IF large THEN <<"any">> ELSE <<"to", "from">>

\* What the node selects: further topics do not matter to it.
Selected(filter, logs) ==
    {lg \in logs : /\ lg.token \in Tokens
                   /\ filter = "to" => lg.to \in Watched
                   /\ filter = "from" => lg.from \in Watched}

\* The answers to all filters, each log with the query it answers; a transfer
\* between two watched addresses is in both answers and is taken once.
Filtered(logs, large) ==
    LET fs == transferTopicFilters(large)
    IN  {c \in [log : logs, query : 1..Len(fs)] :
            /\ c.log \in Selected(fs[c.query], logs)
            /\ \A j \in 1..(c.query - 1) : c.log \notin Selected(fs[j], logs)}

=============================================================================
