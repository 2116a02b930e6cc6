----------------------------- MODULE MCBlockScan -----------------------------
(* Blocks a and b share a transaction that reverts in a only; e is empty.     *)
EXTENDS BlockScan, TLC

CONSTANTS a, b, e

NoInput == [method |-> "none", from |-> "me", to |-> "me", amount |-> 0]
Give(method, from, to) == [method |-> method, from |-> from, to |-> to, amount |-> 1]
Send(signer, to, value, input) ==
    [signer |-> signer, to |-> to, value |-> value, input |-> input]
Moved(x, index, topics, from, to, value) ==
    [tx |-> x, index |-> index, token |-> "usd", topics |-> topics,
     from |-> from, to |-> to, value |-> value]

\* pay: coins; call: a token transfer besides a zero-value one; swap: logs of
\* an unwatched call, one of them between two watched addresses, one of an
\* NFT, one of strangers; pull: a transferFrom.
MCContent == [pay  |-> Send("them", "me", 1, NoInput),
              call |-> Send("them", "usd", 0, Give("transfer", "usd", "me")),
              swap |-> Send("them", "dex", 1, NoInput),
              pull |-> Send("me", "usd", 1, Give("transferFrom", "mine", "them"))]

MCLogs == [pay  |-> {},
           call |-> {Moved("call", "l1", 3, "them", "me", 1),
                     Moved("call", "l2", 3, "them", "me", 0)},
           swap |-> {Moved("swap", "l3", 3, "me", "mine", 1),
                     Moved("swap", "l4", 4, "them", "me", 1),
                     Moved("swap", "l5", 3, "dex", "them", 1)},
           pull |-> {Moved("pull", "l6", 3, "mine", "them", 1)}]

MCTx == DOMAIN MCContent
MCTxsIn == (a :> MCTx) @@ (b :> {"pull", "swap"}) @@ (e :> {})
MCReverting == (a :> {"pull"}) @@ (b :> {}) @@ (e :> {})
=============================================================================
