------------------------------- MODULE BlockScan -------------------------------
(***************************************************************************)
(* The scan of one block (scanBlock, receiptStatuses and the end of        *)
(* processBlock in internal/indexer/blocks.go; fetchBundle and bundleData  *)
(* in indexer.go; the batch requests of client.go): a sequence of requests *)
(* to a node that may move to a rival block between any two of them, with  *)
(* a way around every request that fails.                                  *)
(*                                                                         *)
(* Rivals are blocks of the same number.  A list of receipts is named by   *)
(* the block it belongs to.  A retried request either answers or fails for *)
(* good; one that is tried once may also reach a node that lags behind.    *)
(***************************************************************************)
EXTENDS Matching

CONSTANTS
    Rival,          \* blocks that compete for the number
    Tx,             \* transactions
    Content,        \* what each transaction is
    Logs,           \* the logs each emits when it succeeds
    TxsIn,          \* the transactions of each block
    Reverting,      \* those of them that fail there
    Pending,        \* transactions the tracker follows as pending
    MayReturn,      \* the node may come back to a block it has left
    LagOutlasts,    \* a node may lag behind for longer than withRetry waits
    Path,           \* "tip", "number" or "catchup": how the scan came about
    MaxFlips,       \* bound: how often the node changes its mind
    None

VARIABLES
    view,       \* the node's canonical block at the number
    flips,
    left,       \* history: the blocks it has moved away from
    supports,   \* the node serves eth_getBlockReceipts
    large,      \* WatchedCount() > serverFilterMaxAddresses
    unsupported,\* ix.blockReceiptsUnsupported
    path,
    pc,
    body,       \* d.block
    rcpt,       \* d.receipts
    chunk,      \* the block whose logs the chunk of a catch-up holds
    tried, fetched,  \* receiptStatuses: whether and what ensure brought
    byTx,       \* receiptStatuses.byTx: "unknown", "ok" or "reverted"
    todo,       \* matched transactions whose status is still wanted
    candidates, \* logs to match: [log, query, block], query 0 for receipts
    mined       \* scanBlock's result: [seen, failed, legs] of each transaction

chainVars == <<view, flips, left>>
setup == <<supports, large, path>>
vars == <<chainVars, setup, unsupported, pc, body, rcpt, chunk, tried, fetched, byTx,
          todo, candidates, mined>>

\* A log is its transaction's, and its index names it.
ASSUME ScanAssumption ==
    /\ None \notin Rival /\ MaxFlips \in Nat
    /\ TxsIn \in [Rival -> SUBSET Tx] /\ Reverting \in [Rival -> SUBSET Tx]
    /\ \A x \in Tx : \A l, m \in Logs[x] :
        /\ l.tx = x /\ l.index \notin {"native", "calldata"}
        /\ l.index = m.index => l = m

Unseen == [seen |-> FALSE, failed |-> FALSE, legs |-> {}]

\* A leg found, with the query that found it; the call's own have none.
Leg(kind, query) == [leg |-> kind, query |-> query]

LogsOf(b) == UNION {Logs[x] : x \in TxsIn[b] \ Reverting[b]}

\* Logs as the node serves them, with their block's hash.
Answer(b, found) == {[log |-> f.log, query |-> f.query, block |-> b] : f \in found}

StatusIn(b, x) == IF x \in Reverting[b] THEN "reverted" ELSE "ok"

Init ==
    /\ view \in Rival /\ flips = 0 /\ left = {}
    /\ supports \in BOOLEAN /\ large \in BOOLEAN /\ unsupported = FALSE
    /\ path \in Path /\ pc = "start"
    /\ body = (IF path = "tip" THEN view ELSE None)
    /\ rcpt = None /\ chunk = None
    /\ tried = FALSE /\ fetched = None /\ byTx = [x \in Tx |-> "unknown"]
    /\ todo = {} /\ candidates = {} /\ mined = [x \in Tx |-> Unseen]

Ended == pc \in {"done", "failed"}

\* The node reorgs, or another node answers the next request.
Flip == /\ ~Ended /\ flips < MaxFlips
        /\ view' \in Rival \ {view}
        /\ MayReturn \/ view' \notin left
        /\ left' = left \cup {view}
        /\ flips' = flips + 1
        /\ UNCHANGED <<setup, unsupported, pc, body, rcpt, chunk, tried, fetched, byTx,
                       todo, candidates, mined>>

-----------------------------------------------------------------------------
(* Fetching: fetchBundle, BlockBundles, bundleData *)

clientFilterReceipts == large /\ ~unsupported

\* noteBlockReceiptsError: only a missing method is remembered.
noteBlockReceiptsError == unsupported' = (unsupported \/ ~supports)

\* The body: the announced hash, or whatever stands at the number.
FetchBody ==
    /\ pc = "start"
    /\ body' = IF path = "tip" THEN body ELSE view
    /\ pc' = IF clientFilterReceipts THEN "receipts" ELSE "prepare"
    /\ UNCHANGED <<chainVars, setup, unsupported, rcpt, chunk, tried, fetched, byTx,
                   todo, candidates, mined>>

\* The other half of the batch, served after the first.
FetchReceipts ==
    /\ pc = "receipts"
    /\ \/ /\ supports /\ rcpt' = (IF path = "tip" THEN body ELSE view) /\ pc' = "verify"
          /\ UNCHANGED unsupported
       \/ noteBlockReceiptsError /\ pc' = "prepare" /\ UNCHANGED rcpt
    /\ UNCHANGED <<chainVars, setup, body, chunk, tried, fetched, byTx, todo, candidates,
                   mined>>

\* bundleData: receipts of another block are asked for again, by hash.
Foreign == TxsIn[rcpt] # {} /\ rcpt # body

Verify ==
    /\ pc = "verify" /\ pc' = "prepare"
    /\ \/ ~Foreign /\ UNCHANGED <<rcpt, unsupported>>
       \/ Foreign /\ rcpt' = body /\ UNCHANGED unsupported
       \/ Foreign /\ rcpt' = None /\ noteBlockReceiptsError
    /\ UNCHANGED <<chainVars, setup, body, chunk, tried, fetched, byTx, todo, candidates,
                   mined>>

\* A catch-up may hold the logs of a range since before this body was read,
\* or ask for them now; failing that, each block is queried.
FetchChunk ==
    /\ path = "catchup" /\ chunk = None /\ rcpt = None /\ pc \in {"start", "prepare"}
    /\ chunk' = view
    /\ UNCHANGED <<chainVars, setup, unsupported, pc, body, rcpt, tried, fetched, byTx,
                   todo, candidates, mined>>

-----------------------------------------------------------------------------
(* receiptStatuses *)

absorb(b) == /\ fetched' = b
             /\ byTx' = [x \in Tx |-> IF x \in TxsIn[b] THEN StatusIn(b, x) ELSE byTx[x]]

\* preload: receipts that came with the body spare the request.
\* Mutant: they are asked for once more.
preloadLazy == IF rcpt # None THEN absorb(rcpt) /\ tried' = FALSE
               ELSE UNCHANGED <<tried, fetched, byTx>>
preload == IF rcpt # None THEN absorb(rcpt) /\ tried' = TRUE
           ELSE UNCHANGED <<tried, fetched, byTx>>

\* The transactions whose call matches need their status.
Prepare ==
    /\ pc = "prepare"
    /\ preload
    /\ todo' = {x \in TxsIn[body] : match(Content[x]) # {}}
    /\ pc' = IF todo' = {} THEN "logs" ELSE "native"
    /\ UNCHANGED <<chainVars, setup, unsupported, body, rcpt, chunk, candidates, mined>>

\* ensure: one attempt, at the block's hash.
ensure ==
    /\ tried' = TRUE
    /\ \/ tried /\ UNCHANGED <<fetched, byTx, unsupported>>
       \/ ~tried /\ ~unsupported /\ supports /\ absorb(body) /\ UNCHANGED unsupported
       \/ ~tried /\ ~unsupported /\ noteBlockReceiptsError /\ UNCHANGED <<fetched, byTx>>
       \/ ~tried /\ unsupported /\ UNCHANGED <<fetched, byTx, unsupported>>

Ensure ==
    /\ pc = "native" /\ pc' = "batch"
    /\ ensure
    /\ UNCHANGED <<chainVars, setup, body, rcpt, chunk, todo, candidates, mined>>

\* preloadStatuses: one batch for two or more, of which any may be missing.
PreloadStatuses ==
    /\ pc = "batch" /\ pc' = "status"
    /\ IF fetched = None /\ Cardinality(todo) >= 2
       THEN \E S \in SUBSET (todo \cap TxsIn[view]) :
               byTx' = [x \in Tx |-> IF x \in S THEN StatusIn(view, x) ELSE byTx[x]]
       ELSE UNCHANGED byTx
    /\ UNCHANGED <<chainVars, setup, unsupported, body, rcpt, chunk, tried, fetched, todo,
                   candidates, mined>>

\* failed: the status known, else the transaction's own receipt; "gone" when
\* the node does not have it.
failed(x) ==
    IF byTx[x] # "unknown" THEN {byTx[x]}
    ELSE IF x \in TxsIn[view]
    THEN {StatusIn(view, x)} \cup (IF LagOutlasts THEN {"gone"} ELSE {})
    ELSE {"gone"}

-----------------------------------------------------------------------------
(* scanBlock *)

\* The status of one match.  A reverted transaction reports what it intended,
\* a successful one its native leg; one whose receipt is gone is passed over.
Found(x, status) ==
    [seen |-> TRUE, failed |-> status = "reverted",
     legs |-> {Leg(kind, 0) : kind \in IF status = "reverted" THEN match(Content[x])
                                       ELSE match(Content[x]) \cap {"native"}}]

Status(x) ==
    /\ pc = "status" /\ x \in todo
    /\ todo' = todo \ {x}
    /\ \E status \in failed(x) :
         mined' = IF status = "gone" THEN mined
                  ELSE [mined EXCEPT ![x] = Found(x, status)]
    /\ pc' = IF todo' = {} THEN "logs" ELSE pc
    /\ UNCHANGED <<chainVars, setup, unsupported, body, rcpt, chunk, tried, fetched, byTx,
                   candidates>>

HaveLogs == path = "catchup" /\ rcpt = None /\ chunk # None

\* Where the candidate logs come from: the chunk, the block's receipts in
\* client-filter mode, else a query of the block's number.
LogSource ==
    /\ pc = "logs"
    /\ \/ /\ HaveLogs
          /\ candidates' = Answer(chunk, Filtered(LogsOf(chunk), large)) /\ pc' = "match"
          /\ UNCHANGED <<tried, fetched, byTx, unsupported>>
       \/ /\ ~HaveLogs /\ large /\ ~tried
          /\ ensure
          /\ UNCHANGED <<candidates, pc>>
       \/ /\ ~HaveLogs /\ large /\ tried /\ fetched # None
          /\ candidates' = Answer(fetched, [log : LogsOf(fetched), query : {0}])
          /\ pc' = "match"
          /\ UNCHANGED <<tried, fetched, byTx, unsupported>>
       \/ /\ ~HaveLogs /\ (large => tried /\ fetched = None)
          /\ candidates' = Answer(view, Filtered(LogsOf(view), large)) /\ pc' = "match"
          /\ UNCHANGED <<tried, fetched, byTx, unsupported>>
    /\ UNCHANGED <<chainVars, setup, body, rcpt, chunk, todo, mined>>

\* The block hash of each log is compared with the body's.
\* Mutant: logs are trusted to be the block's.
AnyLog(cand) == TRUE
OwnLog(cand) == cand.block = body

LegsFrom(x) ==
    {Leg(cand.log.index, cand.query) :
        cand \in {d \in candidates : OwnLog(d) /\ MatchLog(d.log) /\ d.log.tx = x}}

\* A transaction with logs that match is reported, with a leg for each.
WithLegs(m, legs) ==
    IF legs = {} THEN m
    ELSE [seen |-> TRUE, failed |-> m.failed, legs |-> m.legs \cup legs]

MatchLogs ==
    /\ pc = "match" /\ pc' = "close"
    /\ mined' = [x \in Tx |-> WithLegs(mined[x], LegsFrom(x))]
    /\ todo' = {x \in TxsIn[body] \cap Pending : ~mined'[x].seen}
    /\ UNCHANGED <<chainVars, setup, unsupported, body, rcpt, chunk, tried, fetched, byTx,
                   candidates>>

\* processBlock: a followed transaction the scan did not cover is closed by
\* its receipt; without one it waits for the next recheck.
Close ==
    /\ pc = "close"
    /\ \/ /\ todo = {} /\ pc' = "done"
          /\ UNCHANGED <<unsupported, tried, fetched, byTx, todo, mined>>
       \/ /\ todo # {} /\ ~tried
          /\ ensure
          /\ UNCHANGED <<pc, todo, mined>>
       \/ /\ tried
          /\ \E x \in todo :
               /\ todo' = todo \ {x}
               /\ \/ \E status \in failed(x) \ {"gone"} :
                       mined' = [mined EXCEPT ![x] = [seen |-> TRUE, legs |-> {},
                                                      failed |-> status = "reverted"]]
                  \/ byTx[x] = "unknown" /\ UNCHANGED mined
          /\ UNCHANGED <<unsupported, pc, tried, fetched, byTx>>
    /\ UNCHANGED <<chainVars, setup, body, rcpt, chunk, candidates>>

\* A request outlasts its retries: the scan, and the session, end.
Asks == \/ pc = "start"
        \/ pc = "status" /\ \E x \in todo : byTx[x] = "unknown"
        \/ pc = "logs" /\ ~HaveLogs /\ (large => tried /\ fetched = None)

GiveUp ==
    /\ Asks /\ pc' = "failed"
    /\ UNCHANGED <<chainVars, setup, unsupported, body, rcpt, chunk, tried, fetched, byTx,
                   todo, candidates, mined>>

Next == \/ Flip \/ FetchBody \/ FetchReceipts \/ Verify \/ FetchChunk \/ Prepare
        \/ Ensure \/ PreloadStatuses \/ (\E x \in Tx : Status(x))
        \/ LogSource \/ MatchLogs \/ Close \/ GiveUp

Spec == Init /\ [][Next]_vars

-----------------------------------------------------------------------------
\* The variables keep their types.
TypeOK ==
    /\ view \in Rival /\ flips \in 0..MaxFlips /\ left \subseteq Rival
    /\ unsupported \in BOOLEAN /\ tried \in BOOLEAN
    /\ {body, rcpt, chunk, fetched} \subseteq Rival \cup {None}
    /\ fetched # None => tried
    /\ byTx \in [Tx -> {"unknown", "ok", "reverted"}]
    /\ todo \subseteq Tx

(***************************************************************************)
(* What a block holds, whichever way it is scanned: the native transfers   *)
(* of successful calls and every Transfer log that touches a watched       *)
(* address, and the intention of what reverted.                            *)
(***************************************************************************)
LegsIn(b, x) ==
    LET tx == Content[x] IN
    IF x \in Reverting[b] THEN match(tx)
    ELSE {lg.index : lg \in {l \in Logs[x] : /\ l.token \in Tokens /\ l.topics = 3
                                              /\ Touches(l.from, l.to) /\ l.value > 0}}
         \cup (IF tx.value > 0 /\ Touches(tx.signer, tx.to) THEN {"native"} ELSE {})

Reported(b, x) == match(Content[x]) # {} \/ LegsIn(b, x) # {}

Whole(b) ==
    \A x \in TxsIn[b] : Reported(b, x) =>
        /\ mined[x].seen
        /\ mined[x].failed = (x \in Reverting[b])
        /\ {l.leg : l \in mined[x].legs} = LegsIn(b, x)

(***************************************************************************)
(* A finished scan of the block the node ends on has found everything in   *)
(* it, whatever failed on the way and whichever fallback was taken; only   *)
(* logs that a catch-up fetched from another chain before are excepted.    *)
(***************************************************************************)
StaleChunk == HaveLogs /\ chunk # body
FoundWhole == pc = "done" /\ body = view /\ ~StaleChunk => Whole(body)

\* The same without the exception.
AlwaysWhole == pc = "done" /\ body = view => Whole(body)

\* Receipts that were fetched with a body belong to it (bundleData).
ReceiptsVerified == pc = "prepare" /\ rcpt # None => rcpt = body

\* The scan has the block's own receipts, or no block the node has shown in
\* its place holds x with another outcome.
Vouched(x) == \/ fetched = body
              \/ \A r \in left \cup {view} :
                   x \in TxsIn[r] => StatusIn(r, x) = StatusIn(body, x)

(***************************************************************************)
(* Whatever is reported happened in the block being scanned, and is        *)
(* reported once, also when the node switched blocks between requests: its *)
(* logs always; its outcome, and with it the legs of its call, unless a    *)
(* single receipt may have been a rival's (a receipt's block is not        *)
(* compared with the block scanned).                                       *)
(***************************************************************************)
OwnTransfersOnce ==
    \A x \in Tx :
        /\ mined[x].seen => x \in TxsIn[body]
        /\ mined[x].seen /\ Vouched(x) => mined[x].failed = (x \in Reverting[body])
        /\ \A l \in mined[x].legs :
             IF l.leg \in {"native", "calldata"} THEN Vouched(x) => l.leg \in LegsIn(body, x)
             ELSE \E lg \in LogsOf(body) : lg.tx = x /\ lg.index = l.leg
        /\ \A l, m \in mined[x].legs : l.leg = m.leg => l = m

\* Every outcome reported is the block's own.
OwnOutcome == \A x \in Tx : mined[x].seen => mined[x].failed = (x \in Reverting[body])

=============================================================================
