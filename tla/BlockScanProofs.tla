--------------------------- MODULE BlockScanProofs ---------------------------
(***************************************************************************)
(* Proofs about BlockScan, for any blocks, transactions and logs, along    *)
(* every path and fallback.                                                *)
(*                                                                         *)
(* OwnTransfersOnce has two halves.  The logs (Owned) lean on where the    *)
(* scan is (Places, Within): what is asked about is of the body, and until *)
(* the logs are matched a transaction has legs of its call only (Plain),   *)
(* while the candidate logs are copies, one each, of the logs of one block *)
(* (OfOneBlock).  The outcomes (Told) lean on where statuses come from:    *)
(* the body's receipts, or single ones of a block the node has shown; and  *)
(* nothing has been asked before the body's receipts have been (Untold).   *)
(*                                                                         *)
(* FoundWhole needs a node that does not come back to a block it has left: *)
(* then a body that is the node's block at the end has been since it was   *)
(* read, and so is everything read after it (Current).                     *)
(***************************************************************************)
EXTENDS BlockScan, TLAPS

-----------------------------------------------------------------------------
(* The inductive invariants *)

Early == pc \in {"start", "receipts", "verify", "prepare"}
CallKinds == {"native", "calldata"}
Matched(x) == match(Content[x]) # {}

\* The steps of the scan, and what each of them has.
Places ==
    /\ TypeOK
    /\ supports \in BOOLEAN /\ large \in BOOLEAN
    /\ pc \notin {"start", "failed"} => body \in Rival
    /\ path = "tip" => body \in Rival
    /\ pc = "verify" => rcpt \in Rival
    /\ pc = "start" => rcpt = None
    /\ Early => /\ todo = {} /\ fetched = None /\ byTx = [x \in Tx |-> "unknown"]
                /\ mined = [x \in Tx |-> Unseen]

\* Results are records.
Shaped == /\ mined = [x \in Tx |-> mined[x]]
          /\ \A x \in Tx : mined[x] = [seen |-> mined[x].seen, failed |-> mined[x].failed,
                                       legs |-> mined[x].legs]

\* Until the logs are matched, the legs found are the calls' own.
Plain == pc \in {"native", "batch", "status", "logs", "match"} =>
    \A x \in Tx : mined[x].legs \subseteq {Leg(kind, 0) : kind \in CallKinds}

\* What is asked about is of the body.
Within == ~Early /\ pc # "failed" => todo \subseteq TxsIn[body]

\* The candidates are the logs of one block, one copy of each.
OneCopyEach(cands, b) ==
    /\ cands \subseteq [log : LogsOf(b), query : Nat, block : {b}]
    /\ \A i, j \in cands : i.log = j.log => i = j

OfOneBlock == pc = "match" => \E b \in Rival : OneCopyEach(candidates, b)

\* What m says of x, logs at least, is of the body, and is said once.
Own(m, x) ==
    /\ m.seen => x \in TxsIn[body]
    /\ \A l \in m.legs : l.leg \notin CallKinds =>
         \E lg \in LogsOf(body) : lg.tx = x /\ lg.index = l.leg
    /\ \A l, k \in m.legs : l.leg = k.leg => l = k

Owned == \A x \in Tx : Own(mined[x], x)

OInv == Places /\ Shaped /\ Plain /\ Within /\ OfOneBlock /\ Owned

\* What m says of the outcome of x is the body's, if x is vouched for.
Outcome(m, x) ==
    Vouched(x) => /\ m.seen => m.failed = (x \in Reverting[body])
                  /\ \A l \in m.legs : l.leg \in CallKinds => l.leg \in LegsIn(body, x)

\* Found by its logs only.
ByLogs(m, x) ==
    /\ m.seen => m.failed = FALSE /\ x \notin Reverting[body]
    /\ \A l \in m.legs : l.leg \notin CallKinds

\* Receipts that came with the body are its own, or list nothing.
Came == /\ pc \in {"start", "receipts"} => rcpt = None
        /\ pc = "prepare" => rcpt \in {None, body} \/ TxsIn[rcpt] = {}

\* A status is the body's, or came singly from a block the node has shown.
Told ==
    ~Early /\ pc # "failed" =>
        /\ fetched = body => \A x \in TxsIn[body] : byTx[x] = StatusIn(body, x)
        /\ \A x \in Tx : Vouched(x) => byTx[x] \in {"unknown", StatusIn(body, x)}

\* Before the receipts have been asked for no status has.
Untold == ~tried => /\ pc \notin {"batch", "status"}
                    /\ \A x \in Tx : byTx[x] = "unknown" /\ ByLogs(mined[x], x)

Outcomes == \A x \in Tx : /\ ~mined[x].seen => mined[x] = Unseen
                          /\ Outcome(mined[x], x)

AInv == Came /\ Told /\ Untold /\ Outcomes

\* A transaction of the body whose call has been dealt with.
Dealt(x) == mined[x] = IF Matched(x) THEN Found(x, StatusIn(body, x)) ELSE Unseen

\* Every log that matters has been brought.
Brought == \A lg \in LogsOf(body) : MatchLog(lg) =>
               \E d \in candidates : d.log = lg /\ d.block = body

\* Whatever was read, if the body is the node's block.
Current ==
    /\ rcpt \in {None, body} /\ fetched \in {None, body}
    /\ \A x \in Tx : byTx[x] \in {"unknown", StatusIn(body, x)}
    /\ pc \in {"native", "batch", "status"} =>
         \A x \in TxsIn[body] : IF x \in todo THEN Matched(x) ELSE Dealt(x)
    /\ pc \in {"logs", "match"} => \A x \in TxsIn[body] : Dealt(x)
    /\ pc = "match" /\ ~StaleChunk => Brought
    /\ pc \in {"close", "done"} /\ ~StaleChunk =>
         Whole(body) /\ \A x \in todo : ~Reported(body, x)

\* The body is the node's block, or was.
Read == /\ view \notin left
        /\ body # None => body = view \/ body \in left

WInv == Read /\ (body = view => Current)

-----------------------------------------------------------------------------
(* Matching *)

\* A call has a native and a guessed leg; the first is coins that move to or
\* from a watched address.
LEMMA MatchLegs ==
    ASSUME NEW tx
    PROVE  /\ match(tx) \subseteq CallKinds
           /\ "native" \in match(tx) <=> tx.value > 0 /\ Touches(tx.signer, tx.to)
<1>1. direction(tx.signer, tx.to) # "none" <=> Touches(tx.signer, tx.to)
  BY DEF direction, Touches
<1> QED
  BY <1>1 DEF match, CallKinds

\* A log matches if it is a transfer of a watched token, of some value, to or
\* from a watched address.
LEMMA MatchLogTouches ==
    ASSUME NEW lg
    PROVE  MatchLog(lg) <=> /\ lg.token \in Tokens /\ lg.topics = 3
                            /\ Touches(lg.from, lg.to) /\ lg.value > 0
<1>1. direction(lg.from, lg.to) # "none" <=> Touches(lg.from, lg.to)
  BY DEF direction, Touches
<1> QED
  BY <1>1 DEF MatchLog

\* The filters bring every log that matches, once.
LEMMA FilteredLogs ==
    ASSUME NEW logs, large \in BOOLEAN
    PROVE  /\ Filtered(logs, large) \subseteq [log : logs, query : Nat]
           /\ \A i, j \in Filtered(logs, large) : i.log = j.log => i = j
           /\ \A lg \in logs : MatchLog(lg) => \E f \in Filtered(logs, large) : f.log = lg
<1> DEFINE fs == transferTopicFilters(large)
           n == Len(fs)
           In(q, lg) == lg \in Selected(fs[q], logs)
           F == Filtered(logs, large)
<1>1. n = 1 \/ n = 2
  BY DEF transferTopicFilters
<1>2. F = {f \in [log : logs, query : 1..n] :
             In(f.query, f.log) /\ \A j \in 1..(f.query - 1) : ~In(j, f.log)}
  BY DEF Filtered
<1>3. \A lg \in logs : MatchLog(lg) => \E q \in 1..n : In(q, lg)
  <2> SUFFICES ASSUME NEW lg \in logs, MatchLog(lg) PROVE \E q \in 1..n : In(q, lg)
    OBVIOUS
  <2>1. lg.token \in Tokens /\ (lg.from \in Watched \/ lg.to \in Watched)
    BY MatchLogTouches DEF Touches
  <2>2. CASE large
    <3>1. fs = <<"any">>
      BY <2>2 DEF transferTopicFilters
    <3> QED
      BY <2>1, <3>1 DEF Selected
  <2>3. CASE ~large
    <3>1. fs = <<"to", "from">>
      BY <2>3 DEF transferTopicFilters
    <3>2. In(1, lg) \/ In(2, lg)
      BY <2>1, <3>1 DEF Selected
    <3> QED
      BY <3>1, <3>2
  <2> QED
    BY <2>2, <2>3
<1> HIDE DEF fs, n, In, F
<1>4. F \subseteq [log : logs, query : Nat]
  BY <1>1, <1>2
<1>5. ASSUME NEW i \in F, NEW j \in F, i.log = j.log PROVE i = j
  <2>1. /\ i \in [log : logs, query : 1..n] /\ j \in [log : logs, query : 1..n]
        /\ In(i.query, i.log) /\ \A q \in 1..(i.query - 1) : ~In(q, i.log)
        /\ In(j.query, i.log) /\ \A q \in 1..(j.query - 1) : ~In(q, i.log)
    BY <1>2, <1>5
  <2>2. i.query \in 1..n /\ j.query \in 1..n /\ n \in Nat
    BY <1>1, <2>1
  <2>3. ~(i.query < j.query) /\ ~(j.query < i.query)
    BY <2>1, <2>2
  <2>4. i.query = j.query
    BY <2>2, <2>3
  <2> QED
    BY <1>5, <2>1, <2>4
<1>6. ASSUME NEW lg \in logs, MatchLog(lg) PROVE \E f \in F : f.log = lg
  <2>1. PICK q \in 1..n : In(q, lg)
    BY <1>3, <1>6
  <2>2. \E p \in 1..n : In(p, lg) /\ \A j \in 1..(p - 1) : ~In(j, lg)
    <3>1. CASE In(1, lg)
      BY <1>1, <3>1
    <3>2. CASE ~In(1, lg)
      <4>1. q \in 1..n /\ q # 1
        BY <2>1, <3>2
      <4>2. q = 2 /\ 2 \in 1..n
        BY <1>1, <4>1
      <4> QED
        BY <2>1, <3>2, <4>2
    <3> QED
      BY <3>1, <3>2
  <2>3. PICK p \in 1..n : In(p, lg) /\ \A j \in 1..(p - 1) : ~In(j, lg)
    BY <2>2
  <2> DEFINE f == [log |-> lg, query |-> p]
  <2>4. f \in [log : logs, query : 1..n] /\ f.log = lg /\ f.query = p
    OBVIOUS
  <2> HIDE DEF f
  <2> QED
    BY <1>2, <2>3, <2>4
<1> QED
  BY <1>4, <1>5, <1>6 DEF F

\* What the node serves of block b is of b, and of nothing else.
LEMMA AnswerCopies ==
    ASSUME NEW b, NEW found, found \subseteq [log : LogsOf(b), query : Nat],
           \A i, j \in found : i.log = j.log => i = j,
           \A lg \in LogsOf(b) : MatchLog(lg) => \E f \in found : f.log = lg
    PROVE  /\ OneCopyEach(Answer(b, found), b)
           /\ \A lg \in LogsOf(b) : MatchLog(lg) =>
                \E d \in Answer(b, found) : d.log = lg /\ d.block = b
<1> DEFINE A == Answer(b, found)
           Copy(f) == [log |-> f.log, query |-> f.query, block |-> b]
<1>1. A = {Copy(f) : f \in found}
  BY DEF Answer
<1>2. \A f \in found : f.log \in LogsOf(b) /\ f.query \in Nat
  OBVIOUS
<1>3. \A f : Copy(f).log = f.log /\ Copy(f).block = b
  OBVIOUS
<1>4. A \subseteq [log : LogsOf(b), query : Nat, block : {b}]
  BY <1>1, <1>2
<1> HIDE DEF Copy, A
<1>5. \A i, j \in A : i.log = j.log => i = j
  BY <1>1, <1>3
<1>6. \A lg \in LogsOf(b) : MatchLog(lg) => \E d \in A : d.log = lg /\ d.block = b
  BY <1>1, <1>3
<1> QED
  BY <1>4, <1>5, <1>6 DEF OneCopyEach, A

\* However they are asked for: by the filters, or all of them with the receipts.
Queried(b) == Answer(b, Filtered(LogsOf(b), large))
Received(b) == Answer(b, [log : LogsOf(b), query : {0}])
Brings(cands, b) ==
    \A lg \in LogsOf(b) : MatchLog(lg) => \E d \in cands : d.log = lg /\ d.block = b

\* Both bring every log that matches, in one copy.
LEMMA AnswerBrings ==
    ASSUME NEW b, large \in BOOLEAN, NEW cands, cands = Queried(b) \/ cands = Received(b)
    PROVE  OneCopyEach(cands, b) /\ Brings(cands, b)
<1>1. CASE cands = Queried(b)
  <2> DEFINE found == Filtered(LogsOf(b), large)
  <2>1. /\ found \subseteq [log : LogsOf(b), query : Nat]
        /\ \A i, j \in found : i.log = j.log => i = j
        /\ \A lg \in LogsOf(b) : MatchLog(lg) => \E f \in found : f.log = lg
    BY FilteredLogs
  <2>2. cands = Answer(b, found)
    BY <1>1 DEF Queried
  <2> HIDE DEF found
  <2> QED
    BY <2>1, <2>2, AnswerCopies DEF Brings
<1>2. CASE cands = Received(b)
  <2> DEFINE found == [log : LogsOf(b), query : {0}]
  <2>1. found \subseteq [log : LogsOf(b), query : Nat]
    OBVIOUS
  <2>2. \A i, j \in found : i.log = j.log => i = j
    OBVIOUS
  <2>3. \A lg \in LogsOf(b) : MatchLog(lg) => \E f \in found : f.log = lg
    <3> TAKE lg \in LogsOf(b)
    <3>1. [log |-> lg, query |-> 0] \in found
      OBVIOUS
    <3> QED
      BY <3>1
  <2>4. cands = Answer(b, found)
    BY <1>2 DEF Received
  <2> HIDE DEF found
  <2> QED
    BY <2>1, <2>2, <2>3, <2>4, AnswerCopies DEF Brings
<1> QED
  BY <1>1, <1>2

-----------------------------------------------------------------------------
(* Where the scan is *)

\* absorb takes the statuses of one block.
LEMMA AbsorbTyped ==
    ASSUME NEW b \in Rival, absorb(b), byTx \in [Tx -> {"unknown", "ok", "reverted"}]
    PROVE  fetched' = b /\ byTx' \in [Tx -> {"unknown", "ok", "reverted"}]
<1>1. \A x : StatusIn(b, x) \in {"unknown", "ok", "reverted"}
  BY DEF StatusIn
<1> QED
  BY <1>1 DEF absorb

\* So do preload and ensure, or leave what is known alone.
LEMMA EnsureTyped ==
    ASSUME Places, ensure, body \in Rival
    PROVE  /\ tried' = TRUE /\ unsupported' \in BOOLEAN
           /\ byTx' \in [Tx -> {"unknown", "ok", "reverted"}]
           /\ fetched' \in Rival \cup {None}
<1>1. /\ byTx \in [Tx -> {"unknown", "ok", "reverted"}] /\ unsupported \in BOOLEAN
      /\ supports \in BOOLEAN /\ fetched \in Rival \cup {None}
  BY DEF Places, TypeOK
<1>2. absorb(body) => /\ fetched' = body
                      /\ byTx' \in [Tx -> {"unknown", "ok", "reverted"}]
  BY <1>1, AbsorbTyped
<1> QED
  BY <1>1, <1>2 DEF ensure, noteBlockReceiptsError

\* Every step leaves the scan in one of its places.
LEMMA PlacesKept == ASSUME Places, [Next]_vars PROVE Places'
<1> DEFINE Statuses == {"unknown", "ok", "reverted"}
<1>1. /\ view \in Rival /\ flips \in 0..MaxFlips /\ left \subseteq Rival /\ MaxFlips \in Nat
      /\ unsupported \in BOOLEAN /\ tried \in BOOLEAN /\ supports \in BOOLEAN /\ large \in BOOLEAN
      /\ body \in Rival \cup {None} /\ rcpt \in Rival \cup {None}
      /\ chunk \in Rival \cup {None} /\ fetched \in Rival \cup {None}
      /\ fetched # None => tried
      /\ byTx \in [Tx -> Statuses] /\ todo \subseteq Tx
      /\ None \notin Rival
  BY ScanAssumption DEF Places, TypeOK
<1>2. \A b \in Rival : TxsIn[b] \subseteq Tx
  BY ScanAssumption
<1>3. \A b, x : StatusIn(b, x) \in Statuses
  BY DEF StatusIn
<1>4. CASE UNCHANGED vars
  BY <1>4 DEF vars, chainVars, setup, Places, TypeOK, Early
<1>5. CASE Flip
  <2>1. view' \in Rival /\ left' \subseteq Rival /\ flips' \in 0..MaxFlips
    BY <1>1, <1>5 DEF Flip
  <2> QED
    BY <1>5, <2>1 DEF Flip, Ended, setup, Places, TypeOK, Early
<1>6. CASE FetchBody
  <2>1. body' \in Rival
    BY <1>1, <1>6 DEF FetchBody, Places
  <2> QED
    BY <1>1, <1>6, <2>1 DEF FetchBody, chainVars, setup, Places, TypeOK, Early
<1>7. CASE FetchReceipts
  <2>1. rcpt' \in Rival \cup {None} /\ unsupported' \in BOOLEAN /\ (pc' = "verify" => rcpt' \in Rival)
    BY <1>1, <1>7 DEF FetchReceipts, noteBlockReceiptsError, Places
  <2> QED
    BY <1>1, <1>7, <2>1 DEF FetchReceipts, chainVars, setup, Places, TypeOK, Early
<1>8. CASE Verify
  <2>1. rcpt' \in Rival \cup {None} /\ unsupported' \in BOOLEAN
    BY <1>1, <1>8 DEF Verify, noteBlockReceiptsError
  <2> QED
    BY <1>1, <1>8, <2>1 DEF Verify, chainVars, setup, Places, TypeOK, Early
<1>9. CASE FetchChunk
  BY <1>1, <1>9 DEF FetchChunk, chainVars, setup, Places, TypeOK, Early
<1>10. CASE Prepare
  <2>1. /\ tried' \in BOOLEAN /\ fetched' \in Rival \cup {None} /\ (fetched' # None => tried')
        /\ byTx' \in [Tx -> Statuses]
    <3>1. CASE rcpt # None
      <4>1. rcpt \in Rival /\ absorb(rcpt) /\ tried' = TRUE
        BY <1>1, <1>10, <3>1 DEF Prepare, preload
      <4> QED
        BY <1>1, <4>1, AbsorbTyped
    <3>2. CASE rcpt = None
      BY <1>1, <1>10, <3>2 DEF Prepare, preload
    <3> QED
      BY <3>1, <3>2
  <2>2. body \in Rival /\ todo' \subseteq Tx /\ pc' \in {"logs", "native"}
    BY <1>2, <1>10 DEF Prepare, Places
  <2> QED
    BY <1>1, <1>10, <2>1, <2>2 DEF Prepare, chainVars, setup, Places, TypeOK, Early
<1>11. CASE Ensure
  <2>1. body \in Rival
    BY <1>11 DEF Ensure, Places
  <2>2. /\ tried' = TRUE /\ unsupported' \in BOOLEAN /\ byTx' \in [Tx -> Statuses]
        /\ fetched' \in Rival \cup {None}
    BY <1>11, <2>1, EnsureTyped DEF Ensure
  <2> QED
    BY <1>1, <1>11, <2>1, <2>2 DEF Ensure, chainVars, setup, Places, TypeOK, Early
<1>12. CASE PreloadStatuses
  <2>1. byTx' \in [Tx -> Statuses]
    BY <1>1, <1>3, <1>12 DEF PreloadStatuses
  <2> QED
    BY <1>1, <1>12, <2>1 DEF PreloadStatuses, chainVars, setup, Places, TypeOK, Early
<1>13. ASSUME NEW x \in Tx, Status(x) PROVE Places'
  <2>1. todo' \subseteq Tx /\ pc' \in {"logs", "status"} /\ pc = "status"
    BY <1>1, <1>13 DEF Status
  <2> QED
    BY <1>1, <1>13, <2>1 DEF Status, chainVars, setup, Places, TypeOK, Early
<1>14. CASE LogSource
  <2>1. pc' \in {"logs", "match"} /\ body \in Rival /\ pc = "logs"
    BY <1>14 DEF LogSource, Places
  <2>2. /\ tried' \in BOOLEAN /\ unsupported' \in BOOLEAN /\ byTx' \in [Tx -> Statuses]
        /\ fetched' \in Rival \cup {None} /\ (fetched' # None => tried')
    BY <1>1, <1>14, <2>1, EnsureTyped DEF LogSource
  <2> QED
    BY <1>1, <1>14, <2>1, <2>2 DEF LogSource, chainVars, setup, Places, TypeOK, Early
<1>15. CASE MatchLogs
  <2>1. body \in Rival /\ todo' \subseteq TxsIn[body] /\ pc' = "close"
    BY <1>15 DEF MatchLogs, Places
  <2>2. UNCHANGED <<chainVars, setup, unsupported, body, rcpt, chunk, tried, fetched, byTx>>
    BY <1>15 DEF MatchLogs
  <2>3. todo' \subseteq Tx
    BY <1>2, <2>1
  <2> QED
    BY <1>1, <2>1, <2>2, <2>3 DEF chainVars, setup, Places, TypeOK, Early
<1>16. CASE Close
  <2>1. todo' \subseteq Tx /\ pc' \in {"close", "done"} /\ pc = "close" /\ body \in Rival
    BY <1>1, <1>16 DEF Close, Places
  <2>2. /\ tried' \in BOOLEAN /\ unsupported' \in BOOLEAN /\ byTx' \in [Tx -> Statuses]
        /\ fetched' \in Rival \cup {None} /\ (fetched' # None => tried')
    BY <1>1, <1>16, <2>1, EnsureTyped DEF Close
  <2> QED
    BY <1>1, <1>16, <2>1, <2>2 DEF Close, chainVars, setup, Places, TypeOK, Early
<1>17. CASE GiveUp
  BY <1>1, <1>17 DEF GiveUp, chainVars, setup, Places, TypeOK, Early
<1> QED
  BY <1>4, <1>5, <1>6, <1>7, <1>8, <1>9, <1>10, <1>11, <1>12, <1>13, <1>14, <1>15, <1>16, <1>17
     DEF Next

-----------------------------------------------------------------------------
(* Own logs, once *)

Record(m) == m = [seen |-> m.seen, failed |-> m.failed, legs |-> m.legs]
CallLegs == {Leg(kind, 0) : kind \in CallKinds}

LEMMA OwnEach ==
    /\ Owned <=> \A x \in Tx : Own(mined[x], x)
    /\ Shaped <=> mined = [x \in Tx |-> mined[x]] /\ \A x \in Tx : Record(mined[x])
    /\ Plain <=> (pc \in {"native", "batch", "status", "logs", "match"} =>
                    \A x \in Tx : mined[x].legs \subseteq CallLegs)
BY DEF Owned, Shaped, Record, Plain, CallLegs

\* Legs of the call are each found once, and no logs.
LEMMA CallLegsOwn ==
    ASSUME NEW m, m.legs \subseteq CallLegs, NEW x, m.seen => x \in TxsIn[body]
    PROVE  Own(m, x)
<1>1. \A l \in m.legs : l.leg \in CallKinds
  BY DEF CallLegs, Leg
<1>2. \A l, k \in m.legs : l.leg = k.leg => l = k
  BY DEF CallLegs, Leg
<1> QED
  BY <1>1, <1>2 DEF Own

\* What is not found has none,
LEMMA UnseenOwn == ASSUME NEW x PROVE Own(Unseen, x) /\ Record(Unseen) /\ Unseen.legs \subseteq CallLegs
BY DEF Own, Record, Unseen

\* what a status settles the call's.
LEMMA FoundOwn ==
    ASSUME NEW x, x \in TxsIn[body], NEW s
    PROVE  Own(Found(x, s), x) /\ Record(Found(x, s)) /\ Found(x, s).legs \subseteq CallLegs
<1> DEFINE m == Found(x, s)
<1>1. m.legs \subseteq CallLegs
  BY MatchLegs DEF Found, CallLegs
<1>2. Record(m)
  BY DEF Record, Found
<1> HIDE DEF m
<1> QED
  BY <1>1, <1>2, CallLegsOwn DEF m

\* The legs that logs add are the body's, of the transaction, and one each.
LEMMA LogLegsOwn ==
    ASSUME NEW b \in Rival, OneCopyEach(candidates, b), body \in Rival, NEW x \in Tx
    PROVE  /\ \A l \in LegsFrom(x) : /\ l.leg \notin CallKinds /\ x \in TxsIn[body]
                                     /\ \E lg \in LogsOf(body) : lg.tx = x /\ lg.index = l.leg
           /\ \A l, k \in LegsFrom(x) : l.leg = k.leg => l = k
<1> DEFINE C == {d \in candidates : OwnLog(d) /\ MatchLog(d.log) /\ d.log.tx = x}
<1>1. LegsFrom(x) = {Leg(d.log.index, d.query) : d \in C}
  BY DEF LegsFrom
<1>2. ASSUME NEW d \in C
      PROVE  /\ d.log \in LogsOf(body) /\ d.log.tx = x /\ x \in TxsIn[body] /\ d.log \in Logs[x]
             /\ d.log.index \notin CallKinds
  <2>1. d \in candidates /\ d.block = body /\ d.log.tx = x
    BY DEF OwnLog
  <2>2. d.log \in LogsOf(body)
    BY <2>1 DEF OneCopyEach
  <2>3. PICK y \in TxsIn[body] : d.log \in Logs[y]
    BY <2>2 DEF LogsOf
  <2>4. y \in Tx
    BY <2>3, ScanAssumption
  <2>5. y = x /\ d.log.index \notin CallKinds
    BY <2>1, <2>3, <2>4, ScanAssumption DEF CallKinds
  <2> QED
    BY <2>1, <2>2, <2>3, <2>5
<1>3. \A i, j \in C : i.log = j.log => i = j
  BY DEF OneCopyEach
<1> HIDE DEF C
<1>4. \A l \in LegsFrom(x) : \E d \in C : l.leg = d.log.index /\ l = Leg(d.log.index, d.query)
  BY <1>1 DEF Leg
<1>5. ASSUME NEW l \in LegsFrom(x), NEW k \in LegsFrom(x), l.leg = k.leg PROVE l = k
  <2>1. PICK i \in C : l.leg = i.log.index /\ l = Leg(i.log.index, i.query)
    BY <1>4
  <2>2. PICK j \in C : k.leg = j.log.index /\ k = Leg(j.log.index, j.query)
    BY <1>4
  <2>3. i.log \in Logs[x] /\ j.log \in Logs[x] /\ i.log.index = j.log.index
    BY <1>2, <1>5, <2>1, <2>2
  <2>4. i.log = j.log
    BY <2>3, ScanAssumption
  <2>5. i = j
    BY <1>3, <2>4
  <2> QED
    BY <2>1, <2>2, <2>5
<1>6. ASSUME NEW l \in LegsFrom(x)
      PROVE  /\ l.leg \notin CallKinds /\ x \in TxsIn[body]
             /\ \E lg \in LogsOf(body) : lg.tx = x /\ lg.index = l.leg
  <2>1. PICK i \in C : l.leg = i.log.index
    BY <1>4
  <2> QED
    BY <1>2, <2>1
<1> QED
  BY <1>5, <1>6

\* A result with them.
LEMMA WithLegsOwn ==
    ASSUME NEW b \in Rival, OneCopyEach(candidates, b), body \in Rival, NEW x \in Tx,
           NEW m, Record(m), Own(m, x), m.legs \subseteq CallLegs
    PROVE  Own(WithLegs(m, LegsFrom(x)), x) /\ Record(WithLegs(m, LegsFrom(x)))
<1> DEFINE L == LegsFrom(x)  w == WithLegs(m, L)
<1>1. /\ \A l \in L : /\ l.leg \notin CallKinds /\ x \in TxsIn[body]
                      /\ \E lg \in LogsOf(body) : lg.tx = x /\ lg.index = l.leg
      /\ \A l, k \in L : l.leg = k.leg => l = k
  BY LogLegsOwn
<1>2. \A l \in m.legs : l.leg \in CallKinds
  BY DEF CallLegs, Leg
<1> HIDE DEF L
<1>3. CASE L = {}
  <2>1. w = m
    BY <1>3 DEF WithLegs
  <2> HIDE DEF w
  <2> QED
    BY <2>1 DEF w, L
<1>4. CASE L # {}
  <2>1. w.seen = TRUE /\ w.legs = m.legs \cup L /\ Record(w)
    BY <1>4 DEF WithLegs, Record
  <2>2. x \in TxsIn[body]
    BY <1>1, <1>4
  <2> HIDE DEF w
  <2>3. \A l, k \in w.legs : l.leg = k.leg => l = k
    BY <1>1, <1>2, <2>1 DEF Own
  <2>4. \A l \in w.legs : l.leg \notin CallKinds =>
          \E lg \in LogsOf(body) : lg.tx = x /\ lg.index = l.leg
    BY <1>1, <1>2, <2>1
  <2> QED
    BY <2>1, <2>2, <2>3, <2>4 DEF Own, w, L
<1> QED
  BY <1>3, <1>4 DEF L

-----------------------------------------------------------------------------
(* Every step keeps OInv *)

\* Where results and body stay, so does what is said of them,
LEMMA ResultsKept ==
    ASSUME Shaped, Owned, UNCHANGED <<body, mined>>
    PROVE  Shaped' /\ Owned'
<1>1. Shaped'
  BY DEF Shaped
<1>2. Owned'
  BY DEF Owned, Own
<1> QED
  BY <1>1, <1>2

\* with new results for the same body each is looked at,
LEMMA ResultsOwn ==
    ASSUME body' = body, mined' = [x \in Tx |-> mined'[x]],
           \A x \in Tx : Own(mined'[x], x) /\ Record(mined'[x])
    PROVE  Shaped' /\ Owned'
<1>1. Shaped'
  BY DEF Shaped, Record
<1>2. Owned'
  BY DEF Owned, Own
<1> QED
  BY <1>1, <1>2

\* and while nothing is found anything goes.
LEMMA ResultsBlank ==
    ASSUME mined' = [x \in Tx |-> Unseen]
    PROVE  Shaped' /\ Plain' /\ Owned'
<1>1. \A x \in Tx : mined'[x] = Unseen
  OBVIOUS
<1>2. Shaped'
  BY <1>1 DEF Shaped, Unseen
<1>3. Plain' /\ Owned'
  BY <1>1 DEF Plain, Owned, Own, Unseen
<1> QED
  BY <1>2, <1>3

\* Each step keeps the invariant of own logs.
LEMMA OwnKept == ASSUME OInv, [Next]_vars PROVE OInv'
<1>1. /\ Places /\ Shaped /\ Plain /\ Within /\ OfOneBlock /\ Owned
      /\ Places'
  BY PlacesKept DEF OInv
<1>2. /\ \A b \in Rival : TxsIn[b] \subseteq Tx
      /\ todo \subseteq Tx /\ view \in Rival /\ chunk \in Rival \cup {None}
      /\ fetched \in Rival \cup {None} /\ large \in BOOLEAN /\ None \notin Rival
      /\ Early => mined = [x \in Tx |-> Unseen]
      /\ pc \notin {"start", "failed"} => body \in Rival
  BY <1>1, ScanAssumption DEF Places, TypeOK
<1>3. ASSUME UNCHANGED <<body, mined, todo>>, ~Early, ~(pc = "failed"),
             pc' \in {"native", "batch", "status", "logs"} => pc \in {"native", "batch", "status", "logs"},
             pc' # "match"
      PROVE  OInv'
  <2>1. Shaped' /\ Owned'
    BY <1>1, <1>3, ResultsKept
  <2>2. Plain' /\ Within' /\ OfOneBlock'
    BY <1>1, <1>3 DEF Plain, Within, OfOneBlock
  <2> QED
    BY <1>1, <2>1, <2>2 DEF OInv
<1>4. ASSUME mined' = mined, Early, Within', pc' # "match"
      PROVE  OInv'
  <2>1. Shaped' /\ Plain' /\ Owned'
    BY <1>2, <1>4, ResultsBlank
  <2> QED
    BY <1>1, <1>4, <2>1 DEF OInv, OfOneBlock
<1>5. CASE UNCHANGED vars \/ Flip
  <2>1. UNCHANGED <<pc, body, mined, todo, candidates>>
    BY <1>5 DEF vars, Flip
  <2>2. Shaped' /\ Owned'
    BY <1>1, <2>1, ResultsKept
  <2>3. Plain' /\ Within' /\ OfOneBlock'
    BY <1>1, <2>1 DEF Plain, Within, OfOneBlock, Early
  <2> QED
    BY <1>1, <2>2, <2>3 DEF OInv
<1>6. CASE FetchBody \/ FetchReceipts \/ Verify \/ FetchChunk
  <2>1. mined' = mined /\ Early /\ Early' /\ pc' # "match"
    BY <1>6 DEF FetchBody, FetchReceipts, Verify, FetchChunk, Early
  <2> QED
    BY <1>4, <2>1 DEF Within
<1>7. CASE Prepare
  <2>1. /\ mined' = mined /\ Early /\ pc' # "match" /\ body' = body
        /\ todo' \subseteq TxsIn[body]
    BY <1>7 DEF Prepare, Early
  <2> QED
    BY <1>4, <2>1 DEF Within
<1>8. CASE Ensure \/ PreloadStatuses
  <2>1. /\ UNCHANGED <<body, mined, todo>> /\ pc \in {"native", "batch"}
        /\ pc' \in {"batch", "status"}
    BY <1>8 DEF Ensure, PreloadStatuses
  <2> QED
    BY <1>3, <2>1 DEF Early
<1>9. ASSUME NEW x \in Tx, Status(x) PROVE OInv'
  <2>1. /\ pc = "status" /\ x \in todo /\ todo' = todo \ {x} /\ body' = body
        /\ pc' \in {"logs", "status"}
        /\ mined' = mined \/ \E s : mined' = [mined EXCEPT ![x] = Found(x, s)]
    BY <1>9 DEF Status
  <2>2. ~Early /\ x \in TxsIn[body]
    BY <1>1, <2>1 DEF Within, Early
  <2>3. /\ mined = [y \in Tx |-> mined[y]]
        /\ \A y \in Tx : /\ Own(mined[y], y) /\ Record(mined[y])
                         /\ mined[y].legs \subseteq CallLegs
    BY <1>1, <2>1, OwnEach
  <2>4. /\ mined' = [y \in Tx |-> mined'[y]]
        /\ \A y \in Tx : /\ Own(mined'[y], y) /\ Record(mined'[y])
                         /\ mined'[y].legs \subseteq CallLegs
    <3>1. CASE mined' = mined
      BY <2>3, <3>1
    <3>2. ASSUME NEW s, mined' = [mined EXCEPT ![x] = Found(x, s)]
          PROVE  <2>4!1 /\ <2>4!2
      <4>1. /\ Own(Found(x, s), x) /\ Record(Found(x, s))
            /\ Found(x, s).legs \subseteq CallLegs
        BY <2>2, FoundOwn
      <4>2. mined' = [y \in Tx |-> IF y = x THEN Found(x, s) ELSE mined[y]]
        BY <2>3, <3>2
      <4>3. \A y \in Tx : mined'[y] = IF y = x THEN Found(x, s) ELSE mined[y]
        BY <4>2
      <4> QED
        BY <2>3, <4>1, <4>2, <4>3
    <3> QED
      BY <2>1, <3>1, <3>2
  <2>5. Shaped' /\ Owned'
    BY <2>1, <2>4, ResultsOwn
  <2>6. Plain'
    BY <2>4 DEF Plain, CallLegs
  <2>7. Within' /\ OfOneBlock'
    BY <1>1, <2>1, <2>2 DEF Within, OfOneBlock
  <2> QED
    BY <1>1, <2>5, <2>6, <2>7 DEF OInv
<1>10. CASE LogSource
  <2>1. /\ UNCHANGED <<body, mined, todo>> /\ pc = "logs" /\ pc' \in {"logs", "match"}
    BY <1>10 DEF LogSource
  <2>2. CASE pc' = "logs"
    BY <1>3, <2>1, <2>2 DEF Early
  <2>3. CASE pc' = "match"
    <3>1. Shaped' /\ Owned'
      BY <1>1, <2>1, ResultsKept
    <3>2. Plain' /\ Within'
      BY <1>1, <2>1, <2>3 DEF Plain, Within, Early
    <3>3. \E b \in Rival : OneCopyEach(candidates', b)
      <4>1. \/ HaveLogs /\ candidates' = Answer(chunk, Filtered(LogsOf(chunk), large))
            \/ fetched # None /\ candidates' = Answer(fetched, [log : LogsOf(fetched), query : {0}])
            \/ candidates' = Answer(view, Filtered(LogsOf(view), large))
        BY <1>10, <2>1, <2>3 DEF LogSource
      <4>2. PICK b \in Rival : candidates' = Queried(b) \/ candidates' = Received(b)
        BY <1>2, <4>1 DEF HaveLogs, Queried, Received
      <4>3. OneCopyEach(candidates', b)
        BY <1>2, <4>2, AnswerBrings
      <4> QED
        BY <4>3
    <3> QED
      BY <1>1, <3>1, <3>2, <3>3 DEF OInv, OfOneBlock
  <2> QED
    BY <2>1, <2>2, <2>3
<1>11. CASE MatchLogs
  <2>1. /\ pc = "match" /\ pc' = "close" /\ body' = body /\ todo' \subseteq TxsIn[body]
        /\ mined' = [x \in Tx |-> WithLegs(mined[x], LegsFrom(x))]
    BY <1>11 DEF MatchLogs
  <2>2. PICK b \in Rival : OneCopyEach(candidates, b)
    BY <1>1, <2>1 DEF OfOneBlock
  <2>3. ASSUME NEW x \in Tx PROVE Own(mined'[x], x) /\ Record(mined'[x])
    <3>1. /\ Own(mined[x], x) /\ Record(mined[x]) /\ mined[x].legs \subseteq CallLegs
          /\ body \in Rival
      BY <1>1, <1>2, <2>1, OwnEach
    <3>2. mined'[x] = WithLegs(mined[x], LegsFrom(x))
      BY <2>1
    <3> QED
      BY <2>2, <3>1, <3>2, WithLegsOwn
  <2>4. mined' = [x \in Tx |-> mined'[x]]
    BY <2>1
  <2>5. Shaped' /\ Owned'
    BY <2>1, <2>3, <2>4, ResultsOwn
  <2>6. Plain' /\ Within' /\ OfOneBlock'
    BY <2>1 DEF Plain, Within, OfOneBlock
  <2> QED
    BY <1>1, <2>5, <2>6 DEF OInv
<1>12. CASE Close
  <2>1. /\ pc = "close" /\ pc' \in {"close", "done"} /\ body' = body /\ todo' \subseteq todo
        /\ \/ mined' = mined
           \/ \E x \in todo, f \in BOOLEAN :
                mined' = [mined EXCEPT ![x] = [seen |-> TRUE, legs |-> {}, failed |-> f]]
    BY <1>12 DEF Close
  <2>2. Plain' /\ Within' /\ OfOneBlock'
    BY <1>1, <2>1 DEF Plain, Within, OfOneBlock, Early
  <2>3. CASE mined' = mined
    BY <1>1, <2>1, <2>2, <2>3, ResultsKept DEF OInv
  <2>4. ASSUME NEW x \in todo, NEW f \in BOOLEAN,
               mined' = [mined EXCEPT ![x] = [seen |-> TRUE, legs |-> {}, failed |-> f]]
        PROVE  OInv'
    <3> DEFINE m == [seen |-> TRUE, legs |-> {}, failed |-> f]
    <3>1. /\ mined = [y \in Tx |-> mined[y]] /\ \A y \in Tx : Own(mined[y], y) /\ Record(mined[y])
          /\ x \in Tx /\ x \in TxsIn[body]
      BY <1>1, <1>2, <2>1, OwnEach DEF Within, Early
    <3>2. Record(m) /\ Own(m, x)
      BY <3>1 DEF Record, Own
    <3>3. mined' = [mined EXCEPT ![x] = m]
      BY <2>4
    <3> HIDE DEF m
    <3>4. mined' = [y \in Tx |-> IF y = x THEN m ELSE mined[y]]
      BY <3>1, <3>3
    <3>5. \A y \in Tx : mined'[y] = IF y = x THEN m ELSE mined[y]
      BY <3>4
    <3>6. mined' = [y \in Tx |-> mined'[y]]
      BY <3>4
    <3>7. \A y \in Tx : Own(mined'[y], y) /\ Record(mined'[y])
      BY <3>1, <3>2, <3>5
    <3>8. Shaped' /\ Owned'
      BY <2>1, <3>6, <3>7, ResultsOwn
    <3> QED
      BY <1>1, <2>2, <3>8 DEF OInv
  <2> QED
    BY <2>1, <2>3, <2>4
<1>13. CASE GiveUp
  <2>1. pc' = "failed" /\ UNCHANGED <<body, mined>>
    BY <1>13 DEF GiveUp
  <2>2. Shaped' /\ Owned'
    BY <1>1, <2>1, ResultsKept
  <2>3. Plain' /\ Within' /\ OfOneBlock'
    BY <2>1 DEF Plain, Within, OfOneBlock
  <2> QED
    BY <1>1, <2>2, <2>3 DEF OInv
<1> QED
  BY <1>5, <1>6, <1>7, <1>8, <1>9, <1>10, <1>11, <1>12, <1>13 DEF Next

\* It holds of a scan that begins.
LEMMA InitOwn == ASSUME Init PROVE OInv
<1>1. /\ view \in Rival /\ flips = 0 /\ left = {} /\ supports \in BOOLEAN /\ large \in BOOLEAN
      /\ unsupported = FALSE /\ pc = "start" /\ body = (IF path = "tip" THEN view ELSE None)
      /\ rcpt = None /\ chunk = None /\ tried = FALSE /\ fetched = None
      /\ byTx = [x \in Tx |-> "unknown"] /\ todo = {} /\ mined = [x \in Tx |-> Unseen]
      /\ MaxFlips \in Nat
  BY ScanAssumption DEF Init
<1>2. TypeOK
  <2>1. flips \in 0..MaxFlips
    BY <1>1
  <2>2. byTx \in [Tx -> {"unknown", "ok", "reverted"}]
    BY <1>1
  <2>3. {body, rcpt, chunk, fetched} \subseteq Rival \cup {None}
    BY <1>1
  <2> QED
    BY <1>1, <2>1, <2>2, <2>3 DEF TypeOK
<1>3. Places
  BY <1>1, <1>2 DEF Places, Early
<1>4. \A x \in Tx : mined[x] = Unseen
  BY <1>1
<1>5. Shaped
  BY <1>1, <1>4 DEF Shaped, Unseen
<1>6. Owned
  BY <1>4 DEF Owned, Own, Unseen
<1> QED
  BY <1>1, <1>3, <1>5, <1>6 DEF OInv, Plain, Within, OfOneBlock, Early

-----------------------------------------------------------------------------
(* Outcomes *)

\* The two halves of what is to be proved.
LEMMA OutcomeEach ==
    ASSUME Owned, \A x \in Tx : Outcome(mined[x], x)
    PROVE  OwnTransfersOnce
<1> SUFFICES ASSUME NEW x \in Tx
             PROVE  /\ mined[x].seen => x \in TxsIn[body]
                    /\ mined[x].seen /\ Vouched(x) => mined[x].failed = (x \in Reverting[body])
                    /\ \A l \in mined[x].legs :
                         IF l.leg \in {"native", "calldata"}
                         THEN Vouched(x) => l.leg \in LegsIn(body, x)
                         ELSE \E lg \in LogsOf(body) : lg.tx = x /\ lg.index = l.leg
                    /\ \A l, m \in mined[x].legs : l.leg = m.leg => l = m
  BY DEF OwnTransfersOnce
<1> QED
  BY DEF Owned, Own, Outcome, CallKinds

\* Vouched for later, vouched for now, unless receipts are fetched.
LEMMA VouchedBefore ==
    ASSUME NEW x, UNCHANGED <<body, fetched>>, left \subseteq left', view \in left' \cup {view'}, Vouched(x)'
    PROVE  Vouched(x)
BY DEF Vouched, StatusIn

\* What is found by logs tells the outcome.
LEMMA ByLogsOutcome ==
    ASSUME NEW m, NEW x, ByLogs(m, x)
    PROVE  Outcome(m, x)
<1>1. m.seen => m.failed = FALSE /\ (x \in Reverting[body]) = FALSE
  BY DEF ByLogs
<1>2. \A l \in m.legs : l.leg \notin CallKinds
  BY DEF ByLogs
<1> QED
  BY <1>1, <1>2 DEF Outcome

\* Nothing has been found of what is unseen.
LEMMA UnseenByLogs == ASSUME NEW x PROVE ByLogs(Unseen, x) /\ ~Unseen.seen
BY DEF ByLogs, Unseen

\* What a right status settles is right,
LEMMA FoundOutcome ==
    ASSUME NEW x \in Tx, NEW s, Vouched(x) => s = StatusIn(body, x)
    PROVE  Outcome(Found(x, s), x) /\ Found(x, s).seen
<1>1. Found(x, s).seen /\ (Found(x, s).failed <=> s = "reverted")
  BY DEF Found
<1>2. \A l \in Found(x, s).legs : l.leg \in IF s = "reverted" THEN match(Content[x])
                                           ELSE match(Content[x]) \cap {"native"}
  <2> DEFINE K == IF s = "reverted" THEN match(Content[x]) ELSE match(Content[x]) \cap {"native"}
  <2>1. Found(x, s).legs = {Leg(kind, 0) : kind \in K}
    BY DEF Found
  <2>2. \A kind : Leg(kind, 0).leg = kind
    BY DEF Leg
  <2> HIDE DEF K
  <2>3. \A l \in Found(x, s).legs : l.leg \in K
    BY <2>1, <2>2
  <2> QED
    BY <2>3 DEF K
<1>3. "native" \in match(Content[x])
        <=> Content[x].value > 0 /\ Touches(Content[x].signer, Content[x].to)
  BY MatchLegs
<1>4. ASSUME Vouched(x)
      PROVE  /\ Found(x, s).failed = (x \in Reverting[body])
             /\ \A l \in Found(x, s).legs : l.leg \in LegsIn(body, x)
  <2>1. s = StatusIn(body, x)
    BY <1>4
  <2>2. s = "reverted" <=> x \in Reverting[body]
    BY <2>1 DEF StatusIn
  <2>3. Found(x, s).failed = (x \in Reverting[body])
    BY <2>2 DEF Found
  <2>4. \A l \in Found(x, s).legs : l.leg \in LegsIn(body, x)
    <3>1. CASE x \in Reverting[body]
      BY <1>2, <2>2, <3>1 DEF LegsIn
    <3>2. CASE x \notin Reverting[body]
      BY <1>2, <1>3, <2>2, <3>2 DEF LegsIn
    <3> QED
      BY <3>1, <3>2
  <2> QED
    BY <2>3, <2>4
<1> QED
  BY <1>1, <1>4 DEF Outcome

\* and so is a result without legs,
LEMMA ClosedOutcome ==
    ASSUME NEW x, NEW s, Vouched(x) => s = StatusIn(body, x)
    PROVE  Outcome([seen |-> TRUE, legs |-> {}, failed |-> s = "reverted"], x)
BY DEF Outcome, StatusIn

\* and what logs of the body add.
LEMMA WithLegsOutcome ==
    ASSUME NEW b \in Rival, OneCopyEach(candidates, b), body \in Rival, NEW x \in Tx,
           NEW m, ~m.seen => m = Unseen
    PROVE  LET w == WithLegs(m, LegsFrom(x)) IN
           /\ ~w.seen => w = Unseen
           /\ Outcome(m, x) => Outcome(w, x)
           /\ ByLogs(m, x) => ByLogs(w, x)
<1> DEFINE L == LegsFrom(x)  w == WithLegs(m, L)
<1>1. \A l \in L : l.leg \notin CallKinds /\ \E lg \in LogsOf(body) : lg.tx = x
  BY LogLegsOwn
<1> HIDE DEF L
<1>2. CASE L = {}
  <2>1. w = m
    BY <1>2 DEF WithLegs
  <2> HIDE DEF w
  <2> QED
    BY <2>1 DEF w, L
<1>3. CASE L # {}
  <2>1. w.seen /\ w.failed = m.failed /\ w.legs = m.legs \cup L
    BY <1>3 DEF WithLegs
  <2>2. x \notin Reverting[body]
    <3>1. PICK lg \in LogsOf(body) : lg.tx = x
      BY <1>1, <1>3
    <3>2. PICK y \in TxsIn[body] \ Reverting[body] : lg \in Logs[y]
      BY <3>1 DEF LogsOf
    <3>3. y \in Tx
      BY <3>2, ScanAssumption
    <3>4. y = x
      BY <3>1, <3>2, <3>3, ScanAssumption
    <3> QED
      BY <3>2, <3>4
  <2>3. ~m.seen => m.failed = FALSE /\ m.legs = {}
    BY DEF Unseen
  <2> HIDE DEF w
  <2>4. Outcome(m, x) => Outcome(w, x)
    <3> SUFFICES ASSUME Outcome(m, x), Vouched(x)
                 PROVE  /\ w.failed = (x \in Reverting[body])
                        /\ \A l \in w.legs : l.leg \in CallKinds => l.leg \in LegsIn(body, x)
      BY DEF Outcome
    <3>1. \A l \in w.legs : l.leg \in CallKinds => l.leg \in LegsIn(body, x)
      BY <1>1, <2>1 DEF Outcome
    <3>2. CASE m.seen
      BY <2>1, <3>1, <3>2 DEF Outcome
    <3>3. CASE ~m.seen
      <4>1. w.failed = FALSE /\ (x \in Reverting[body]) = FALSE
        BY <2>1, <2>2, <2>3, <3>3
      <4> QED
        BY <3>1, <4>1
    <3> QED
      BY <3>2, <3>3
  <2>5. ByLogs(m, x) => ByLogs(w, x)
    BY <1>1, <2>1, <2>2, <2>3 DEF ByLogs
  <2> QED
    BY <2>1, <2>4, <2>5 DEF w, L
<1> QED
  BY <1>2, <1>3 DEF L

\* ensure brings the body's receipts, or nothing; what has been found before
\* it asks has been found by logs.
LEMMA EnsureTold ==
    ASSUME OInv, AInv, ensure, ~Early, pc # "failed", body \in Rival,
           UNCHANGED <<body, mined, view, left>>
    PROVE  /\ tried'
           /\ fetched' = body => \A x \in TxsIn[body] : byTx'[x] = StatusIn(body, x)
           /\ \A x \in Tx : Vouched(x)' => byTx'[x] \in {"unknown", StatusIn(body, x)}
           /\ Outcomes'
<1>1. /\ \A x \in Tx : Outcome(mined[x], x) /\ (~mined[x].seen => mined[x] = Unseen)
      /\ Told /\ Untold /\ TxsIn[body] \subseteq Tx
  BY ScanAssumption DEF AInv, Outcomes
<1>2. tried'
  BY DEF ensure
<1>3. CASE UNCHANGED <<fetched, byTx>>
  <2>1. \A x : Vouched(x)' <=> Vouched(x)
    BY <1>3 DEF Vouched, StatusIn
  <2> QED
    BY <1>1, <1>2, <1>3, <2>1 DEF Told, Outcomes, Outcome, LegsIn
<1>4. CASE ~tried /\ absorb(body)
  <2>1. \A x \in Tx : byTx[x] = "unknown" /\ ByLogs(mined[x], x)
    BY <1>1, <1>4 DEF Untold
  <2>2. \A x \in Tx : byTx'[x] = IF x \in TxsIn[body] THEN StatusIn(body, x) ELSE byTx[x]
    BY <1>4 DEF absorb
  <2>3. \A x \in Tx : ByLogs(mined[x], x)'
    BY <2>1 DEF ByLogs
  <2>4. \A x \in Tx : Outcome(mined[x], x)'
    <3>1. \A x \in Tx : /\ mined'[x].seen => /\ mined'[x].failed = FALSE
                                            /\ (x \in Reverting[body']) = FALSE
                       /\ \A l \in mined'[x].legs : l.leg \notin CallKinds
      BY <2>3 DEF ByLogs
    <3> QED
      BY <3>1 DEF Outcome
  <2> QED
    BY <1>1, <1>2, <1>4, <2>1, <2>2, <2>4 DEF Outcomes
<1> QED
  BY <1>3, <1>4 DEF ensure

\* Where receipts, statuses and results stay, so does what is known of them,
\* whatever else the node shows.
LEMMA OutcomesKept ==
    ASSUME Outcomes, UNCHANGED <<body, fetched, mined>>,
           left \subseteq left', view \in left' \cup {view'}
    PROVE  Outcomes'
<1>1. \A x \in Tx : Vouched(x)' => Vouched(x)
  BY VouchedBefore
<1> QED
  BY <1>1 DEF Outcomes, Outcome, LegsIn

LEMMA ToldStays ==
    ASSUME AInv, UNCHANGED <<body, fetched, byTx, mined, tried>>,
           left \subseteq left', view \in left' \cup {view'}, ~Early, pc # "failed",
           pc' \notin {"start", "receipts", "prepare"},
           pc' \in {"batch", "status"} => tried
    PROVE  AInv'
<1>1. \A x \in Tx : Vouched(x)' => Vouched(x)
  BY VouchedBefore
<1>2. Told'
  BY <1>1 DEF AInv, Told, StatusIn
<1>3. Untold'
  BY DEF AInv, Untold, ByLogs
<1> QED
  BY <1>2, <1>3, OutcomesKept DEF AInv, Came

\* A status is asked of the receipts known, or of the node.
LEMMA StatusTold ==
    ASSUME OInv, AInv, ~Early, pc # "failed", NEW x \in todo, NEW s \in failed(x), s # "gone",
           UNCHANGED <<body, fetched, view, left>>, Vouched(x)'
    PROVE  s = StatusIn(body, x)
<1>1. Vouched(x) /\ x \in TxsIn[body] /\ x \in Tx
  BY ScanAssumption DEF OInv, Within, Vouched, StatusIn, Places, TypeOK
<1>2. CASE byTx[x] # "unknown"
  BY <1>1, <1>2 DEF failed, AInv, Told
<1>3. CASE byTx[x] = "unknown"
  <2>1. fetched # body
    BY <1>1, <1>3 DEF AInv, Told, StatusIn
  <2>2. x \in TxsIn[view] /\ s = StatusIn(view, x)
    BY <1>3 DEF failed
  <2> QED
    BY <1>1, <2>1, <2>2 DEF Vouched
<1> QED
  BY <1>2, <1>3

\* Each step keeps what is known of outcomes.
LEMMA ToldKept == ASSUME OInv, AInv, [Next]_vars PROVE AInv'
<1>1. /\ Places /\ Shaped /\ Within /\ OfOneBlock /\ Came /\ Told /\ Untold /\ Outcomes
  BY DEF OInv, AInv
<1>2. /\ \A b \in Rival : TxsIn[b] \subseteq Tx
      /\ todo \subseteq Tx /\ view \in Rival /\ None \notin Rival
      /\ rcpt \in Rival \cup {None} /\ fetched \in Rival \cup {None}
      /\ Early => /\ mined = [x \in Tx |-> Unseen] /\ fetched = None
                  /\ byTx = [x \in Tx |-> "unknown"]
      /\ pc \notin {"start", "failed"} => body \in Rival
      /\ fetched # None => tried
      /\ byTx \in [Tx -> {"unknown", "ok", "reverted"}]
  BY <1>1, ScanAssumption DEF Places, TypeOK
<1>3. mined = [x \in Tx |-> mined[x]]
  BY <1>1 DEF Shaped
<1>4. ASSUME mined' = mined, Early, \A x \in Tx : ~tried' => byTx'[x] = "unknown", pc' \notin {"batch", "status"},
             Came', Told'
      PROVE  AInv'
  <2>1. \A x \in Tx : mined'[x] = Unseen
    BY <1>2, <1>4
  <2>2. \A x \in Tx : Outcome(mined[x], x)' /\ ByLogs(mined[x], x)'
    BY <2>1 DEF Outcome, ByLogs, Unseen
  <2> QED
    BY <1>4, <2>1, <2>2 DEF AInv, Untold, Outcomes
<1>5. CASE UNCHANGED vars
  <2>1. \A x : Vouched(x)' <=> Vouched(x)
    BY <1>5 DEF vars, chainVars, Vouched, StatusIn
  <2> QED
    BY <1>1, <1>5, <2>1 DEF vars, chainVars, AInv, Came, Told, Untold, Outcomes, Outcome,
                            ByLogs, Early, StatusIn, LegsIn
<1>6. CASE Flip
  <2>1. /\ pc # "failed" /\ left' = left \cup {view}
        /\ UNCHANGED <<pc, body, rcpt, tried, fetched, byTx, mined>>
    BY <1>6 DEF Flip, Ended
  <2>2. CASE Early
    <3>1. Came' /\ Told'
      BY <1>1, <2>1, <2>2 DEF Came, Told, Early
    <3> QED
      BY <1>2, <1>4, <2>1, <2>2, <3>1 DEF Early
  <2>3. CASE ~Early
    BY <1>1, <2>1, <2>3, ToldStays DEF Early, AInv, Untold
  <2> QED
    BY <2>2, <2>3
<1>7. CASE FetchBody \/ FetchReceipts \/ Verify \/ FetchChunk
  <2>1. mined' = mined /\ Early /\ Early' /\ UNCHANGED <<tried, byTx>>
    BY <1>7 DEF FetchBody, FetchReceipts, Verify, FetchChunk, Early
  <2>2. Came'
    BY <1>1, <1>2, <1>7 DEF FetchBody, FetchReceipts, Verify, FetchChunk, Came, Foreign, Early
  <2> QED
    BY <1>2, <1>4, <2>1, <2>2 DEF Told, Early
<1>8. CASE Prepare
  <2>1. /\ mined' = mined /\ Early /\ body' = body /\ body \in Rival
        /\ pc = "prepare" /\ pc' \in {"logs", "native"} /\ preload
    BY <1>2, <1>8 DEF Prepare, Early
  <2>2. rcpt \in {None, body} \/ TxsIn[rcpt] = {}
    BY <1>1, <2>1 DEF Came
  <2>3. \A x \in Tx : byTx[x] = "unknown"
    BY <1>2, <2>1
  <2>4. CASE rcpt = None
    <3>1. UNCHANGED <<tried, fetched, byTx>>
      BY <2>1, <2>4 DEF preload
    <3>2. fetched' # body
      BY <1>2, <2>1, <3>1
    <3> QED
      BY <1>4, <2>1, <2>3, <3>1, <3>2 DEF Came, Told
  <2>5. CASE rcpt # None
    <3>1. /\ fetched' = rcpt /\ tried'
          /\ \A x \in Tx : byTx'[x] = IF x \in TxsIn[rcpt] THEN StatusIn(rcpt, x) ELSE byTx[x]
      BY <2>1, <2>5 DEF preload, absorb
    <3>2. Told'
      <4>1. fetched' = body => \A x \in TxsIn[body] : byTx'[x] = StatusIn(body, x)
        BY <1>2, <2>1, <3>1
      <4>2. \A x \in Tx : byTx'[x] \in {"unknown", StatusIn(body, x)}
        BY <2>2, <2>3, <2>5, <3>1
      <4> QED
        BY <2>1, <4>1, <4>2 DEF Told, StatusIn
    <3> QED
      BY <1>4, <2>1, <3>1, <3>2 DEF Came
  <2> QED
    BY <2>4, <2>5
<1>9. ASSUME ensure, ~Early, pc # "failed", pc' \notin {"start", "receipts", "prepare"},
             UNCHANGED <<body, mined, view, left>>
      PROVE  AInv'
  <2>1. body \in Rival
    BY <1>2, <1>9 DEF Early
  <2>2. /\ tried'
        /\ fetched' = body => \A x \in TxsIn[body] : byTx'[x] = StatusIn(body, x)
        /\ \A x \in Tx : Vouched(x)' => byTx'[x] \in {"unknown", StatusIn(body, x)}
        /\ Outcomes'
    BY <1>9, <2>1, EnsureTold
  <2>3. Told'
    BY <1>9, <2>2 DEF Told, StatusIn
  <2> QED
    BY <1>9, <2>2, <2>3 DEF AInv, Came, Untold
<1>10. CASE Ensure
  <2>1. ensure /\ pc = "native" /\ pc' = "batch" /\ UNCHANGED <<body, mined, view, left>>
    BY <1>10 DEF Ensure, chainVars
  <2> QED
    BY <1>9, <2>1 DEF Early
<1>11. CASE PreloadStatuses
  <2>1. /\ pc = "batch" /\ pc' = "status" /\ UNCHANGED <<body, mined, view, left, tried, fetched>>
        /\ \/ byTx' = byTx
           \/ /\ fetched = None
              /\ \E S \in SUBSET TxsIn[view] :
                   byTx' = [x \in Tx |-> IF x \in S THEN StatusIn(view, x) ELSE byTx[x]]
    BY <1>11 DEF PreloadStatuses, chainVars
  <2>2. tried /\ body \in Rival /\ ~Early
    BY <1>1, <1>2, <2>1 DEF Untold, Early
  <2>3. CASE byTx' = byTx
    BY <2>1, <2>2, <2>3, ToldStays
  <2>4. ASSUME fetched = None, NEW S \in SUBSET TxsIn[view],
               byTx' = [x \in Tx |-> IF x \in S THEN StatusIn(view, x) ELSE byTx[x]]
        PROVE  AInv'
    <3>1. fetched # body
      BY <1>2, <2>2, <2>4
    <3>2. \A x : Vouched(x)' <=> Vouched(x)
      BY <2>1 DEF Vouched, StatusIn
    <3>3. ASSUME NEW x \in Tx, Vouched(x) PROVE byTx'[x] \in {"unknown", StatusIn(body, x)}
      <4>1. byTx[x] \in {"unknown", StatusIn(body, x)}
        BY <1>1, <2>1, <2>2, <3>3 DEF Told
      <4>2. x \in S => StatusIn(view, x) = StatusIn(body, x)
        BY <3>1, <3>3 DEF Vouched
      <4> QED
        BY <2>4, <4>1, <4>2
    <3>4. Told'
      BY <2>1, <3>1, <3>2, <3>3 DEF Told, StatusIn
    <3> QED
      BY <1>1, <2>1, <2>2, <3>4, OutcomesKept DEF AInv, Came, Untold
  <2> QED
    BY <2>1, <2>3, <2>4
<1>12. ASSUME NEW x \in todo, NEW m, ~Early, pc # "failed", tried, Outcome(m, x)', m.seen,
              mined' = [mined EXCEPT ![x] = m], pc' \notin {"start", "receipts", "prepare"},
              UNCHANGED <<body, view, left, tried, fetched, byTx>>
       PROVE  AInv'
  <2>1. mined' = [y \in Tx |-> IF y = x THEN m ELSE mined[y]]
    BY <1>3, <1>12
  <2>2. \A y \in Tx : mined'[y] = IF y = x THEN m ELSE mined[y]
    BY <2>1
  <2>3. \A y : Vouched(y)' <=> Vouched(y)
    BY <1>12 DEF Vouched, StatusIn
  <2>4. \A y \in Tx : Outcome(mined[y], y)'
    <3>1. \A y \in Tx \ {x} : Outcome(mined[y], y) => Outcome(mined[y], y)'
      BY <1>12, <2>2, <2>3 DEF Outcome, LegsIn
    <3>2. x \in Tx /\ Outcome(mined[x], x)'
      BY <1>2, <1>12, <2>2 DEF Outcome
    <3> QED
      BY <1>1, <3>1, <3>2 DEF Outcomes
  <2>5. Outcomes'
    BY <1>1, <1>12, <2>2, <2>4 DEF Outcomes
  <2>6. Told'
    BY <1>1, <1>12, <2>3 DEF Told, StatusIn
  <2> QED
    BY <1>12, <2>5, <2>6 DEF AInv, Came, Untold
<1>13. ASSUME NEW x \in Tx, Status(x) PROVE AInv'
  <2>1. /\ pc = "status" /\ x \in todo /\ pc' \in {"logs", "status"}
        /\ UNCHANGED <<body, view, left, tried, fetched, byTx>>
        /\ \/ mined' = mined
           \/ \E s \in failed(x) : s # "gone" /\ mined' = [mined EXCEPT ![x] = Found(x, s)]
    BY <1>13 DEF Status, chainVars
  <2>2. tried /\ ~Early
    BY <1>1, <2>1 DEF Untold, Early
  <2>3. CASE mined' = mined
    BY <2>1, <2>2, <2>3, ToldStays
  <2>4. ASSUME NEW s \in failed(x), s # "gone", mined' = [mined EXCEPT ![x] = Found(x, s)]
        PROVE  AInv'
    <3>1. Vouched(x)' => s = StatusIn(body, x)
      BY <2>1, <2>2, <2>4, StatusTold
    <3>2. Vouched(x)' <=> Vouched(x)
      BY <2>1 DEF Vouched, StatusIn
    <3> DEFINE m == Found(x, s)
    <3>3. Outcome(m, x) /\ m.seen
      BY <3>1, <3>2, FoundOutcome
    <3> HIDE DEF m
    <3>4. Outcome(m, x)'
      BY <2>1, <3>2, <3>3 DEF Outcome, LegsIn, m, Found
    <3> QED
      BY <1>12, <2>1, <2>2, <2>4, <3>3, <3>4 DEF m
  <2> QED
    BY <2>1, <2>3, <2>4
<1>14. CASE LogSource
  <2>1. /\ pc = "logs" /\ pc' \in {"logs", "match"} /\ UNCHANGED <<body, mined, view, left>>
        /\ ensure \/ UNCHANGED <<tried, fetched, byTx>>
    BY <1>14 DEF LogSource, chainVars
  <2> QED
    BY <1>9, <2>1, ToldStays DEF Early
<1>15. CASE MatchLogs
  <2>1. /\ pc = "match" /\ pc' = "close" /\ UNCHANGED <<body, view, left, tried, fetched, byTx>>
        /\ mined' = [x \in Tx |-> WithLegs(mined[x], LegsFrom(x))]
    BY <1>15 DEF MatchLogs, chainVars
  <2>2. body \in Rival /\ ~Early
    BY <1>2, <2>1 DEF Early
  <2>3. PICK b \in Rival : OneCopyEach(candidates, b)
    BY <1>1, <2>1 DEF OfOneBlock
  <2>4. \A x : Vouched(x)' <=> Vouched(x)
    BY <2>1 DEF Vouched, StatusIn
  <2>5. ASSUME NEW x \in Tx
        PROVE  /\ ~mined'[x].seen => mined'[x] = Unseen
               /\ Outcome(mined[x], x)'
               /\ ~tried => ByLogs(mined[x], x)'
    <3> DEFINE w == WithLegs(mined[x], LegsFrom(x))
    <3>1. /\ ~mined[x].seen => mined[x] = Unseen
          /\ Outcome(mined[x], x)
          /\ ~tried => ByLogs(mined[x], x)
      BY <1>1 DEF Outcomes, Untold
    <3>2. /\ ~w.seen => w = Unseen
          /\ Outcome(w, x)
          /\ ~tried => ByLogs(w, x)
      BY <2>2, <2>3, <3>1, WithLegsOutcome
    <3>3. mined'[x] = w
      BY <2>1
    <3> HIDE DEF w
    <3>4. Outcome(mined[x], x)'
      BY <2>1, <2>4, <3>2, <3>3 DEF Outcome, LegsIn
    <3>5. ~tried => ByLogs(mined[x], x)'
      BY <2>1, <3>2, <3>3 DEF ByLogs
    <3> QED
      BY <3>2, <3>3, <3>4, <3>5
  <2>6. Outcomes' /\ Untold'
    BY <1>1, <2>1, <2>5 DEF Outcomes, Untold
  <2>7. Told'
    BY <1>1, <2>1, <2>2, <2>4 DEF Told, StatusIn
  <2> QED
    BY <2>1, <2>6, <2>7 DEF AInv, Came
<1>16. CASE Close
  <2>1. /\ pc = "close" /\ pc' \in {"close", "done"} /\ UNCHANGED <<body, view, left>>
        /\ \/ ensure /\ mined' = mined
           \/ /\ UNCHANGED <<tried, fetched, byTx>>
              /\ \/ mined' = mined
                 \/ /\ tried
                    /\ \E x \in todo : \E s \in failed(x) \ {"gone"} :
                         mined' = [mined EXCEPT ![x] = [seen |-> TRUE, legs |-> {},
                                                        failed |-> s = "reverted"]]
    BY <1>16 DEF Close, chainVars
  <2>2. ~Early
    BY <2>1 DEF Early
  <2>3. CASE ensure /\ mined' = mined
    BY <1>9, <2>1, <2>2, <2>3
  <2>4. CASE UNCHANGED <<tried, fetched, byTx, mined>>
    BY <2>1, <2>2, <2>4, ToldStays
  <2>5. ASSUME UNCHANGED <<tried, fetched, byTx>>, tried,
               NEW x \in todo, NEW s \in failed(x) \ {"gone"},
               mined' = [mined EXCEPT ![x] = [seen |-> TRUE, legs |-> {},
                                              failed |-> s = "reverted"]]
        PROVE  AInv'
    <3> DEFINE m == [seen |-> TRUE, legs |-> {}, failed |-> s = "reverted"]
    <3>1. Vouched(x)' => s = StatusIn(body, x)
      BY <2>1, <2>2, <2>5, StatusTold
    <3>2. Vouched(x)' <=> Vouched(x)
      BY <2>1, <2>5 DEF Vouched, StatusIn
    <3>3. Outcome(m, x)
      BY <3>1, <3>2, ClosedOutcome
    <3>4. m.seen
      OBVIOUS
    <3>5. mined' = [mined EXCEPT ![x] = m]
      BY <2>5
    <3>6. Outcome(m, x)'
      BY <2>1, <3>2, <3>3 DEF Outcome, LegsIn
    <3> HIDE DEF m
    <3> QED
      BY <1>12, <2>1, <2>2, <2>5, <3>4, <3>5, <3>6
  <2> QED
    BY <2>1, <2>3, <2>4, <2>5
<1>17. CASE GiveUp
  <2>1. /\ pc' = "failed" /\ UNCHANGED <<body, view, left, tried, fetched, byTx, mined>>
    BY <1>17 DEF GiveUp, chainVars
  <2>2. Outcomes'
    BY <1>1, <2>1, OutcomesKept
  <2> QED
    BY <1>1, <2>1, <2>2 DEF AInv, Came, Told, Untold, ByLogs
<1> QED
  BY <1>5, <1>6, <1>7, <1>8, <1>10, <1>11, <1>13, <1>14, <1>15, <1>16, <1>17 DEF Next

\* Nothing is told at the start.
LEMMA InitTold == ASSUME Init PROVE AInv
<1>1. /\ pc = "start" /\ rcpt = None /\ byTx = [x \in Tx |-> "unknown"]
      /\ mined = [x \in Tx |-> Unseen]
  BY DEF Init
<1>2. \A x \in Tx : byTx[x] = "unknown" /\ mined[x] = Unseen
  BY <1>1
<1> QED
  BY <1>1, <1>2, UnseenByLogs, ByLogsOutcome DEF AInv, Came, Told, Untold, Outcomes, Early

-----------------------------------------------------------------------------
(* Everything found *)

Indexes(x) == {lg.index : lg \in {l \in Logs[x] : MatchLog(l)}}

\* What a transaction that succeeds holds: logs that match, native coins.
LEMMA LegsInSuccess ==
    ASSUME NEW b, NEW x, x \notin Reverting[b]
    PROVE  LegsIn(b, x) = Indexes(x) \cup (match(Content[x]) \cap {"native"})
<1> DEFINE tx == Content[x]
           G == {l \in Logs[x] : /\ l.token \in Tokens /\ l.topics = 3
                                 /\ Touches(l.from, l.to) /\ l.value > 0}
<1>1. G = {l \in Logs[x] : MatchLog(l)}
  BY MatchLogTouches
<1>2. match(tx) \cap {"native"} =
        IF tx.value > 0 /\ Touches(tx.signer, tx.to) THEN {"native"} ELSE {}
  BY MatchLegs
<1>3. LegsIn(b, x) = {lg.index : lg \in G}
        \cup (IF tx.value > 0 /\ Touches(tx.signer, tx.to) THEN {"native"} ELSE {})
  BY DEF LegsIn
<1> HIDE DEF G, tx
<1> QED
  BY <1>1, <1>2, <1>3 DEF Indexes, tx

\* The legs of what a status settles.
LEMMA FoundLegs ==
    ASSUME NEW x, NEW s
    PROVE  {l.leg : l \in Found(x, s).legs} =
               IF s = "reverted" THEN match(Content[x]) ELSE match(Content[x]) \cap {"native"}
<1> DEFINE K == IF s = "reverted" THEN match(Content[x]) ELSE match(Content[x]) \cap {"native"}
<1>1. Found(x, s).legs = {Leg(kind, 0) : kind \in K}
  BY DEF Found
<1> HIDE DEF K
<1>2. \A kind : Leg(kind, 0).leg = kind
  BY DEF Leg
<1>3. \A k \in K : Leg(k, 0) \in Found(x, s).legs
  BY <1>1
<1>4. \A l \in Found(x, s).legs : l.leg \in K
  BY <1>1, <1>2
<1>5. {l.leg : l \in Found(x, s).legs} = K
  BY <1>2, <1>3, <1>4
<1> QED
  BY <1>5 DEF K

\* Logs that were all brought give a transaction of the body every leg they
\* hold, and one that reverted none.
LEMMA LogLegs ==
    ASSUME NEW b \in Rival, OneCopyEach(candidates, b), body \in Rival, Brought,
           NEW x \in Tx, x \in TxsIn[body]
    PROVE  {l.leg : l \in LegsFrom(x)} = IF x \in Reverting[body] THEN {} ELSE Indexes(x)
<1> DEFINE C == {d \in candidates : OwnLog(d) /\ MatchLog(d.log) /\ d.log.tx = x}
<1>1. LegsFrom(x) = {Leg(d.log.index, d.query) : d \in C}
  BY DEF LegsFrom
<1>2. ASSUME NEW d \in C
      PROVE  x \notin Reverting[body] /\ d.log \in Logs[x] /\ MatchLog(d.log)
  <2>1. d \in candidates /\ d.block = body /\ d.log.tx = x /\ MatchLog(d.log)
    BY DEF OwnLog
  <2>2. d.log \in LogsOf(body)
    BY <2>1 DEF OneCopyEach
  <2>3. PICK y \in TxsIn[body] \ Reverting[body] : d.log \in Logs[y]
    BY <2>2 DEF LogsOf
  <2>4. y \in Tx
    BY <2>3, ScanAssumption
  <2>5. y = x
    BY <2>1, <2>3, <2>4, ScanAssumption
  <2> QED
    BY <2>1, <2>3, <2>5
<1>3. ASSUME x \notin Reverting[body], NEW lg \in Logs[x], MatchLog(lg)
      PROVE  \E d \in C : d.log = lg
  <2>1. lg \in LogsOf(body) /\ lg.tx = x
    BY <1>3, ScanAssumption DEF LogsOf
  <2>2. PICK d \in candidates : d.log = lg /\ d.block = body
    BY <1>3, <2>1 DEF Brought
  <2> QED
    BY <1>3, <2>1, <2>2 DEF OwnLog
<1> HIDE DEF C
<1>4. {l.leg : l \in LegsFrom(x)} = {d.log.index : d \in C}
  <2>1. \A d : Leg(d.log.index, d.query).leg = d.log.index
    BY DEF Leg
  <2>2. \A d \in C : Leg(d.log.index, d.query) \in LegsFrom(x)
    BY <1>1
  <2>3. \A l \in LegsFrom(x) : \E d \in C : l.leg = d.log.index
    BY <1>1, <2>1
  <2> QED
    BY <2>1, <2>2, <2>3
<1>5. CASE x \in Reverting[body]
  <2>1. C = {}
    BY <1>2, <1>5
  <2> QED
    BY <1>4, <1>5, <2>1
<1>6. CASE x \notin Reverting[body]
  <2>1. {d.log.index : d \in C} \subseteq Indexes(x)
    BY <1>2 DEF Indexes
  <2>2. Indexes(x) \subseteq {d.log.index : d \in C}
    BY <1>3, <1>6 DEF Indexes
  <2> QED
    BY <1>4, <1>6, <2>1, <2>2
<1> QED
  BY <1>5, <1>6

\* A transaction whose call has been dealt with is whole with its logs.
LEMMA WithLegsWhole ==
    ASSUME NEW b \in Rival, OneCopyEach(candidates, b), body \in Rival, Brought,
           NEW x \in Tx, x \in TxsIn[body], Dealt(x), Reported(body, x),
           NEW w, w = WithLegs(mined[x], LegsFrom(x))
    PROVE  /\ w.seen
           /\ w.failed = (x \in Reverting[body])
           /\ {l.leg : l \in w.legs} = LegsIn(body, x)
<1> DEFINE s == StatusIn(body, x)
           L == LegsFrom(x)
           m == mined[x]
           calls == match(Content[x])
<1>1. {l.leg : l \in L} = IF x \in Reverting[body] THEN {} ELSE Indexes(x)
  BY LogLegs
<1>2. m = IF calls # {} THEN Found(x, s) ELSE Unseen
  BY DEF Dealt, Matched
<1>3. /\ m.seen <=> calls # {}
      /\ m.failed = (calls # {} /\ x \in Reverting[body])
      /\ {l.leg : l \in m.legs} =
           IF x \in Reverting[body] THEN calls ELSE calls \cap {"native"}
  <2>1. (s = "reverted") <=> x \in Reverting[body]
    BY DEF StatusIn
  <2>2. CASE calls # {}
    <3>1. m = Found(x, s)
      BY <1>2, <2>2
    <3>2. Found(x, s).seen = TRUE /\ Found(x, s).failed = (s = "reverted")
      BY DEF Found
    <3> HIDE DEF m, s
    <3>3. {l.leg : l \in m.legs} = IF s = "reverted" THEN calls ELSE calls \cap {"native"}
      BY <3>1, FoundLegs
    <3>4. m.failed = (calls # {} /\ x \in Reverting[body])
      BY <2>1, <2>2, <3>1, <3>2
    <3> HIDE DEF calls
    <3> QED
      BY <2>1, <2>2, <3>1, <3>2, <3>3, <3>4
  <2>3. CASE calls = {}
    <3>1. m = Unseen
      BY <1>2, <2>3
    <3> HIDE DEF m, s, calls
    <3>2. m.seen = FALSE /\ m.failed = FALSE /\ m.legs = {}
      BY <3>1 DEF Unseen
    <3>3. {l.leg : l \in m.legs} = {}
      BY <3>2
    <3> QED
      BY <2>3, <3>2, <3>3
  <2> QED
    BY <2>2, <2>3
<1> HIDE DEF L, m, s
<1>4. w = IF L = {} THEN m ELSE [seen |-> TRUE, failed |-> m.failed, legs |-> m.legs \cup L]
  BY DEF WithLegs, m, L
<1>5. CASE x \in Reverting[body]
  <2>1. calls # {} /\ LegsIn(body, x) = calls
    BY <1>5 DEF Reported, LegsIn
  <2>2. L = {}
    BY <1>1, <1>5
  <2> HIDE DEF calls
  <2> QED
    BY <1>3, <1>4, <1>5, <2>1, <2>2
<1>6. CASE x \notin Reverting[body]
  <2>0. (x \in Reverting[body]) = FALSE
    BY <1>6
  <2>1. LegsIn(body, x) = Indexes(x) \cup (calls \cap {"native"})
    BY <1>6, LegsInSuccess
  <2>2. calls # {} \/ LegsIn(body, x) # {}
    BY DEF Reported
  <2> HIDE DEF calls
  <2>3. m.failed = FALSE /\ {l.leg : l \in m.legs} = calls \cap {"native"}
    BY <1>3, <1>6
  <2>4. {l.leg : l \in L} = Indexes(x)
    BY <1>1, <1>6
  <2>5. CASE L = {}
    <3>1. w = m /\ Indexes(x) = {}
      BY <1>4, <2>4, <2>5
    <3>2. calls # {}
      BY <2>1, <2>2, <3>1
    <3>3. {l.leg : l \in m.legs} = LegsIn(body, x)
      BY <2>1, <2>3, <3>1
    <3>4. m.seen
      BY <1>3, <3>2
    <3>5. w.failed = (x \in Reverting[body])
      BY <2>0, <2>3, <3>1, Zenon
    <3> QED
      BY <3>1, <3>3, <3>4, <3>5
  <2>6. CASE L # {}
    <3>1. w.seen = TRUE /\ w.failed = FALSE /\ w.legs = m.legs \cup L
      BY <1>4, <2>3, <2>6
    <3>2. {l.leg : l \in w.legs} = {l.leg : l \in m.legs} \cup {l.leg : l \in L}
      BY <3>1
    <3>3. {l.leg : l \in w.legs} = LegsIn(body, x)
      BY <2>1, <2>3, <2>4, <3>2
    <3>4. w.failed = (x \in Reverting[body])
      BY <2>0, <3>1, Zenon
    <3> QED
      BY <3>1, <3>3, <3>4
  <2> QED
    BY <2>5, <2>6
<1> QED
  BY <1>5, <1>6

-----------------------------------------------------------------------------
(* Every step keeps WInv *)

\* absorb brings statuses of the body, when it is the body that it reads.
LEMMA AbsorbCurrent ==
    ASSUME absorb(body), \A x \in Tx : byTx[x] \in {"unknown", StatusIn(body, x)}
    PROVE  /\ fetched' = body
           /\ \A x \in Tx : byTx'[x] \in {"unknown", StatusIn(body, x)}
BY DEF absorb

\* So does ensure, if it brings any.
LEMMA EnsureCurrent ==
    ASSUME ensure, fetched \in {None, body},
           \A x \in Tx : byTx[x] \in {"unknown", StatusIn(body, x)}
    PROVE  /\ fetched' \in {None, body}
           /\ \A x \in Tx : byTx'[x] \in {"unknown", StatusIn(body, x)}
<1>1. absorb(body) \/ UNCHANGED <<fetched, byTx>>
  BY DEF ensure
<1> QED
  BY <1>1, AbsorbCurrent

\* Only a reorg changes the chain; the body is read once, from the node.
LEMMA ReadKept ==
    ASSUME OInv, WInv, ~MayReturn, [Next]_vars
    PROVE  /\ Read'
           /\ body' = view' => /\ view' = view
                               /\ body' # body => pc = "start" /\ FetchBody
<1>1. view \in Rival /\ None \notin Rival /\ body \in Rival \cup {None} /\ left \subseteq Rival
  BY ScanAssumption DEF OInv, Places, TypeOK
<1>2. view \notin left /\ (body # None => body = view \/ body \in left)
  BY DEF WInv, Read
<1>3. CASE Flip
  <2>1. /\ view' \in Rival \ {view} /\ view' \notin left /\ left' = left \cup {view}
        /\ body' = body
    BY <1>3 DEF Flip
  <2> QED
    BY <1>1, <1>2, <2>1 DEF Read
<1>4. CASE FetchBody
  BY <1>1, <1>2, <1>4 DEF FetchBody, chainVars, Read
<1>5. CASE ~Flip /\ ~FetchBody
  <2>1. UNCHANGED <<view, left, body>>
    BY <1>5 DEF Next, vars, chainVars, FetchReceipts, Verify, FetchChunk, Prepare, Ensure,
                PreloadStatuses, Status, LogSource, MatchLogs, Close, GiveUp
  <2> QED
    BY <1>2, <2>1 DEF Read
<1> QED
  BY <1>3, <1>4, <1>5

\* Where nothing is read and no result changes, what was read stays current.
LEMMA CurrentKept ==
    ASSUME Current, UNCHANGED <<path, body, rcpt, chunk, fetched, byTx, todo, candidates, mined>>,
           pc' \in {"native", "batch", "status"} => pc \in {"native", "batch", "status"},
           pc' \in {"logs", "match"} => pc \in {"logs", "match"},
           pc' = "match" => pc = "match",
           pc' \in {"close", "done"} => pc \in {"close", "done"}
    PROVE  Current'
BY DEF Current, Dealt, Brought, StaleChunk, HaveLogs, Whole

\* Each step keeps what was read current.
LEMMA WholeKept ==
    ASSUME OInv, WInv, ~MayReturn, ~LagOutlasts, [Next]_vars
    PROVE  WInv'
<1>1. Read' /\ (body' = view' => view' = view /\ (body' # body => pc = "start" /\ FetchBody))
  BY ReadKept
<1> SUFFICES ASSUME body' = view' PROVE Current'
  BY <1>1 DEF WInv
<1>2. /\ Places /\ Shaped /\ Within /\ OfOneBlock /\ view' = view
      /\ view \in Rival /\ None \notin Rival /\ todo \subseteq Tx /\ large \in BOOLEAN
      /\ \A b \in Rival : TxsIn[b] \subseteq Tx
      /\ byTx \in [Tx -> {"unknown", "ok", "reverted"}]
      /\ chunk \in Rival \cup {None}
      /\ Early => /\ todo = {} /\ fetched = None /\ byTx = [x \in Tx |-> "unknown"]
                  /\ mined = [x \in Tx |-> Unseen]
  BY <1>1, ScanAssumption DEF OInv, Places, TypeOK
<1>3. CASE FetchBody
  <2>1. /\ pc = "start" /\ pc' \in {"receipts", "prepare"} /\ rcpt = None
        /\ UNCHANGED <<rcpt, fetched, byTx>>
    BY <1>2, <1>3 DEF FetchBody, Places
  <2>2. rcpt' = None /\ fetched' = None /\ \A x \in Tx : byTx'[x] = "unknown"
    BY <1>2, <2>1 DEF Early
  <2> QED
    BY <2>1, <2>2 DEF Current
<1> SUFFICES ASSUME ~FetchBody PROVE Current'
  BY <1>3
<1>4. body' = body /\ body = view
  BY <1>1, <1>2
<1>5. /\ Current /\ rcpt \in {None, body} /\ fetched \in {None, body}
      /\ \A x \in Tx : byTx[x] \in {"unknown", StatusIn(body, x)}
      /\ body \in Rival /\ TxsIn[body] \subseteq Tx
  BY <1>2, <1>4 DEF WInv, Current
<1>6. ASSUME UNCHANGED <<fetched, byTx>>, rcpt' \in {None, body}, Early'
      PROVE  Current'
  BY <1>4, <1>5, <1>6 DEF Current, Early
<1>7. CASE UNCHANGED vars \/ Flip
  <2>1. UNCHANGED <<path, pc, body, rcpt, chunk, fetched, byTx, todo, candidates, mined>>
    BY <1>7 DEF vars, setup, Flip
  <2> QED
    BY <1>5, <2>1, CurrentKept
<1>8. CASE FetchReceipts \/ Verify \/ FetchChunk
  <2>1. UNCHANGED <<fetched, byTx>> /\ rcpt' \in {None, rcpt, body, view} /\ Early'
    BY <1>8 DEF FetchReceipts, Verify, FetchChunk, Early
  <2> QED
    BY <1>4, <1>5, <1>6, <2>1
<1>9. CASE Prepare
  <2>1. /\ pc = "prepare" /\ rcpt' = rcpt /\ mined' = mined
        /\ todo' = {x \in TxsIn[body] : Matched(x)}
        /\ pc' = IF todo' = {} THEN "logs" ELSE "native"
    BY <1>9 DEF Prepare, Matched
  <2>2. absorb(body) \/ UNCHANGED <<fetched, byTx>>
    BY <1>5, <1>9 DEF Prepare, preload
  <2>3. /\ fetched' \in {None, body}
        /\ \A x \in Tx : byTx'[x] \in {"unknown", StatusIn(body, x)}
    BY <1>5, <2>2, AbsorbCurrent
  <2>4. \A x \in Tx : mined'[x] = Unseen
    BY <1>2, <2>1 DEF Early
  <2>5. \A x \in TxsIn[body] : IF x \in todo' THEN Matched(x) ELSE Dealt(x)'
    BY <1>5, <2>1, <2>4 DEF Dealt
  <2>6. pc' = "logs" => \A x \in TxsIn[body] : Dealt(x)'
    BY <2>1, <2>5
  <2> QED
    BY <1>4, <1>5, <2>1, <2>3, <2>5, <2>6 DEF Current
<1>10. CASE Ensure \/ PreloadStatuses
  <2>1. /\ pc \in {"native", "batch"} /\ pc' \in {"batch", "status"}
        /\ UNCHANGED <<rcpt, todo, mined>>
    BY <1>10 DEF Ensure, PreloadStatuses
  <2>2. /\ fetched' \in {None, body}
        /\ \A x \in Tx : byTx'[x] \in {"unknown", StatusIn(body, x)}
    <3>1. CASE Ensure
      BY <1>5, <3>1, EnsureCurrent DEF Ensure
    <3>2. CASE PreloadStatuses
      BY <1>4, <1>5, <3>2 DEF PreloadStatuses
    <3> QED
      BY <1>10, <3>1, <3>2
  <2>3. \A x \in TxsIn[body] : IF x \in todo' THEN Matched(x) ELSE Dealt(x)'
    BY <1>4, <1>5, <2>1 DEF Current, Dealt
  <2> QED
    BY <1>4, <1>5, <2>1, <2>2, <2>3 DEF Current
<1>11. ASSUME NEW x \in Tx, Status(x) PROVE Current'
  <2>1. /\ pc = "status" /\ x \in todo /\ todo' = todo \ {x}
        /\ pc' = (IF todo' = {} THEN "logs" ELSE pc) /\ UNCHANGED <<rcpt, fetched, byTx>>
        /\ \E s \in failed(x) : mined' = IF s = "gone" THEN mined
                                         ELSE [mined EXCEPT ![x] = Found(x, s)]
    BY <1>11 DEF Status
  <2>2. x \in TxsIn[body]
    BY <1>2, <2>1 DEF Within, Early
  <2>3. \A y \in TxsIn[body] : IF y \in todo THEN Matched(y) ELSE Dealt(y)
    BY <1>5, <2>1 DEF Current
  <2>4. failed(x) = {StatusIn(body, x)} /\ StatusIn(body, x) # "gone"
    BY <1>4, <1>5, <2>2 DEF failed, StatusIn
  <2>5. mined' = [mined EXCEPT ![x] = Found(x, StatusIn(body, x))]
    BY <2>1, <2>4
  <2>6. mined = [y \in Tx |-> mined[y]]
    BY <1>2 DEF Shaped
  <2>7. \A y \in Tx : mined'[y] = IF y = x THEN Found(x, StatusIn(body, x)) ELSE mined[y]
    BY <2>5, <2>6
  <2>8. \A y \in TxsIn[body] : IF y \in todo' THEN Matched(y) ELSE Dealt(y)'
    BY <1>4, <1>5, <2>1, <2>2, <2>3, <2>7 DEF Dealt
  <2>9. todo' = {} => \A y \in TxsIn[body] : Dealt(y)'
    BY <2>8
  <2> QED
    BY <1>4, <1>5, <2>1, <2>8, <2>9 DEF Current
<1>12. CASE LogSource
  <2>1. /\ pc = "logs" /\ pc' \in {"logs", "match"}
        /\ UNCHANGED <<path, rcpt, chunk, mined>>
        /\ ensure \/ UNCHANGED <<fetched, byTx>>
    BY <1>12 DEF LogSource, setup
  <2>2. /\ fetched' \in {None, body}
        /\ \A x \in Tx : byTx'[x] \in {"unknown", StatusIn(body, x)}
    BY <1>5, <2>1, EnsureCurrent
  <2>3. \A x \in TxsIn[body] : Dealt(x)'
    BY <1>4, <1>5, <2>1 DEF Current, Dealt
  <2>4. ASSUME pc' = "match", ~StaleChunk' PROVE Brought'
    <3>1. \/ HaveLogs /\ candidates' = Answer(chunk, Filtered(LogsOf(chunk), large))
          \/ fetched # None /\ candidates' = Answer(fetched, [log : LogsOf(fetched), query : {0}])
          \/ candidates' = Answer(view, Filtered(LogsOf(view), large))
      BY <1>12, <2>1, <2>4 DEF LogSource
    <3>2. candidates' = Queried(body) \/ candidates' = Received(body)
      BY <1>4, <1>5, <2>1, <2>4, <3>1 DEF StaleChunk, HaveLogs, Queried, Received
    <3>3. Brings(candidates', body)
      BY <1>2, <3>2, AnswerBrings
    <3> QED
      BY <1>4, <3>3 DEF Brought, Brings
  <2> QED
    BY <1>4, <1>5, <2>1, <2>2, <2>3, <2>4 DEF Current
<1>13. CASE MatchLogs
  <2>1. /\ pc = "match" /\ pc' = "close" /\ UNCHANGED <<path, rcpt, chunk, fetched, byTx>>
        /\ mined' = [x \in Tx |-> WithLegs(mined[x], LegsFrom(x))]
        /\ todo' = {x \in TxsIn[body] \cap Pending : ~mined'[x].seen}
    BY <1>13 DEF MatchLogs, setup
  <2>2. ASSUME ~StaleChunk' PROVE Whole(body)' /\ \A x \in todo' : ~Reported(body, x)
    <3>1. Brought /\ \A x \in TxsIn[body] : Dealt(x)
      BY <1>4, <1>5, <2>1, <2>2 DEF Current, StaleChunk, HaveLogs
    <3>2. PICK b \in Rival : OneCopyEach(candidates, b)
      BY <1>2, <2>1 DEF OfOneBlock
    <3>3. ASSUME NEW x \in TxsIn[body], Reported(body, x)
          PROVE  /\ mined'[x].seen
                 /\ mined'[x].failed = (x \in Reverting[body])
                 /\ {l.leg : l \in mined'[x].legs} = LegsIn(body, x)
      <4>1. x \in Tx /\ Dealt(x)
        BY <1>5, <3>1
      <4>2. mined'[x] = WithLegs(mined[x], LegsFrom(x))
        BY <2>1, <4>1
      <4> QED
        BY <1>5, <3>1, <3>2, <3>3, <4>1, <4>2, WithLegsWhole
    <3> QED
      BY <1>4, <2>1, <3>3 DEF Whole
  <2> QED
    BY <1>4, <1>5, <2>1, <2>2 DEF Current
<1>14. CASE Close
  <2>1. /\ pc = "close" /\ pc' \in {"close", "done"} /\ todo' \subseteq todo
        /\ UNCHANGED <<path, rcpt, chunk>> /\ (ensure \/ UNCHANGED <<fetched, byTx>>)
        /\ \/ mined' = mined
           \/ \E x \in todo : \E m : mined' = [mined EXCEPT ![x] = m]
    BY <1>14 DEF Close, setup
  <2>2. ASSUME ~StaleChunk' PROVE Whole(body)' /\ \A x \in todo' : ~Reported(body, x)
    <3>1. Whole(body) /\ \A x \in todo : ~Reported(body, x)
      BY <1>4, <1>5, <2>1, <2>2 DEF Current, StaleChunk, HaveLogs
    <3>2. mined = [x \in Tx |-> mined[x]]
      BY <1>2 DEF Shaped
    <3>3. \A x \in TxsIn[body] : Reported(body, x) => mined'[x] = mined[x]
      BY <1>5, <2>1, <3>1, <3>2
    <3> QED
      BY <1>4, <2>1, <3>1, <3>3 DEF Whole
  <2>3. /\ fetched' \in {None, body}
        /\ \A x \in Tx : byTx'[x] \in {"unknown", StatusIn(body, x)}
    BY <1>5, <2>1, EnsureCurrent
  <2> QED
    BY <1>4, <1>5, <2>1, <2>2, <2>3 DEF Current
<1>15. CASE GiveUp
  <2>1. pc' = "failed" /\ UNCHANGED <<rcpt, fetched, byTx>>
    BY <1>15 DEF GiveUp
  <2> QED
    BY <1>4, <1>5, <2>1 DEF Current
<1> QED
  BY <1>7, <1>8, <1>9, <1>10, <1>11, <1>12, <1>13, <1>14, <1>15 DEF Next

\* A scan that begins has read the node's block, or nothing.
LEMMA InitWhole == ASSUME Init PROVE WInv
<1>1. /\ left = {} /\ pc = "start" /\ body = (IF path = "tip" THEN view ELSE None)
      /\ rcpt = None /\ fetched = None /\ byTx = [x \in Tx |-> "unknown"]
  BY DEF Init
<1>2. \A x \in Tx : byTx[x] = "unknown"
  BY <1>1
<1> QED
  BY <1>1, <1>2 DEF WInv, Read, Current

-----------------------------------------------------------------------------
(* Theorems *)

\* The variables keep their types, and every scan keeps to its places.
THEOREM TypeCorrect == Spec => []TypeOK
<1>1. Init => OInv
  BY InitOwn
<1>2. OInv /\ [Next]_vars => OInv'
  BY OwnKept
<1>3. OInv => TypeOK
  BY DEF OInv, Places
<1> QED
  BY <1>1, <1>2, <1>3, PTL DEF Spec

\* Whichever path and fallback a scan takes, and whatever the node does
\* between the requests, whatever is reported is of the block scanned, and each
\* transfer once (scanBlock compares the hash of every log); so is the outcome,
\* if the block's own receipts brought it or no rival shown has another one
\* (receiptStatuses does not compare the block of a single receipt).
THEOREM OwnOnce == Spec => []OwnTransfersOnce
<1>1. Init => OInv /\ AInv
  BY InitOwn, InitTold
<1>2. OInv /\ AInv /\ [Next]_vars => OInv' /\ AInv'
  BY OwnKept, ToldKept
<1>3. OInv /\ AInv => OwnTransfersOnce
  BY OutcomeEach DEF OInv, AInv, Outcomes
<1> QED
  BY <1>1, <1>2, <1>3, PTL DEF Spec

\* A finished scan of the block the node ends on has found everything in it,
\* if the node does not come back to a block it has left, nor lags for longer
\* than the retries wait (scanBlock, receiptStatuses, processBlock).
THEOREM WholeFound == ASSUME ~MayReturn, ~LagOutlasts PROVE Spec => []FoundWhole
<1>1. Init => OInv /\ WInv
  BY InitOwn, InitWhole
<1>2. OInv /\ WInv /\ [Next]_vars => OInv' /\ WInv'
  BY OwnKept, WholeKept
<1>3. WInv => FoundWhole
  BY DEF WInv, Current, FoundWhole
<1> QED
  BY <1>1, <1>2, <1>3, PTL DEF Spec

=============================================================================
