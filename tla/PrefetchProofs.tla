---------------------------- MODULE PrefetchProofs ----------------------------
(***************************************************************************)
(* Proofs about the fetch pipeline, for any range, any number of workers,  *)
(* any span, any age cap and any log chunk.                                *)
(*                                                                         *)
(* The invariant follows one slot on its way: it is numbered in `ordered'  *)
(* (InOrder), held by exactly one of the feeder's span, the job channel    *)
(* and the workers until it is filled (HeldOnce, HeldIsOpen), never lost   *)
(* in between (Arrives), and carries its own block (FilledRight) to the    *)
(* consumer (AtConsumer).                                                  *)
(***************************************************************************)
EXTENDS Prefetch, QueueLemmas

\* Somebody will still fill the slot.
Held(k) == \/ k \in span
           \/ \E i \in DOMAIN jobs : k \in jobs[i]
           \/ \E w \in Workers : k \in worker[w].left

\* `ordered' holds the slots handed out and not yet taken, in order.
InOrder == /\ fed = cur + Len(ordered)
           /\ \A i \in 1..Len(ordered) : ordered[i] = cur + i

\* The pending span is the latest of what was handed out.
SpanIsTail == \E lo \in 1..(fed + 1) : span = lo..fed

\* No slot is held twice.
HeldOnce ==
    /\ \A i \in DOMAIN jobs : jobs[i] \cap span = {}
    /\ \A i, j \in DOMAIN jobs : i # j => jobs[i] \cap jobs[j] = {}
    /\ \A w \in Workers : /\ worker[w].left \cap span = {}
                          /\ worker[w].got \subseteq worker[w].left
                          /\ \A i \in DOMAIN jobs : worker[w].left \cap jobs[i] = {}
    /\ \A v, w \in Workers : v # w => worker[v].left \cap worker[w].left = {}

\* A held slot was handed out, is empty, and has not been consumed.
HeldIsOpen ==
    \A k \in Slot : Held(k) => /\ k <= fed /\ slot[k].st = "empty" /\ cur <= k
                               /\ pc \in {"range", "block", "ready"} => cur < k

\* A slot the consumer has still to see is filled or held.
Arrives ==
    \A k \in 1..fed : cur < k \/ (cur = k /\ pc = "wait") =>
        slot[k].st # "empty" \/ Held(k)

\* A slot is filled once it was handed out, and with its own block.
FilledRight ==
    \A k \in Slot : /\ slot[k].st # "empty" => k <= fed
                    /\ slot[k].st = "fetched" => slot[k].num = NumOf(k)

\* What the consumer knows of the block at hand, and of those before it.
AtConsumer ==
    /\ pc \in {"wait", "block", "ready"} => cur >= 1 /\ Len(done) = cur - 1
    /\ pc \in {"block", "ready"} => slot[cur].st = "fetched" /\ NumOf(cur) > cutoff
    /\ pc = "range" => Len(done) = cur
    /\ Len(done) <= cur
    /\ \A i \in 1..Len(done) : done[i].num = NumOf(i)

\* Who has ended, and why.
Endings ==
    /\ pc = "left" <=> outcome # "running"
    /\ cancelled => stopped
    /\ stopped => cancelled \/ pc = "left"
    /\ ~feeding /\ ~stopped => fed = Count /\ span = {}

\* The chunk reaches up to the block at hand, and once fetched for it down to
\* it too.
ChunkReaches ==
    /\ desc /\ chunk.hi > 0 => NumOf(cur) <= chunk.hi
    /\ pc = "ready" => desc /\ (chunk.hi > 0 => chunk.lo <= NumOf(cur))

IInv == /\ TypeOK /\ InOrder /\ SpanIsTail /\ HeldOnce /\ HeldIsOpen /\ Arrives
        /\ FilledRight /\ AtConsumer /\ Endings /\ ChunkReaches /\ LogsCoverBlock

-----------------------------------------------------------------------------
\* The slots are 1..Count, and their numbers lie in the range.
LEMMA Numbers ==
    /\ Count \in Nat \ {0}
    /\ desc \in BOOLEAN =>
         \A k \in Int : /\ NumOf(k) \in Int
                        /\ desc => NumOf(k + 1) = NumOf(k) - 1
                        /\ k \in Slot => NumOf(k) \in First..Final /\ NumOf(k) \in 1..Final
BY RangeAssumption DEF Count, Slot, NumOf

\* The slot buffer exceeds a span.
LEMMA BufferExceedsSpan ==
    ASSUME shape \in Shapes
    PROVE  /\ shape.workers \in Nat \ {0} /\ shape.batch \in Nat \ {0}
           /\ shape.batch < SlotBuffer
<1>1. shape.workers \in Nat \ {0} /\ shape.batch \in Nat \ {0}
  BY ShapeAssumption
<1>2. ASSUME NEW a \in Nat \ {0}, NEW b \in Nat \ {0} PROVE b < 2 * a * b
  <2>1. b <= a * b
    BY SMT
  <2> QED
    BY <2>1, SMT
<1> QED
  BY <1>1, <1>2 DEF SlotBuffer

\* A scan starts with nothing handed out, so nothing is held or processed.
LEMMA InitIInv == Init => IInv
<1> SUFFICES ASSUME Init PROVE IInv
  OBVIOUS
<1>1. TypeOK
  <2>1. shape.workers \in Nat /\ Count \in Nat \ {0}
    BY ShapeAssumption, Numbers DEF Init
  <2>2. shape \in Shapes /\ desc \in BOOLEAN /\ cutoff \in 0..Final /\ feeding \in BOOLEAN
    BY AgeAssumption DEF Init
  <2>3. fed \in 0..Count /\ span \subseteq Slot /\ cur \in 0..Count
    BY <2>1 DEF Init
  <2>4. /\ ordered \in Seq(Slot) /\ jobs \in Seq(SUBSET Slot) /\ Len(jobs) <= shape.workers
        /\ done \in Seq([num : 0..Final, lo : 0..Final, hi : 0..Final])
    BY <2>1 DEF Init
  <2>5. /\ worker \in [Workers -> [left : SUBSET Slot, got : SUBSET Slot]]
        /\ slot \in [Slot -> [st : {"empty", "failed", "fetched"}, num : 0..Final,
                              rcpt : BOOLEAN]]
        /\ chunk \in [size : 0..FirstChunk, lo : 0..Final, hi : 0..Final]
    BY RangeAssumption, ChunkAssumption DEF Init, Empty, NoSpan
  <2> QED
    BY <2>1, <2>2, <2>3, <2>4, <2>5 DEF Init, TypeOK
<1>2. InOrder /\ SpanIsTail /\ HeldOnce /\ HeldIsOpen /\ Arrives
  BY DEF Init, InOrder, SpanIsTail, HeldOnce, HeldIsOpen, Arrives, Held, NoSpan
<1>3. FilledRight /\ AtConsumer /\ Endings /\ ChunkReaches /\ LogsCoverBlock
  BY DEF Init, FilledRight, AtConsumer, Endings, ChunkReaches, LogsCoverBlock, Empty
<1> QED
  BY <1>1, <1>2, <1>3 DEF IInv

\* The block at hand is in no worker's hands any more.
LEMMA ConsumerApart ==
    ASSUME IInv, pc \in {"block", "ready"}
    PROVE  cur \in Slot /\ ~Held(cur)
<1>1. cur \in Int /\ cur >= 1 /\ cur <= Count /\ Count \in Nat
  BY Numbers DEF IInv, TypeOK, AtConsumer
<1>2. cur \in Slot
  BY <1>1 DEF Slot
<1>3. Held(cur) => cur < cur
  BY <1>2 DEF IInv, HeldIsOpen
<1> QED
  BY <1>1, <1>2, <1>3

-----------------------------------------------------------------------------
(* The feeder *)

\* emit: the new slot is the next in order, empty, and held by the span alone.
LEMMA EmitIInv == ASSUME IInv, Emit PROVE IInv'
<1> USE DEF IInv
<1>0. /\ Count \in Nat \ {0} /\ fed \in 0..Count /\ fed + 1 \in Slot /\ Slot = 1..Count
      /\ ordered \in Seq(Slot) /\ cur \in Nat /\ Len(ordered) \in Nat
  BY Numbers DEF TypeOK, Emit, Slot
<1>1. /\ ordered' \in Seq(Slot) /\ Len(ordered') = Len(ordered) + 1
      /\ \A i \in 1..Len(ordered) : ordered'[i] = ordered[i]
      /\ ordered'[Len(ordered) + 1] = fed + 1
  BY <1>0 DEF Emit
<1>2. TypeOK'
  BY <1>0, <1>1 DEF TypeOK, Emit, setup, consumer, Workers
<1>3. InOrder'
  <2>1. fed' = fed + 1 /\ cur' = cur /\ fed = cur + Len(ordered)
    BY DEF Emit, consumer, InOrder
  <2>2. ASSUME NEW i \in 1..(Len(ordered) + 1) PROVE ordered'[i] = cur + i
    <3>1. CASE i = Len(ordered) + 1
      BY <1>0, <1>1, <2>1, <3>1
    <3>2. CASE i \in 1..Len(ordered)
      BY <1>1, <3>2 DEF InOrder
    <3> QED
      BY <1>0, <3>1, <3>2
  <2> QED
    BY <1>0, <1>1, <2>1, <2>2 DEF InOrder
<1>4. SpanIsTail'
  <2>1. PICK lo \in 1..(fed + 1) : span = lo..fed
    BY DEF SpanIsTail
  <2>2. span' = lo..(fed + 1) /\ fed' = fed + 1 /\ lo \in 1..(fed + 2)
    BY <1>0, <2>1 DEF Emit
  <2> QED
    BY <1>0, <2>2 DEF SpanIsTail
<1>5. ~Held(fed + 1) /\ slot[fed + 1].st = "empty"
  BY <1>0 DEF HeldIsOpen, FilledRight
<1>6. HeldOnce'
  BY <1>5 DEF HeldOnce, Held, Emit, setup, Workers
<1>7. \A k : Held(k)' <=> Held(k) \/ k = fed + 1
  BY DEF Held, Emit, setup, Workers
<1>8. HeldIsOpen'
  BY <1>0, <1>5, <1>7 DEF HeldIsOpen, Emit, consumer, InOrder
<1>9. Arrives'
  BY <1>0, <1>7 DEF Arrives, Emit, consumer
<1>10. (FilledRight /\ AtConsumer /\ Endings /\ ChunkReaches /\ LogsCoverBlock)'
  BY <1>0 DEF FilledRight, AtConsumer, Endings, ChunkReaches, LogsCoverBlock, Emit,
     consumer, setup, NumOf
<1> QED
  BY <1>2, <1>3, <1>4, <1>6, <1>8, <1>9, <1>10

\* flush: the span changes hands as a whole.
LEMMA FlushIInv == ASSUME IInv, Flush PROVE IInv'
<1> USE DEF IInv
<1>0. /\ jobs \in Seq(SUBSET Slot) /\ span \in SUBSET Slot /\ Len(jobs) \in Nat
      /\ shape.workers \in Nat /\ fed \in Nat
  BY BufferExceedsSpan DEF TypeOK
<1>1. /\ jobs' \in Seq(SUBSET Slot) /\ Len(jobs') = Len(jobs) + 1
      /\ DOMAIN jobs = 1..Len(jobs) /\ DOMAIN jobs' = 1..(Len(jobs) + 1)
      /\ \A i \in 1..Len(jobs) : jobs'[i] = jobs[i]
      /\ jobs'[Len(jobs) + 1] = span
  BY <1>0 DEF Flush
<1>2. \A i \in DOMAIN jobs' : i \in DOMAIN jobs \/ i = Len(jobs) + 1
  BY <1>0, <1>1
<1>3. TypeOK'
  BY <1>0, <1>1 DEF TypeOK, Flush, setup, consumer, Workers
<1>4. InOrder' /\ SpanIsTail'
  BY <1>0 DEF InOrder, SpanIsTail, Flush, consumer
<1>5. HeldOnce'
  BY <1>0, <1>1, <1>2 DEF HeldOnce, Flush, setup, Workers
<1>6. \A k : Held(k)' <=> Held(k)
  BY <1>0, <1>1, <1>2 DEF Held, Flush, setup, Workers
<1>7. HeldIsOpen' /\ Arrives'
  BY <1>6 DEF HeldIsOpen, Arrives, Flush, consumer
<1>8. (FilledRight /\ AtConsumer /\ Endings /\ ChunkReaches /\ LogsCoverBlock)'
  BY DEF FilledRight, AtConsumer, Endings, ChunkReaches, LogsCoverBlock, Flush,
     consumer, setup, NumOf
<1> QED
  BY <1>3, <1>4, <1>5, <1>7, <1>8

\* The feeder's return closes the channels; what they hold stays.
LEMMA FeederEndsIInv == ASSUME IInv, FeederEnds PROVE IInv'
<1> USE DEF IInv
<1>1. \A k : Held(k)' <=> Held(k)
  BY DEF Held, FeederEnds, setup, Workers
<1>2. TypeOK' /\ InOrder' /\ SpanIsTail' /\ HeldOnce'
  BY ZenonT(40) DEF TypeOK, InOrder, SpanIsTail, HeldOnce, FeederEnds, setup, consumer, Workers
<1>3. HeldIsOpen' /\ Arrives'
  BY <1>1 DEF HeldIsOpen, Arrives, FeederEnds, consumer
<1>4. (FilledRight /\ AtConsumer /\ Endings /\ ChunkReaches /\ LogsCoverBlock)'
  BY DEF FilledRight, AtConsumer, Endings, ChunkReaches, LogsCoverBlock, FeederEnds,
     consumer, setup, NumOf
<1> QED
  BY <1>2, <1>3, <1>4

-----------------------------------------------------------------------------
(* The workers *)

\* A worker takes over the oldest span, or fails every slot of it.
LEMMA TakeSpanIInv == ASSUME IInv, NEW w \in Workers, TakeSpan(w) PROVE IInv'
<1> USE DEF IInv
<1> DEFINE J == Head(jobs)
<1>0. /\ jobs \in Seq(SUBSET Slot) /\ jobs # <<>> /\ Len(jobs) \in Nat \ {0}
      /\ shape.workers \in Nat /\ Len(jobs) <= shape.workers
      /\ worker \in [Workers -> [left : SUBSET Slot, got : SUBSET Slot]]
  BY BufferExceedsSpan DEF TypeOK, TakeSpan
<1>1. /\ jobs' \in Seq(SUBSET Slot) /\ Len(jobs') = Len(jobs) - 1
      /\ J = jobs[1] /\ J \in SUBSET Slot /\ 1 \in DOMAIN jobs
      /\ \A i \in DOMAIN jobs' : jobs'[i] = jobs[i + 1] /\ i + 1 \in DOMAIN jobs /\ i + 1 # 1
      /\ \A i \in DOMAIN jobs : i = 1 \/ \E j \in DOMAIN jobs' : i = j + 1
  BY <1>0, TailShift DEF TakeSpan
<1>2. /\ worker[w].left = {} /\ worker[w].got = {}
  BY DEF TakeSpan, NoSpan
<1>3. /\ UNCHANGED <<setup, feeder, ordered, consumer, cancelled, stopped>>
      /\ shape' = shape /\ Workers' = Workers
  BY DEF TakeSpan, setup, Workers
<1> HIDE DEF J
<1>4. InOrder' /\ SpanIsTail'
  BY <1>3 DEF InOrder, SpanIsTail, feeder, consumer
<1>9. /\ span' = span
      /\ \A i \in DOMAIN jobs' : jobs'[i] \cap span' = {} /\ jobs'[i] \cap J = {}
      /\ \A i, j \in DOMAIN jobs' : i # j => jobs'[i] \cap jobs'[j] = {}
      /\ \A k : (\E i \in DOMAIN jobs : k \in jobs[i]) <=>
           k \in J \/ (\E i \in DOMAIN jobs' : k \in jobs'[i])
  <2>1. span' = span
    BY <1>3 DEF feeder
  <2>2. ASSUME NEW i \in DOMAIN jobs' PROVE jobs'[i] \cap span' = {} /\ jobs'[i] \cap J = {}
    BY <1>1, <2>1 DEF HeldOnce
  <2>3. ASSUME NEW i \in DOMAIN jobs', NEW j \in DOMAIN jobs', i # j
        PROVE  jobs'[i] \cap jobs'[j] = {}
    <3>1. i + 1 # j + 1
      BY <1>1, <2>3
    <3> QED
      BY <1>1, <3>1 DEF HeldOnce
  <2>4. ASSUME NEW k
        PROVE  (\E i \in DOMAIN jobs : k \in jobs[i]) <=>
                 k \in J \/ (\E i \in DOMAIN jobs' : k \in jobs'[i])
    BY <1>1
  <2> QED
    BY <2>1, <2>2, <2>3, <2>4
<1>5. CASE /\ \E got \in SUBSET J : worker' = [worker EXCEPT ![w] = [left |-> J, got |-> got]]
           /\ UNCHANGED slot
  <2>1. PICK got \in SUBSET J : worker' = [worker EXCEPT ![w] = [left |-> J, got |-> got]]
    BY <1>5
  <2>2. /\ worker' \in [Workers -> [left : SUBSET Slot, got : SUBSET Slot]]
        /\ worker'[w].left = J /\ worker'[w].got = got
        /\ \A v \in Workers \ {w} : worker'[v] = worker[v]
    BY <1>0, <1>1, <2>1
  <2>3. TypeOK'
    BY <1>0, <1>1, <1>3, <1>5, <2>2 DEF TypeOK, setup, feeder, consumer
  <2>4. HeldOnce'
    <3>4. \A v \in Workers :
            /\ worker'[v].left \cap span' = {} /\ worker'[v].got \subseteq worker'[v].left
            /\ \A i \in DOMAIN jobs' : worker'[v].left \cap jobs'[i] = {}
      BY SMTT(40), <1>1, <1>9, <2>2 DEF HeldOnce
    <3>5. \A u, v \in Workers : u # v => worker'[u].left \cap worker'[v].left = {}
      BY <1>1, <2>2 DEF HeldOnce
    <3> QED
      BY <1>3, <1>9, <3>4, <3>5 DEF HeldOnce
  <2>5. ASSUME NEW k PROVE Held(k)' <=> Held(k)
    <3>3. (\E v \in Workers : k \in worker'[v].left) <=>
             k \in J \/ (\E v \in Workers : k \in worker[v].left)
      BY <1>2, <2>2
    <3> QED
      BY <1>3, <1>9, <3>3 DEF Held
  <2>6. HeldIsOpen' /\ Arrives'
    BY <1>3, <1>5, <2>5 DEF HeldIsOpen, Arrives, feeder, consumer
  <2>7. (FilledRight /\ AtConsumer /\ Endings /\ ChunkReaches /\ LogsCoverBlock)'
    BY <1>3, <1>5 DEF FilledRight, AtConsumer, Endings, ChunkReaches, LogsCoverBlock,
       feeder, consumer, setup, NumOf
  <2> QED
    BY <1>4, <2>3, <2>4, <2>6, <2>7
<1>6. CASE /\ slot' = [k \in Slot |-> IF k \in J THEN Failed ELSE slot[k]]
           /\ UNCHANGED worker
  <2>1. TypeOK'
    BY <1>0, <1>1, <1>3, <1>6, RangeAssumption
    DEF TypeOK, setup, feeder, consumer, Failed
  <2>2. HeldOnce'
    BY <1>1, <1>3, <1>6, <1>9 DEF HeldOnce
  <2>3. /\ \A k \in J : Held(k)
        /\ \A k : Held(k)' => Held(k) /\ k \notin J
        /\ \A k : Held(k) => Held(k)' \/ k \in J
    BY <1>1, <1>3, <1>6 DEF Held, HeldOnce, feeder
  <2>4. \A k \in Slot : slot'[k] = IF k \in J THEN Failed ELSE slot[k]
    BY <1>6
  <2>5. HeldIsOpen' /\ FilledRight'
    BY <1>1, <1>3, <2>3, <2>4
    DEF HeldIsOpen, FilledRight, Failed, feeder, consumer, setup, NumOf
  <2>6. Arrives'
    <3>1. \A k \in 1..fed : k \in Slot
      BY Numbers DEF TypeOK, Slot
    <3> QED
      BY <1>3, <2>3, <2>4, <3>1 DEF Arrives, Failed, feeder, consumer
  <2>7. AtConsumer'
    <3>1. pc \in {"block", "ready"} => cur \in Slot /\ ~Held(cur)
      BY ConsumerApart
    <3> QED
      BY <1>3, <2>3, <2>4, <3>1 DEF AtConsumer, consumer, setup, NumOf
  <2>8. (Endings /\ ChunkReaches /\ LogsCoverBlock)'
    BY <1>3 DEF Endings, ChunkReaches, LogsCoverBlock, feeder, consumer, setup, NumOf
  <2> QED
    BY <1>4, <2>1, <2>2, <2>5, <2>6, <2>7, <2>8
<1>7. worker[w] = [left |-> {}, got |-> {}]
  BY DEF TakeSpan, NoSpan
<1>8. [worker EXCEPT ![w].left = J] = [worker EXCEPT ![w] = [left |-> J, got |-> {}]]
  <2>1. [worker EXCEPT ![w].left = J] = [worker EXCEPT ![w] = [worker[w] EXCEPT !.left = J]]
    BY <1>0
  <2>2. [worker[w] EXCEPT !.left = J] = [left |-> J, got |-> {}]
    BY <1>7
  <2> QED
    BY <2>1, <2>2
<1> QED
  BY <1>5, <1>6, <1>8 DEF TakeSpan, J

\* A worker fills one of its slots, with the slot's own block or an error.
LEMMA FillIInv ==
    ASSUME IInv, NEW w \in Workers, NEW k \in worker[w].left,
           NEW res \in Result(k) \cup {Failed}, Fill(w, k, res)
    PROVE  IInv'
<1> USE DEF IInv
<1>0. /\ worker \in [Workers -> [left : SUBSET Slot, got : SUBSET Slot]]
      /\ k \in Slot /\ slot \in [Slot -> [st : {"empty", "failed", "fetched"},
                                         num : 0..Final, rcpt : BOOLEAN]]
  BY DEF TypeOK
<1>1. /\ UNCHANGED <<setup, feeder, ordered, jobs, consumer, cancelled, stopped>>
      /\ shape' = shape /\ Workers' = Workers
  BY DEF Fill, setup, Workers
<1>2. /\ res \in [st : {"empty", "failed", "fetched"}, num : 0..Final, rcpt : BOOLEAN]
      /\ res.st \in {"failed", "fetched"} /\ (res.st = "fetched" => res.num = NumOf(k))
  <2>1. NumOf(k) \in 0..Final
    BY SMTT(40), <1>0, Numbers DEF TypeOK, Slot, Count
  <2>2. CASE res = Failed
    BY <2>2, RangeAssumption DEF Failed
  <2>3. CASE res \in Result(k)
    BY <2>1, <2>3 DEF Result, Fetched
  <2> QED
    BY <2>2, <2>3
<1>3. /\ worker' \in [Workers -> [left : SUBSET Slot, got : SUBSET Slot]]
      /\ worker'[w].left = worker[w].left \ {k} /\ worker'[w].got = worker[w].got \ {k}
      /\ \A v \in Workers \ {w} : worker'[v] = worker[v]
  BY <1>0 DEF Fill
<1>4. /\ slot' \in [Slot -> [st : {"empty", "failed", "fetched"}, num : 0..Final,
                             rcpt : BOOLEAN]]
      /\ slot'[k] = res /\ \A j \in Slot \ {k} : slot'[j] = slot[j]
  BY <1>0, <1>2 DEF Fill
<1>5. /\ Held(k)
      /\ \A j : Held(j)' => Held(j) /\ j # k
      /\ \A j : Held(j) => Held(j)' \/ j = k
  BY <1>1, <1>3 DEF Held, HeldOnce, feeder
<1>6. TypeOK'
  BY <1>1, <1>3, <1>4 DEF TypeOK, setup, feeder, consumer
<1>7. InOrder' /\ SpanIsTail'
  BY <1>1 DEF InOrder, SpanIsTail, feeder, consumer
<1>8. HeldOnce'
  BY <1>1, <1>3 DEF HeldOnce, feeder
<1>9. HeldIsOpen' /\ FilledRight'
  BY <1>0, <1>1, <1>2, <1>4, <1>5 DEF HeldIsOpen, FilledRight, feeder, consumer, setup, NumOf
<1>10. Arrives'
  <2>1. \A j \in 1..fed : j \in Slot
    BY Numbers DEF TypeOK, Slot
  <2> QED
    BY <1>1, <1>2, <1>4, <1>5, <2>1 DEF Arrives, feeder, consumer
<1>11. AtConsumer'
  <2>1. pc \in {"block", "ready"} => cur \in Slot /\ ~Held(cur)
    BY ConsumerApart
  <2> QED
    BY <1>1, <1>4, <1>5, <2>1 DEF AtConsumer, consumer, setup, NumOf
<1>12. (Endings /\ ChunkReaches /\ LogsCoverBlock)'
  BY <1>1 DEF Endings, ChunkReaches, LogsCoverBlock, feeder, consumer, setup, NumOf
<1> QED
  BY <1>6, <1>7, <1>8, <1>9, <1>10, <1>11, <1>12

\* fetchSpan fills the slots of a worker's own span only.
LEMMA FetchIInv == ASSUME IInv, NEW w \in Workers, Fetch(w) PROVE IInv'
<1>1. CASE TakeSpan(w)
  BY <1>1, TakeSpanIInv
<1>2. /\ worker[w].got \subseteq worker[w].left
      /\ worker[w].left \in SUBSET Nat /\ worker[w].got \in SUBSET Nat
  <2>1. worker[w].left \subseteq Slot
    BY DEF IInv, TypeOK
  <2>2. Slot \subseteq Nat
    BY Numbers DEF Slot
  <2> QED
    BY <2>1, <2>2 DEF IInv, HeldOnce
<1>3. CASE Deliver(w)
  <2> DEFINE k == Min(worker[w].got)
  <2>1. k \in worker[w].left
    BY <1>2, <1>3, MinIsIn DEF Deliver
  <2>2. PICK res \in Result(k) : Fill(w, k, res)
    BY <1>3 DEF Deliver
  <2> HIDE DEF k
  <2> QED
    BY <2>1, <2>2, FillIInv
<1>4. CASE FetchAlone(w)
  <2> DEFINE k == Min(worker[w].left)
  <2>1. k \in worker[w].left
    BY <1>2, <1>4, MinIsIn DEF FetchAlone
  <2>2. PICK res \in Result(k) \cup {Failed} : Fill(w, k, res)
    BY <1>4 DEF FetchAlone
  <2> HIDE DEF k
  <2> QED
    BY <2>1, <2>2, FillIInv
<1> QED
  BY <1>1, <1>3, <1>4 DEF Fetch

-----------------------------------------------------------------------------
(* The consumer *)

\* The consumer takes the slot after the one it was at.
LEMMA NextSlotIInv == ASSUME IInv, NextSlot PROVE IInv'
<1> USE DEF IInv
<1>0. /\ Count \in Nat \ {0} /\ fed \in 0..Count /\ Slot = 1..Count /\ desc \in BOOLEAN
      /\ ordered \in Seq(Slot) /\ cur \in Nat /\ Len(ordered) \in Nat \ {0}
  BY Numbers DEF TypeOK, NextSlot, Slot
<1>1. /\ UNCHANGED <<setup, feeder, jobs, worker, slot, chunk, done, outcome,
                     cancelled, stopped>>
      /\ shape' = shape /\ Workers' = Workers
  BY DEF NextSlot, setup, Workers
<1>2. /\ cur' = cur + 1 /\ cur' \in Slot /\ fed = cur + Len(ordered)
      /\ pc = "range" /\ pc' = "wait"
  BY <1>0 DEF NextSlot, InOrder
<1>3. /\ ordered' \in Seq(Slot) /\ Len(ordered') = Len(ordered) - 1
      /\ \A i \in 1..(Len(ordered) - 1) : ordered'[i] = ordered[i + 1]
  BY <1>0 DEF NextSlot
<1>4. TypeOK'
  <2>1. cur' \in 0..Count
    BY <1>0, <1>2
  <2> QED
    BY <1>1, <1>2, <1>3, <2>1 DEF TypeOK, setup, feeder
<1>5. InOrder' /\ SpanIsTail'
  <2>1. ASSUME NEW i \in 1..(Len(ordered) - 1) PROVE ordered'[i] = (cur + 1) + i
    <3>1. i + 1 \in 1..Len(ordered)
      BY <1>0
    <3> QED
      BY <1>0, <1>3, <3>1 DEF InOrder
  <2> QED
    BY <1>0, <1>1, <1>2, <1>3, <2>1 DEF InOrder, SpanIsTail, feeder
<1>6. HeldOnce' /\ (\A k : Held(k)' <=> Held(k))
  BY <1>1 DEF HeldOnce, Held, feeder
<1>7. HeldIsOpen'
  BY <1>0, <1>1, <1>2, <1>6 DEF HeldIsOpen, feeder
<1>8. Arrives'
  BY <1>0, <1>1, <1>2, <1>6 DEF Arrives, feeder
<1>9. FilledRight' /\ AtConsumer' /\ Endings' /\ LogsCoverBlock'
  BY <1>0, <1>1, <1>2
  DEF FilledRight, AtConsumer, Endings, LogsCoverBlock, feeder, setup, NumOf
<1>10. ChunkReaches'
  BY <1>0, <1>1, <1>2, RangeAssumption DEF ChunkReaches, TypeOK, setup, NumOf
<1> QED
  BY <1>4, <1>5, <1>6, <1>7, <1>8, <1>9, <1>10

\* Whatever ends the scan, the goroutines keep what they hold.
LEMMA LeaveIInv ==
    ASSUME IInv, NEW how \in {"saved", "failed"}, Leave(how), pc # "left",
           UNCHANGED <<ordered, slot>>
    PROVE  IInv'
<1> USE DEF IInv
<1>1. /\ UNCHANGED <<setup, feeder, ordered, jobs, worker, slot, cur, chunk, done, cancelled>>
      /\ shape' = shape /\ Workers' = Workers
      /\ pc' = "left" /\ outcome' = how /\ stopped' = TRUE
  BY DEF Leave, setup, Workers
<1>2. TypeOK' /\ InOrder' /\ SpanIsTail'
  BY <1>1 DEF TypeOK, InOrder, SpanIsTail, setup, feeder
<1>3. HeldOnce' /\ (\A k : Held(k)' <=> Held(k))
  BY <1>1 DEF HeldOnce, Held, feeder
<1>4. HeldIsOpen' /\ Arrives'
  BY <1>1, <1>3 DEF HeldIsOpen, Arrives, feeder
<1>5. FilledRight' /\ AtConsumer' /\ Endings' /\ ChunkReaches' /\ LogsCoverBlock'
  <2>1. Len(done) <= cur
    BY DEF AtConsumer
  <2> QED
    BY <1>1, <2>1
    DEF FilledRight, AtConsumer, Endings, ChunkReaches, LogsCoverBlock, feeder, setup, NumOf
<1> QED
  BY <1>2, <1>3, <1>4, <1>5

\* The consumer turns to the block it received.
LEMMA ReceiveIInv == ASSUME IInv, Receive PROVE IInv'
<1>1. CASE slot[cur].st = "failed" \/ slot[cur].num <= cutoff
  <2>1. \E how \in {"saved", "failed"} : Leave(how)
    BY <1>1 DEF Receive, Finish
  <2> QED
    BY <2>1, LeaveIInv DEF Receive
<1>2. CASE slot[cur].st # "failed" /\ ~(slot[cur].num <= cutoff)
  <2> USE DEF IInv
  <2>1. /\ UNCHANGED <<setup, feeder, ordered, jobs, worker, slot, cur, chunk, done, outcome,
                       cancelled, stopped>>
        /\ shape' = shape /\ Workers' = Workers /\ pc = "wait" /\ pc' = "block"
    BY <1>2 DEF Receive, setup, Workers
  <2>2. TypeOK' /\ InOrder' /\ SpanIsTail'
    BY <2>1 DEF TypeOK, InOrder, SpanIsTail, setup, feeder
  <2>3. HeldOnce' /\ (\A k : Held(k)' <=> Held(k))
    BY <2>1 DEF HeldOnce, Held, feeder
  <2>4. cur \in Slot /\ cur \in Nat
    BY <2>1, Numbers DEF TypeOK, AtConsumer, Slot
  <2>5. /\ slot[cur].st = "fetched" /\ slot[cur].num = NumOf(cur)
        /\ NumOf(cur) > cutoff /\ ~Held(cur)
    <3>1. slot[cur].st = "fetched"
      BY <1>2, <2>4 DEF Receive, TypeOK
    <3>2. slot[cur].num = NumOf(cur) /\ ~Held(cur)
      BY <2>4, <3>1 DEF FilledRight, HeldIsOpen
    <3>3. NumOf(cur) \in Int /\ cutoff \in Int
      BY <2>4, Numbers DEF TypeOK
    <3> QED
      BY <1>2, <3>1, <3>2, <3>3
  <2>6. HeldIsOpen'
    <3>1. ASSUME NEW k \in Slot, Held(k) PROVE cur < k
      <4>1. cur <= k /\ k # cur /\ k \in Nat
        BY <2>4, <2>5, <3>1, Numbers DEF HeldIsOpen, Slot
      <4> QED
        BY <2>4, <4>1
    <3> QED
      BY <2>1, <2>3, <3>1 DEF HeldIsOpen, feeder
  <2>7. Arrives'
    BY <2>1, <2>3 DEF Arrives, feeder
  <2>8. FilledRight' /\ AtConsumer' /\ Endings' /\ ChunkReaches' /\ LogsCoverBlock'
    BY <2>1, <2>5
    DEF FilledRight, AtConsumer, Endings, ChunkReaches, LogsCoverBlock, feeder, setup, NumOf
  <2> QED
    BY <2>2, <2>3, <2>6, <2>7, <2>8
<1> QED
  BY <1>1, <1>2

\* The block at hand is the one its slot carries.
LEMMA BlockAtHand ==
    ASSUME IInv, pc \in {"block", "ready"}
    PROVE  /\ cur \in Slot /\ slot[cur].num = NumOf(cur) /\ NumOf(cur) \in First..Final
           /\ NumOf(cur) > cutoff /\ Len(done) = cur - 1
<1>1. cur \in Slot /\ desc \in BOOLEAN
  BY ConsumerApart DEF IInv, TypeOK
<1>2. slot[cur].num = NumOf(cur) /\ NumOf(cur) > cutoff /\ Len(done) = cur - 1
  BY <1>1 DEF IInv, AtConsumer, FilledRight
<1>3. cur \in Int
  BY <1>1, Numbers DEF Slot
<1> QED
  BY <1>1, <1>2, <1>3, Numbers

\* A fetched chunk holds the block it was fetched for.
LEMMA FetchChunkIInv == ASSUME IInv, FetchChunk PROVE IInv'
<1> USE DEF IInv
<1> DEFINE n == slot[cur].num
<1>1. /\ UNCHANGED <<setup, feeder, ordered, jobs, worker, slot, cur, done, outcome,
                     cancelled, stopped>>
      /\ shape' = shape /\ Workers' = Workers /\ pc = "block" /\ pc' = "ready"
  BY DEF FetchChunk, setup, Workers
<1>2. /\ desc /\ chunk.size > 0 /\ n = NumOf(cur) /\ n \in First..Final /\ cur \in Slot
      /\ chunk.size \in 1..FirstChunk
  <2>1. pc \in {"block", "ready"}
    BY <1>1
  <2> QED
    BY SMTT(40), <2>1, BlockAtHand, ChunkAssumption DEF FetchChunk, WantsChunk, TypeOK
<1> HIDE DEF n
<1>3. /\ chunk' \in [size : 0..FirstChunk, lo : 0..Final, hi : 0..Final]
      /\ chunk'.hi = 0 \/ (chunk'.hi = n /\ chunk'.lo <= n)
  <2>1. ChunkLo(n) \in 0..Final /\ ChunkLo(n) <= n /\ n \in 0..Final
    BY <1>2, RangeAssumption, ChunkAssumption DEF ChunkLo
  <2>2. CASE chunk' = [chunk EXCEPT !.lo = ChunkLo(n), !.hi = n]
    BY <2>1, <2>2 DEF TypeOK
  <2>3. CASE chunk' = Halved
    <3>1. chunk.size \div 2 \in 0..FirstChunk
      BY <1>2, ChunkAssumption
    <3> QED
      BY <2>3, <3>1, RangeAssumption, ChunkAssumption DEF Halved
  <2> QED
    BY <2>2, <2>3 DEF FetchChunk, n
<1>4. TypeOK' /\ InOrder' /\ SpanIsTail'
  BY <1>1, <1>3 DEF TypeOK, InOrder, SpanIsTail, setup, feeder
<1>5. HeldOnce' /\ (\A k : Held(k)' <=> Held(k))
  BY <1>1 DEF HeldOnce, Held, feeder
<1>6. HeldIsOpen' /\ Arrives'
  BY <1>1, <1>5 DEF HeldIsOpen, Arrives, feeder
<1>7. FilledRight' /\ AtConsumer' /\ Endings' /\ LogsCoverBlock'
  BY <1>1 DEF FilledRight, AtConsumer, Endings, LogsCoverBlock, feeder, setup, NumOf
<1>8. ChunkReaches'
  BY <1>1, <1>2, <1>3, RangeAssumption DEF ChunkReaches, setup, NumOf
<1> QED
  BY <1>4, <1>5, <1>6, <1>7, <1>8

\* The range that served the block at hand held it.
LEMMA LogRangeCovers ==
    ASSUME IInv, AtBlock
    PROVE  LET r == LogRange(slot[cur].num)
           IN  /\ r \in [num : 0..Final, lo : 0..Final, hi : 0..Final]
               /\ r.num = NumOf(cur) /\ r.num \in r.lo..r.hi
<1>1. pc \in {"block", "ready"}
  BY DEF AtBlock
<1>2. /\ cur \in Slot /\ slot[cur].num = NumOf(cur) /\ NumOf(cur) \in First..Final
      /\ NumOf(cur) \in 0..Final
  BY <1>1, BlockAtHand, RangeAssumption
<1>3. chunk.lo \in 0..Final /\ chunk.hi \in 0..Final
  BY DEF IInv, TypeOK
<1>4. CASE desc /\ ~slot[cur].rcpt /\ chunk.size > 0 /\ chunk.hi > 0
  <2>1. NumOf(cur) <= chunk.hi
    BY <1>4 DEF IInv, ChunkReaches
  <2>2. chunk.lo <= NumOf(cur)
    BY <1>2, <1>3, <1>4 DEF AtBlock, WantsChunk, IInv, ChunkReaches
  <2> QED
    BY <1>2, <1>3, <1>4, <2>1, <2>2 DEF LogRange
<1>5. CASE ~(desc /\ ~slot[cur].rcpt /\ chunk.size > 0 /\ chunk.hi > 0)
  BY <1>2, <1>5 DEF LogRange
<1> QED
  BY <1>4, <1>5

\* processBlock: the block joins the processed ones, its slot is garbage.
LEMMA ProcessSlotIInv == ASSUME IInv, ProcessSlot PROVE IInv'
<1> USE DEF IInv
<1> DEFINE r == LogRange(slot[cur].num)
<1>1. /\ UNCHANGED <<setup, feeder, ordered, jobs, worker, cur, chunk, outcome,
                     cancelled, stopped>>
      /\ shape' = shape /\ Workers' = Workers /\ pc \in {"block", "ready"} /\ pc' = "range"
  BY DEF ProcessSlot, AtBlock, setup, Workers
<1>2. cur \in Slot /\ ~Held(cur) /\ Len(done) = cur - 1 /\ cur \in Nat
  BY <1>1, BlockAtHand, ConsumerApart, Numbers DEF Slot
<1>3. /\ r \in [num : 0..Final, lo : 0..Final, hi : 0..Final]
      /\ r.num = NumOf(cur) /\ r.num \in r.lo..r.hi
  BY LogRangeCovers DEF ProcessSlot
<1>4. done' = Append(done, r)
  BY DEF ProcessSlot
<1> HIDE DEF r
<1>5. /\ done \in Seq([num : 0..Final, lo : 0..Final, hi : 0..Final])
      /\ slot \in [Slot -> [st : {"empty", "failed", "fetched"}, num : 0..Final,
                            rcpt : BOOLEAN]]
  BY DEF TypeOK
<1>6. /\ done' \in Seq([num : 0..Final, lo : 0..Final, hi : 0..Final])
      /\ Len(done') = cur /\ done'[cur] = r
      /\ \A i \in 1..(cur - 1) : done'[i] = done[i]
  BY <1>2, <1>3, <1>4, <1>5
<1>7. /\ slot' \in [Slot -> [st : {"empty", "failed", "fetched"}, num : 0..Final,
                             rcpt : BOOLEAN]]
      /\ slot'[cur].st = "empty" /\ \A k \in Slot \ {cur} : slot'[k] = slot[k]
  BY <1>2, <1>5, RangeAssumption DEF ProcessSlot, Empty
<1>8. TypeOK' /\ InOrder' /\ SpanIsTail'
  BY <1>1, <1>6, <1>7 DEF TypeOK, InOrder, SpanIsTail, setup, feeder
<1>9. HeldOnce' /\ (\A k : Held(k)' <=> Held(k))
  BY <1>1 DEF HeldOnce, Held, feeder
<1>10. HeldIsOpen'
  BY <1>1, <1>2, <1>7, <1>9 DEF HeldIsOpen, feeder
<1>11. Arrives'
  <2>1. \A k \in 1..fed : k \in Slot
    BY Numbers DEF TypeOK, Slot
  <2>2. \A k \in 1..fed : cur < k => k # cur
    BY <1>2
  <2> QED
    BY <1>1, <1>7, <1>9, <2>1, <2>2 DEF Arrives, feeder
<1>12. FilledRight' /\ Endings' /\ ChunkReaches'
  BY <1>1, <1>7 DEF FilledRight, Endings, ChunkReaches, feeder, setup, NumOf
<1>13. \A i \in 1..cur : i = cur \/ i \in 1..(cur - 1)
  BY <1>2
<1>14. AtConsumer'
  <2>1. \A i \in 1..cur : done'[i].num = NumOf(i)
    BY <1>2, <1>3, <1>6, <1>13 DEF AtConsumer
  <2> QED
    BY <1>1, <1>2, <1>6, <2>1 DEF AtConsumer, setup, NumOf
<1>15. LogsCoverBlock'
  <2>1. DOMAIN done' = 1..cur /\ DOMAIN done = 1..(cur - 1)
    BY <1>2, <1>5, <1>6
  <2> QED
    BY <1>3, <1>6, <1>13, <2>1 DEF LogsCoverBlock
<1> QED
  BY <1>8, <1>9, <1>10, <1>11, <1>12, <1>14, <1>15

\* The session's end stops the feeder and touches nothing else.
LEMMA CancelIInv == ASSUME IInv, Cancel PROVE IInv'
<1> USE DEF IInv
<1>1. \A k : Held(k)' <=> Held(k)
  BY DEF Held, Cancel, setup, feeder, Workers
<1>2. TypeOK' /\ InOrder' /\ SpanIsTail' /\ HeldOnce'
  BY DEF TypeOK, InOrder, SpanIsTail, HeldOnce, Cancel, setup, feeder, consumer, Workers
<1>3. HeldIsOpen' /\ Arrives'
  BY <1>1 DEF HeldIsOpen, Arrives, Cancel, feeder, consumer
<1>4. (FilledRight /\ AtConsumer /\ Endings /\ ChunkReaches /\ LogsCoverBlock)'
  BY DEF FilledRight, AtConsumer, Endings, ChunkReaches, LogsCoverBlock, Cancel,
     feeder, consumer, setup, NumOf
<1> QED
  BY <1>2, <1>3, <1>4

\* Every step keeps the invariant.
LEMMA NextIInv == ASSUME IInv, [Next]_vars PROVE IInv'
<1>1. CASE Feed
  BY <1>1, EmitIInv, FlushIInv, FeederEndsIInv DEF Feed
<1>2. CASE \E w \in Workers : Fetch(w)
  BY <1>2, FetchIInv
<1>3. CASE Consume
  <2>1. CASE RangeEnds
    <3>1. \E how \in {"saved", "failed"} : Leave(how)
      BY <2>1 DEF RangeEnds, Finish
    <3> QED
      BY <2>1, <3>1, LeaveIInv DEF RangeEnds
  <2>2. CASE GiveUp \/ ProcessFails
    BY <2>2, LeaveIInv DEF GiveUp, ProcessFails
  <2> QED
    BY <1>3, <2>1, <2>2, NextSlotIInv, ReceiveIInv, FetchChunkIInv, ProcessSlotIInv
    DEF Consume
<1>4. CASE Cancel
  BY <1>4, CancelIInv
<1>5. CASE UNCHANGED vars
  <2>1. UNCHANGED <<setup, feeder, ordered, jobs, worker, slot, consumer, cancelled, stopped>>
    BY <1>5 DEF vars
  <2>2. \A k : Held(k)' <=> Held(k)
    BY <2>1 DEF Held, setup, feeder, Workers
  <2>3. (TypeOK /\ InOrder /\ SpanIsTail /\ HeldOnce)'
    BY <2>1
    DEF IInv, TypeOK, InOrder, SpanIsTail, HeldOnce, setup, feeder, consumer, Workers
  <2>4. HeldIsOpen' /\ Arrives'
    BY <2>1, <2>2 DEF IInv, HeldIsOpen, Arrives, feeder, consumer
  <2>5. (FilledRight /\ AtConsumer /\ Endings /\ ChunkReaches /\ LogsCoverBlock)'
    BY <2>1 DEF IInv, FilledRight, AtConsumer, Endings, ChunkReaches, LogsCoverBlock,
       feeder, consumer, setup, NumOf
  <2> QED
    BY <2>3, <2>4, <2>5 DEF IInv
<1> QED
  BY <1>1, <1>2, <1>3, <1>4, <1>5 DEF Next

\* IInv is an inductive invariant of the pipeline.
LEMMA Inductive == Spec => []IInv
BY InitIInv, NextIInv, PTL DEF Spec

-----------------------------------------------------------------------------
(* What the pipeline guarantees *)

\* The channels hold slots and keep their capacities, whatever goroutine moves.
THEOREM TypeCorrect == Spec => []TypeOK
<1>1. IInv => TypeOK
  BY DEF IInv
<1> QED
  BY <1>1, Inductive, PTL

\* A block's logs come from a query whose range held the block.
THEOREM LogsComplete == Spec => []LogsCoverBlock
<1>1. IInv => LogsCoverBlock
  BY DEF IInv
<1> QED
  BY <1>1, Inductive, PTL

\* Consumer and feeder never wait for each other: the slot the consumer waits
\* for is filled, in the hands of a worker, dispatched, or in the span of a
\* feeder that can move, since `ordered' has room for more than a span.
THEOREM NeverStalls == Spec => []NoStall
<1>1. ASSUME IInv PROVE NoStall
  <2> SUFFICES ASSUME pc = "wait", cur \in span, ~FeederMoves PROVE FALSE
    <3>1. pc = "wait" => cur \in 1..fed
      BY Numbers, <1>1 DEF IInv, TypeOK, AtConsumer, InOrder
    <3>2. pc = "wait" => slot[cur].st # "empty" \/ Held(cur)
      BY <1>1, <3>1 DEF IInv, Arrives
    <3> QED
      BY <3>2 DEF NoStall, Held
  <2>1. /\ fed \in Nat /\ cur \in Nat /\ Len(ordered) \in Nat /\ fed = cur + Len(ordered)
        /\ shape.batch \in Nat /\ shape.workers \in Nat /\ shape.batch < SlotBuffer
        /\ SlotBuffer \in Int
    <3>1. shape.batch \in Nat /\ shape.workers \in Nat /\ shape.batch < SlotBuffer
      BY <1>1, BufferExceedsSpan DEF IInv, TypeOK
    <3>2. SlotBuffer \in Int
      BY <3>1 DEF SlotBuffer
    <3>3. fed \in Nat /\ cur \in Nat /\ Len(ordered) \in Nat /\ fed = cur + Len(ordered)
      BY <1>1, Numbers DEF IInv, TypeOK, InOrder
    <3> QED
      BY <3>1, <3>2, <3>3
  <2>2. PICK lo \in 1..(fed + 1) : span = lo..fed
    BY <1>1 DEF IInv, SpanIsTail
  <2>3. lo <= cur /\ cur <= fed /\ lo \in Int
    BY <2>1, <2>2
  <2>4. Cardinality(span) = fed - lo + 1
    BY <2>1, <2>2, <2>3, FS_Interval
  <2>5. Len(ordered) < Cardinality(span)
    BY <2>1, <2>3, <2>4
  <2> QED
    BY <2>1, <2>3, <2>4, <2>5 DEF FeederMoves
<1> QED
  BY <1>1, Inductive, PTL

-----------------------------------------------------------------------------
(* The pipeline implements an ordered scan *)

\* The numbers processed so far, as OrderedScan sees them.
Numbered == [i \in DOMAIN done |-> done[i].num]

\* A step that leaves done and the outcome alone does not show.
Unseen == UNCHANGED <<desc, cutoff, done, outcome>>

\* The mapped sequence is as long as the processed one.
LEMMA MappedLength ==
    ASSUME TypeOK
    PROVE  /\ Numbered \in Seq(Nat) /\ Len(Numbered) = Len(done)
           /\ \A i \in 1..Len(done) : Numbered[i] = done[i].num
<1>1. /\ done \in Seq([num : 0..Final, lo : 0..Final, hi : 0..Final])
      /\ DOMAIN done = 1..Len(done) /\ Len(done) \in Nat
  BY DEF TypeOK
<1>2. ASSUME NEW i \in 1..Len(done) PROVE done[i].num \in Nat
  <2>1. done[i] \in [num : 0..Final, lo : 0..Final, hi : 0..Final]
    BY <1>1, <1>2, ElementOfSeq
  <2> QED
    BY <2>1, RangeAssumption
<1> QED
  BY <1>1, <1>2 DEF Numbered

\* A scan that leaves with an error fails, in the abstract scan too.
LEMMA LeaveFails ==
    ASSUME outcome = "running", Leave("failed")
    PROVE  Abstract!Fail
BY DEF Leave, setup, Abstract!Fail

\* The consumer saves a resume point when it reaches the age cutoff, or when
\* the range is through: a session that ended earlier is noticed first.
LEMMA FinishSaves ==
    ASSUME IInv, outcome = "running", Finish,
           cancelled \/ Len(done) = Count \/ NumOf(Len(done) + 1) <= cutoff
    PROVE  Abstract!Save \/ Abstract!Fail
<1>1. CASE cancelled
  BY <1>1, LeaveFails DEF Finish
<1>2. CASE ~cancelled
  <2>1. Len(Numbered) = Len(done)
    BY MappedLength DEF IInv
  <2>2. outcome' = "saved" /\ UNCHANGED <<desc, cutoff, done>>
    BY <1>2 DEF Finish, Leave, setup
  <2>3. Len(done) = Abstract!Length \/ Abstract!Num(Len(done) + 1) <= cutoff
    BY <1>2 DEF Abstract!Length, Count, Abstract!Num, NumOf
  <2> QED
    BY <2>1, <2>2, <2>3 DEF Abstract!Save, Numbered
<1> QED
  BY <1>1, <1>2

\* A processed block is the next in scan order, and not too old.
LEMMA ProcessSteps == ASSUME IInv, ProcessSlot PROVE Abstract!Step
<1>1. pc \in {"block", "ready"}
  BY DEF ProcessSlot, AtBlock
<1>2. /\ cur \in Slot /\ cur \in Nat /\ cur <= Count /\ Len(done) + 1 = cur
      /\ slot[cur].num = NumOf(cur) /\ NumOf(cur) > cutoff /\ outcome = "running"
  BY <1>1, BlockAtHand, Numbers DEF IInv, Endings, Slot
<1>3. Len(Numbered) = Len(done) /\ Numbered \in Seq(Nat)
  BY MappedLength DEF IInv
<1>4. Numbered' = Append(Numbered, NumOf(cur))
  <2> DEFINE r == LogRange(slot[cur].num)
  <2>1. r.num = NumOf(cur) /\ NumOf(cur) \in Nat
    BY <1>2, LogRangeCovers, Numbers, BlockAtHand, <1>1, RangeAssumption DEF ProcessSlot
  <2>2. done' = Append(done, r) /\ done \in Seq([num : 0..Final, lo : 0..Final, hi : 0..Final])
    BY DEF ProcessSlot, IInv, TypeOK
  <2> HIDE DEF r
  <2>3. /\ DOMAIN done' = 1..(Len(done) + 1) /\ DOMAIN done = 1..Len(done)
        /\ Len(done) \in Nat /\ done'[Len(done) + 1] = r
        /\ \A i \in 1..Len(done) : done'[i] = done[i]
    BY <2>2
  <2>4. DOMAIN Numbered' = 1..(Len(done) + 1)
    BY <2>3 DEF Numbered
  <2>5. /\ Append(Numbered, NumOf(cur)) \in Seq(Nat)
        /\ DOMAIN Append(Numbered, NumOf(cur)) = 1..(Len(done) + 1)
        /\ Append(Numbered, NumOf(cur))[Len(done) + 1] = NumOf(cur)
        /\ \A i \in 1..Len(done) : Append(Numbered, NumOf(cur))[i] = Numbered[i]
    BY <1>3, <2>1
  <2>6. ASSUME NEW i \in 1..(Len(done) + 1)
        PROVE  Numbered'[i] = Append(Numbered, NumOf(cur))[i]
    <3>1. CASE i = Len(done) + 1
      BY <2>1, <2>3, <2>5, <3>1 DEF Numbered
    <3>2. CASE i \in 1..Len(done)
      BY <2>3, <2>5, <3>2 DEF Numbered
    <3>3. i = Len(done) + 1 \/ i \in 1..Len(done)
      <4>1. Len(done) \in Nat
        BY <2>3
      <4> QED
        BY <4>1
    <3> QED
      BY <3>1, <3>2, <3>3
  <2>7. Numbered' = [i \in 1..(Len(done) + 1) |-> Numbered'[i]]
    BY <2>3 DEF Numbered
  <2>8. Append(Numbered, NumOf(cur))
          = [i \in 1..(Len(done) + 1) |-> Append(Numbered, NumOf(cur))[i]]
    <3> DEFINE A == Append(Numbered, NumOf(cur))
    <3>1. A \in Seq(Nat) /\ DOMAIN A = 1..(Len(done) + 1)
      BY <2>5
    <3> HIDE DEF A
    <3>2. A = [i \in DOMAIN A |-> A[i]]
      BY <3>1, SeqDef
    <3> QED
      BY <3>1, <3>2 DEF A
  <2> QED
    BY <2>6, <2>7, <2>8
<1>5. Len(done) < Count /\ Abstract!Num(Len(done) + 1) = NumOf(cur)
  BY <1>2, Numbers DEF Abstract!Num, NumOf
<1>6. UNCHANGED <<desc, cutoff, outcome>>
  BY DEF ProcessSlot, setup
<1> QED
  BY <1>2, <1>3, <1>4, <1>5, <1>6 DEF Abstract!Step, Abstract!Length, Count, Numbered

\* Every step of the pipeline is a step of the ordered scan, or does not show.
LEMMA PipelineStep ==
    ASSUME IInv, [Next]_vars
    PROVE  Abstract!Next \/ Unseen
<1>1. CASE UNCHANGED vars
  BY <1>1 DEF vars, setup, consumer, Unseen
<1>2. CASE Feed \/ Cancel
  BY <1>2 DEF Feed, Emit, Flush, FeederEnds, Cancel, setup, consumer, Unseen
<1>3. CASE \E w \in Workers : Fetch(w)
  BY <1>3 DEF Fetch, TakeSpan, Deliver, FetchAlone, Fill, setup, consumer, Unseen
<1>4. CASE Consume
  <2>1. CASE NextSlot \/ FetchChunk
    BY <2>1 DEF NextSlot, FetchChunk, setup, Unseen
  <2>2. CASE RangeEnds
    <3>1. outcome = "running" /\ Finish
      BY <2>2 DEF RangeEnds, IInv, Endings
    <3>2. cancelled \/ Len(done) = Count
      <4>1. ASSUME ~cancelled PROVE Len(done) = Count
        <5>1. fed = Count /\ Len(ordered) = 0 /\ Len(done) = cur /\ fed = cur + Len(ordered)
          BY <2>2, <4>1 DEF RangeEnds, IInv, Endings, AtConsumer, InOrder
        <5> QED
          BY <5>1 DEF IInv, TypeOK
      <4> QED
        BY <4>1
    <3> QED
      BY <3>1, <3>2, FinishSaves DEF Abstract!Next
  <2>3. CASE Receive
    <3>1. outcome = "running" /\ cur \in Slot /\ Len(done) + 1 = cur
      BY <2>3, Numbers DEF Receive, IInv, TypeOK, Endings, AtConsumer, Slot
    <3>2. CASE slot[cur].st = "failed"
      BY <2>3, <3>1, <3>2, LeaveFails DEF Receive, Abstract!Next
    <3>3. CASE slot[cur].st # "failed" /\ slot[cur].num <= cutoff
      <4>1. slot[cur].num = NumOf(cur)
        BY <2>3, <3>1, <3>3 DEF Receive, IInv, TypeOK, FilledRight
      <4> QED
        BY <2>3, <3>1, <3>3, <4>1, FinishSaves DEF Receive, Abstract!Next
    <3>4. CASE slot[cur].st # "failed" /\ ~(slot[cur].num <= cutoff)
      BY <2>3, <3>4 DEF Receive, setup, Unseen
    <3> QED
      BY <3>2, <3>3, <3>4
  <2>4. CASE GiveUp \/ ProcessFails
    BY <2>4, LeaveFails DEF GiveUp, ProcessFails, IInv, Endings, Abstract!Next
  <2> QED
    BY <1>4, <2>1, <2>2, <2>3, <2>4, ProcessSteps DEF Consume, Abstract!Next
<1> QED
  BY <1>1, <1>2, <1>3, <1>4 DEF Next

\* The pipeline does not show: blocks are processed one by one in scan order,
\* and a scan that was cut short never saves a resume point.
THEOREM Pipelined == Spec => ScansInOrder
<1>1. Init => Abstract!Init
  BY AgeAssumption DEF Init, Abstract!Init
<1>2. IInv /\ [Next]_vars => [Abstract!Next]_(Abstract!vars)
  BY PipelineStep DEF Unseen, Abstract!vars
<1> QED
  BY <1>1, <1>2, Inductive, PTL DEF Spec, ScansInOrder, Abstract!Spec

=============================================================================
