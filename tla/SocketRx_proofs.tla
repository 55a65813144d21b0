--------------------------- MODULE SocketRx_proofs ---------------------------
(***************************************************************************)
(* Proofs that receiving implements ByteChannel (bytes reach the           *)
(* application in order, none twice, and without a gap unless bytes were   *)
(* dropped), when bytes are dropped, that pending_bytes counts the         *)
(* segments and that no wake-up is lost -- for every buffer, segment and   *)
(* read size.                                                              *)
(***************************************************************************)
EXTENDS SocketRx, SequenceTheorems, FiniteSetTheorems, TLAPS

\* The queue holds the segments between front and sent, in order.
QueueOK ==
  /\ front <= sent
  /\ \A i \in DOMAIN queue : front < queue[i] /\ queue[i] <= sent
  /\ \A i, j \in DOMAIN queue : i < j => queue[i] < queue[j]

Copied == rd.pc = "stop" /\ rd.n > 0

\* The end of what the application has, or is about to be given.
Mark == IF Copied THEN rd.from + rd.n ELSE chunk.to

\* What was handed over, what is being handed over, the leftover and the modem's
\* data follow each other in the stream.
InOrder ==
  /\ Mark <= front
  /\ Copied => chunk.to <= rd.from
  /\ ~IsEmpty(buf) => Mark <= buf.base + buf.head /\ buf.base + buf.tail <= front

\* They follow each other without a gap.
NoGap ==
  /\ Copied => chunk.to = rd.from
  /\ rd.pc = "stop" => rd.n > 0
  /\ IF IsEmpty(buf) THEN Mark = front
     ELSE Mark = buf.base + buf.head /\ buf.base + buf.tail = front

ReaderOK ==
  /\ rd.pc \in {"read", "stop", "blocked"} => rd.want \in ReadSizes
  /\ rd.pc = "read" => IsEmpty(buf)
  /\ proto # "TCP" => IsEmpty(buf)

RxInv == TypeOK /\ QueueOK /\ InOrder /\ ReaderOK /\ (lossy \/ NoGap)

BufType == [base : Nat, head : Nat, tail : 0 .. BufSize]

-----------------------------------------------------------------------------
(* The buffer and the queue.                                                *)

LEMMA LeastOf ==
  ASSUME NEW a \in Nat, NEW b \in Nat
  PROVE  Least(a, b) \in Nat /\ Least(a, b) <= a /\ Least(a, b) <= b
         /\ (a > 0 /\ b > 0 => Least(a, b) > 0)
BY DEF Least

LEMMA QueueElement == ASSUME NEW q \in Seq(Nat), NEW i \in DOMAIN q PROVE q[i] \in Nat
OBVIOUS

LEMMA ResetEmpties ==
  ASSUME NEW b \in BufType
  PROVE  Reset(b) \in BufType /\ IsEmpty(Reset(b))
<1>1. Reset(b) = [b EXCEPT !.head = 0, !.tail = 0]
  BY DEF Reset
<1>2. Reset(b).head = 0 /\ Reset(b).tail = 0
  BY <1>1 DEF BufType
<1>3. 0 \in 0 .. BufSize
  BY BufSizeAssumption
<1>4. Reset(b) \in BufType
  <2>1. Reset(b) = [base |-> b.base, head |-> 0, tail |-> 0] /\ b.base \in Nat
    BY <1>1 DEF BufType
  <2>2. QED
    BY <1>3, <2>1 DEF BufType
<1>5. QED
  BY <1>2, <1>4 DEF IsEmpty

\* Taking n bytes leaves the rest where it was, or an empty buffer.
LEMMA TakeLeaves ==
  ASSUME NEW b \in BufType, NEW n \in Nat, n <= Available(b)
  PROVE  /\ Take(b, n) \in BufType
         /\ IsEmpty(Take(b, n)) <=> n = Available(b)
         /\ ~IsEmpty(Take(b, n)) => /\ Take(b, n).base = b.base /\ Take(b, n).tail = b.tail
                                    /\ Take(b, n).head = b.head + n
<1>1. CASE b.head + n >= b.tail
  <2>1. Take(b, n) = Reset(b)
    BY <1>1 DEF Take
  <2>2. n = Available(b)
    BY <1>1 DEF Available, BufType
  <2>3. QED
    BY <2>1, <2>2, ResetEmpties
<1>2. CASE ~(b.head + n >= b.tail)
  <2>1. Take(b, n) = [b EXCEPT !.head = @ + n]
    BY <1>2 DEF Take
  <2>2. Take(b, n) \in BufType /\ Take(b, n).base = b.base /\ Take(b, n).tail = b.tail
        /\ Take(b, n).head = b.head + n
    BY <2>1 DEF BufType
  <2>3. QED
    BY <1>2, <2>2 DEF Available, IsEmpty, BufType
<1>3. QED
  BY <1>1, <1>2

\* #IPREAD takes the first segment: the next one starts where it ended.
LEMMA PopKeepsQueue ==
  ASSUME TypeOK, QueueOK, queue # <<>>, Pop, sent' = sent
  PROVE  /\ queue' \in Seq(Nat) /\ front' \in Nat /\ QueueOK'
         /\ Head(queue) \in Nat /\ front < Head(queue) /\ front' = Head(queue)
<1>1. queue \in Seq(Nat) /\ Len(queue) \in Nat \ {0} /\ DOMAIN queue = 1 .. Len(queue)
      /\ Head(queue) = queue[1]
  BY DEF TypeOK
<1>2. /\ queue' \in Seq(Nat) /\ Len(queue') = Len(queue) - 1
      /\ \A i \in 1 .. Len(queue') : queue'[i] = queue[i + 1]
  BY <1>1, HeadTailProperties DEF Pop
<1>3. Head(queue) \in Nat /\ front < Head(queue) /\ front' = Head(queue) /\ Head(queue) <= sent
  BY <1>1 DEF Pop, QueueOK
<1>4. DOMAIN queue' = 1 .. Len(queue')
  BY <1>2
<1>5. \A i \in DOMAIN queue' : /\ queue'[i] = queue[i + 1] /\ i + 1 \in DOMAIN queue
                              /\ i \in Nat /\ 1 \in DOMAIN queue /\ 1 < i + 1
  BY <1>1, <1>2, <1>4
<1>6. front' <= sent'
  BY <1>3
<1>7. \A i \in DOMAIN queue' : front' < queue'[i] /\ queue'[i] <= sent'
  BY <1>1, <1>3, <1>5 DEF QueueOK
<1>8. ASSUME NEW i \in DOMAIN queue', NEW j \in DOMAIN queue', i < j
      PROVE  queue'[i] < queue'[j]
  <2>1. queue'[i] = queue[i + 1] /\ queue'[j] = queue[j + 1] /\ i + 1 < j + 1
        /\ i + 1 \in DOMAIN queue /\ j + 1 \in DOMAIN queue
    BY <1>5, <1>8
  <2>2. QED
    BY <2>1 DEF QueueOK
<1>9. QED
  BY <1>2, <1>3, <1>6, <1>7, <1>8 DEF QueueOK

-----------------------------------------------------------------------------
LEMMA RxInit == Init => RxInv
<1> SUFFICES ASSUME Init PROVE RxInv
  OBVIOUS
<1>1. Empty \in BufType /\ IsEmpty(Empty)
  BY BufSizeAssumption DEF BufType, Empty, IsEmpty
<1>2. rd = [pc |-> "idle", want |-> 0, from |-> 0, n |-> 0]
  BY DEF Init, Idle, Reader
<1>3. TypeOK
  <2>1. buf \in BufType /\ chunk \in [from : Nat, to : Nat]
    BY <1>1 DEF Init
  <2>2. queue \in Seq(Nat) /\ urcs \in Seq({"IPRECV", "CLOSED"})
    BY EmptySeq DEF Init
  <2>3. rd \in [pc : {"idle", "read", "stop", "blocked", "eof"}, want : Nat, from : Nat, n : Nat]
    BY <1>2
  <2>4. QED
    BY <2>1, <2>2, <2>3 DEF Init, TypeOK, BufType
<1>4. QueueOK
  BY DEF Init, QueueOK
<1>5. Mark = 0 /\ ~Copied /\ rd.pc = "idle"
  BY <1>2 DEF Init, Mark, Copied
<1>6. QED
  BY <1>1, <1>3, <1>4, <1>5 DEF Init, RxInv, InOrder, NoGap, ReaderOK

LEMMA RxArrives == ASSUME RxInv, SegmentArrives PROVE RxInv'
<1> USE DEF RxInv
<1>1. sent' \in Nat /\ sent < sent'
  BY SegSizesAssumption DEF SegmentArrives, TypeOK
<1>2. urcs' \in Seq({"IPRECV", "CLOSED"})
  BY AppendProperties DEF SegmentArrives, TypeOK
<1>3. queue' = Append(queue, sent') /\ queue' \in Seq(Nat) /\ Len(queue') = Len(queue) + 1
      /\ (\A i \in 1 .. Len(queue) : queue'[i] = queue[i]) /\ queue'[Len(queue) + 1] = sent'
  BY <1>1, AppendProperties DEF SegmentArrives, TypeOK
<1>4. DOMAIN queue' = 1 .. Len(queue) + 1 /\ DOMAIN queue = 1 .. Len(queue) /\ Len(queue) \in Nat
  BY <1>3 DEF TypeOK
<1>5. QueueOK'
  <2>1. front' = front /\ front <= sent
    BY DEF SegmentArrives, QueueOK
  <2> front \in Nat /\ sent \in Nat
    BY DEF TypeOK
  <2>2. ASSUME NEW i \in DOMAIN queue' PROVE front < queue'[i] /\ queue'[i] <= sent'
    <3>1. CASE i = Len(queue) + 1
      BY <1>1, <1>3, <2>1, <3>1
    <3>2. CASE i # Len(queue) + 1
      <4>1. i \in DOMAIN queue /\ queue'[i] = queue[i]
        BY <1>3, <1>4, <3>2
      <4>2. queue[i] \in Nat /\ front < queue[i] /\ queue[i] <= sent
        BY <4>1, QueueElement DEF QueueOK, TypeOK
      <4>3. QED
        BY <1>1, <4>1, <4>2
    <3>3. QED
      BY <3>1, <3>2
  <2>3. ASSUME NEW i \in DOMAIN queue', NEW j \in DOMAIN queue', i < j
        PROVE  queue'[i] < queue'[j]
    <3>0. i \in DOMAIN queue /\ queue'[i] = queue[i]
      BY <1>3, <1>4, <2>3
    <3>1. i \in DOMAIN queue /\ queue'[i] = queue[i] /\ queue[i] \in Nat
      BY <3>0, QueueElement DEF TypeOK
    <3>2. CASE j = Len(queue) + 1
      <4>1. queue[i] <= sent /\ sent \in Nat /\ queue'[j] = sent'
        BY <1>3, <3>1, <3>2 DEF QueueOK
      <4>2. QED
        BY <1>1, <3>1, <4>1
    <3>3. CASE j # Len(queue) + 1
      BY <1>3, <1>4, <2>3, <3>1, <3>3 DEF QueueOK
    <3>4. QED
      BY <3>2, <3>3
  <2>4. QED
    BY <1>1, <2>1, <2>2, <2>3 DEF QueueOK, TypeOK
<1>6. QED
  BY <1>1, <1>2, <1>3, <1>5
  DEF SegmentArrives, TypeOK, InOrder, NoGap, ReaderOK, Mark, Copied

LEMMA RxUrcs == ASSUME RxInv, PeerCloses \/ Urc PROVE RxInv'
<1> USE DEF RxInv
<1>1. CASE PeerCloses
  <2>1. urcs' \in Seq({"IPRECV", "CLOSED"})
    BY <1>1, AppendProperties DEF PeerCloses, TypeOK
  <2>2. QED
    BY <1>1, <2>1 DEF PeerCloses, rxvars, history, TypeOK, QueueOK, InOrder, NoGap, ReaderOK,
       Mark, Copied
<1>2. CASE UrcIprecv
  <2>1. urcs' \in Seq({"IPRECV", "CLOSED"})
    BY <1>2, HeadTailProperties DEF UrcIprecv, TypeOK
  <2>2. QED
    BY <1>2, <2>1 DEF UrcIprecv, peer, history, TypeOK, QueueOK, InOrder, NoGap, ReaderOK,
       Mark, Copied
<1>3. CASE UrcSocketclosed
  <2>1. urcs' \in Seq({"IPRECV", "CLOSED"})
    BY <1>3, HeadTailProperties DEF UrcSocketclosed, TypeOK
  <2>2. buf' \in BufType /\ IsEmpty(buf')
    BY <1>3, ResetEmpties DEF UrcSocketclosed, TypeOK, BufType
  <2>3. TypeOK'
    BY <1>3, <2>1, <2>2 DEF UrcSocketclosed, peer, TypeOK, BufType
  <2>4. QED
    BY <1>3, <2>2, <2>3 DEF UrcSocketclosed, peer, QueueOK, InOrder, NoGap, ReaderOK,
       Mark, Copied, IsEmpty
<1>4. QED
  BY <1>1, <1>2, <1>3 DEF Urc

-----------------------------------------------------------------------------
(* recv() up to the command: from the leftover buffer, or to "read".        *)

Others == <<proto, sent, segs, shut, queue, front, urcs, pending, closed, lossy>>

LEMMA RxReader ==
  ASSUME RxInv, UNCHANGED Others, buf' = buf, chunk' = chunk, event' \in BOOLEAN, faults' \in Nat,
         NEW pc \in {"idle", "read", "blocked", "eof"}, NEW want \in Nat,
         rd' = Reader(pc, want, 0, 0), ~Copied,
         pc \in {"read", "blocked"} => want \in ReadSizes, pc = "read" => IsEmpty(buf)
  PROVE  RxInv'
<1>1. rd' = [pc |-> pc, want |-> want, from |-> 0, n |-> 0] /\ rd'.pc = pc /\ rd'.want = want
  BY DEF Reader
<1>2. TypeOK'
  BY <1>1 DEF RxInv, TypeOK, Others
<1>3. ~Copied' /\ Mark' = Mark /\ Mark = chunk.to /\ rd'.pc # "stop"
  BY <1>1 DEF Copied, Mark
<1>4. QueueOK' /\ InOrder' /\ ReaderOK'
  BY <1>1, <1>3 DEF RxInv, QueueOK, InOrder, ReaderOK, Others, IsEmpty
<1>5. lossy' \/ NoGap'
  BY <1>3 DEF RxInv, NoGap, Others, IsEmpty
<1>6. QED
  BY <1>2, <1>4, <1>5 DEF RxInv

\* A leftover is handed over from where the application stands.
LEMMA LeftoverStep ==
  ASSUME RxInv, ~IsEmpty(buf), ~Copied, NEW want \in ReadSizes
  PROVE  LET n == Least(Available(buf), want)
             from == buf.base + buf.head
         IN  /\ from \in Nat /\ n \in Nat \ {0} /\ n <= Available(buf)
             /\ chunk.to <= from /\ from + n <= buf.base + buf.tail
             /\ from + n <= front /\ front <= sent
             /\ lossy \/ (from = chunk.to /\ buf.base + buf.tail = front)
<1> DEFINE n == Least(Available(buf), want)
<1>1. buf.base \in Nat /\ buf.head \in Nat /\ buf.tail \in Nat /\ buf.head < buf.tail
  BY BufSizeAssumption DEF RxInv, TypeOK, IsEmpty
<1>2. Available(buf) \in Nat \ {0} /\ want \in Nat \ {0} /\ Available(buf) = buf.tail - buf.head
  BY <1>1, ReadSizesAssumption DEF Available
<1>3. n \in Nat \ {0} /\ n <= Available(buf)
  <2>1. Least(Available(buf), want) = Available(buf) \/ Least(Available(buf), want) = want
    BY DEF Least
  <2>2. Least(Available(buf), want) <= Available(buf)
    BY <1>2, LeastOf
  <2>3. QED
    BY <1>2, <2>1, <2>2
<1>4. chunk.to \in Nat /\ front \in Nat /\ sent \in Nat /\ front <= sent
  BY DEF RxInv, TypeOK, QueueOK
<1>5. chunk.to <= buf.base + buf.head /\ buf.base + buf.tail <= front
  BY DEF RxInv, InOrder, Mark
<1>6. lossy \/ (buf.base + buf.head = chunk.to /\ buf.base + buf.tail = front)
  <2>1. CASE NoGap
    <3>1. Mark = buf.base + buf.head /\ buf.base + buf.tail = front
      BY <2>1 DEF NoGap
    <3>2. Mark = chunk.to
      BY DEF Mark
    <3>3. QED
      BY <3>1, <3>2
  <2>2. QED
    BY <2>1 DEF RxInv
<1>7. QED
  BY <1>1, <1>2, <1>3, <1>4, <1>5, <1>6

LEMMA RxRecvStep ==
  ASSUME RxInv, NEW want \in ReadSizes, rd.pc \in {"idle", "blocked"}, RecvStep(want),
         UNCHANGED Others, event' \in BOOLEAN, faults' \in Nat
  PROVE  RxInv'
<1>1. ~Copied /\ want \in Nat
  BY ReadSizesAssumption DEF Copied
<1>2. CASE closed /\ rd' = Reader("eof", 0, 0, 0) /\ UNCHANGED <<buf, chunk>>
  BY <1>1, <1>2, RxReader
<1>3. CASE CanRead /\ rd' = Reader("read", want, 0, 0) /\ UNCHANGED <<buf, chunk>>
  BY <1>1, <1>3, RxReader DEF CanRead
<1>4. CASE rd' = Reader("blocked", want, 0, 0) /\ UNCHANGED <<buf, chunk>>
  BY <1>1, <1>4, RxReader
<1>5. CASE ~IsEmpty(buf) /\ Return(buf.base + buf.head, Least(Available(buf), want))
           /\ buf' = Take(buf, Least(Available(buf), want))
  <2> DEFINE n == Least(Available(buf), want)
             from == buf.base + buf.head
  <2>1. /\ from \in Nat /\ n \in Nat \ {0} /\ n <= Available(buf)
        /\ chunk.to <= from /\ from + n <= buf.base + buf.tail
        /\ from + n <= front /\ front <= sent
        /\ lossy \/ (from = chunk.to /\ buf.base + buf.tail = front)
    BY <1>1, <1>5, LeftoverStep
  <2> HIDE DEF n, from
  <2>2. buf \in BufType
    BY DEF RxInv, TypeOK, BufType
  <2>3. /\ buf' \in BufType
        /\ IsEmpty(buf') <=> n = Available(buf)
        /\ ~IsEmpty(buf') => /\ buf'.base = buf.base /\ buf'.tail = buf.tail
                             /\ buf'.head = buf.head + n
    BY <1>5, <2>1, <2>2, TakeLeaves DEF n
  <2>4. chunk' = [from |-> from, to |-> from + n] /\ rd' = Idle
    BY <1>5 DEF Return, n, from
  <2>5. rd' = [pc |-> "idle", want |-> 0, from |-> 0, n |-> 0]
    BY <2>4 DEF Idle, Reader
  <2>6. TypeOK'
    BY <2>1, <2>3, <2>4, <2>5 DEF RxInv, TypeOK, Others, BufType
  <2>7. ~Copied' /\ Mark' = from + n /\ rd'.pc = "idle"
    BY <2>4, <2>5 DEF Copied, Mark
  <2>8. QueueOK' /\ proto = "TCP" /\ ReaderOK'
    BY <1>5, <2>7 DEF RxInv, QueueOK, ReaderOK, Others
  <2>9. buf.base \in Nat /\ buf.head \in Nat /\ buf.tail \in Nat /\ Available(buf) = buf.tail - buf.head
        /\ front \in Nat /\ front' = front /\ lossy' = lossy
    BY <2>2, BufSizeAssumption DEF BufType, Available, RxInv, TypeOK, Others
  <2>10. (~IsEmpty(buf') => Mark' = buf'.base + buf'.head /\ buf'.base + buf'.tail <= front')
         /\ Mark' <= front' /\ (IsEmpty(buf') => Mark' = buf.base + buf.tail)
    <3>1. buf.base + buf.tail <= front
      BY <1>5 DEF RxInv, InOrder
    <3>2. QED
      BY <2>1, <2>3, <2>7, <2>9, <3>1 DEF from
  <2>11. InOrder'
    BY <2>7, <2>10, <2>3, <2>9 DEF InOrder, BufType
  <2>12. lossy' \/ NoGap'
    BY <2>1, <2>3, <2>7, <2>9, <2>10 DEF NoGap
  <2>13. QED
    BY <2>6, <2>8, <2>11, <2>12 DEF RxInv
<1>6. QED
  BY <1>2, <1>3, <1>4, <1>5 DEF RecvStep

LEMMA RxRecv == ASSUME RxInv, Recv \/ Wakeup PROVE RxInv'
<1>1. CASE Recv
  <2>1. PICK want \in ReadSizes : RecvStep(want)
    BY <1>1 DEF Recv
  <2>2. UNCHANGED Others /\ event' \in BOOLEAN /\ rd.pc = "idle" /\ faults' \in Nat
    BY <1>1 DEF Recv, Others, peer, RxInv, TypeOK
  <2>3. QED
    BY <2>1, <2>2, RxRecvStep
<1>2. CASE Wakeup
  <2>1. RecvStep(rd.want) /\ rd.want \in ReadSizes /\ rd.pc = "blocked"
    BY <1>2 DEF Wakeup, RxInv, ReaderOK
  <2>2. UNCHANGED Others /\ event' \in BOOLEAN /\ faults' \in Nat
    BY <1>2 DEF Wakeup, Others, peer, RxInv, TypeOK
  <2>3. QED
    BY <2>1, <2>2, RxRecvStep
<1>3. QED
  BY <1>1, <1>2

-----------------------------------------------------------------------------
(* The #IPREAD transaction.                                                 *)

\* The transaction copies n bytes from the front of the modem's first segment,
\* and leaves the buffer empty or holding what follows them.
LEMMA RxCopies ==
  ASSUME RxInv, rd.pc = "read", Pop, queue # <<>>, buf' \in BufType, lossy' \in BOOLEAN,
         NEW n \in Nat \ {0}, rd' = Reader("stop", rd.want, front, n),
         front + n <= Head(queue), proto # "TCP" => IsEmpty(buf'),
         ~IsEmpty(buf') => /\ buf'.base + buf'.head = front + n
                           /\ buf'.base + buf'.tail <= Head(queue),
         lossy' \/ (IF IsEmpty(buf') THEN front + n = Head(queue)
                    ELSE buf'.base + buf'.tail = Head(queue)),
         lossy => lossy',
         UNCHANGED <<proto, peer, urcs, pending, closed, event, chunk, faults>>
  PROVE  RxInv'
<1>1. queue' \in Seq(Nat) /\ front' \in Nat /\ QueueOK' /\ Head(queue) \in Nat
      /\ front < Head(queue) /\ front' = Head(queue) /\ front \in Nat
  BY PopKeepsQueue DEF RxInv, peer, TypeOK
<1>2. rd' = [pc |-> "stop", want |-> rd.want, from |-> front, n |-> n] /\ rd.want \in Nat
  BY DEF Reader, RxInv, TypeOK
<1>3. TypeOK'
  <2>1. rd' \in [pc : {"idle", "read", "stop", "blocked", "eof"}, want : Nat, from : Nat, n : Nat]
    BY <1>1, <1>2
  <2>2. QED
    BY <1>1, <2>1 DEF RxInv, TypeOK, peer, BufType
<1>4. Copied' /\ Mark' = front + n /\ rd'.from = front /\ rd'.n = n /\ rd'.want = rd.want
      /\ rd'.pc = "stop"
  BY <1>2 DEF Copied, Mark
<1>5. IsEmpty(buf) /\ ~Copied /\ Mark = chunk.to /\ chunk.to <= front /\ rd.want \in ReadSizes
  BY DEF RxInv, ReaderOK, Copied, Mark, InOrder
<1>6. InOrder'
  <2>1. Mark' <= front'
    BY <1>1, <1>4
  <2>2. Copied' => chunk'.to <= rd'.from
    BY <1>4, <1>5
  <2>3. ~IsEmpty(buf') => Mark' <= buf'.base + buf'.head /\ buf'.base + buf'.tail <= front'
    BY <1>1, <1>4
  <2>4. QED
    BY <2>1, <2>2, <2>3 DEF InOrder
<1>7. ReaderOK'
  BY <1>4, <1>5 DEF ReaderOK
<1>8. lossy' \/ NoGap'
  <2>1. lossy \/ chunk.to = front
    <3>1. CASE NoGap
      BY <1>5, <3>1 DEF NoGap
    <3>2. QED
      BY <3>1 DEF RxInv
  <2>2. ASSUME ~lossy' PROVE NoGap'
    <3>1. chunk'.to = rd'.from
      BY <1>4, <2>1, <2>2
    <3>2. IF IsEmpty(buf') THEN Mark' = front'
          ELSE Mark' = buf'.base + buf'.head /\ buf'.base + buf'.tail = front'
      BY <1>1, <1>4, <2>2
    <3>3. QED
      BY <1>4, <3>1, <3>2 DEF NoGap
  <2>3. QED
    BY <2>2
<1>9. QED
  BY <1>1, <1>3, <1>6, <1>7, <1>8 DEF RxInv

LEMMA RxReadInfo == ASSUME RxInv, ReadInfo PROVE RxInv'
<1>1. rd.pc = "read" /\ Pop /\ queue # <<>>
      /\ UNCHANGED <<proto, peer, urcs, pending, closed, event, chunk, faults>>
  BY DEF ReadInfo
<1>2. Head(queue) \in Nat /\ front \in Nat /\ front < Head(queue)
  BY <1>1, PopKeepsQueue DEF RxInv, TypeOK, peer
<1>3. Head(queue) - front \in Nat /\ Head(queue) - front > 0
      /\ rd.want \in Nat /\ rd.want > 0 /\ BufSize \in Nat /\ BufSize > 0
  <2>1. rd.want \in ReadSizes
    BY <1>1 DEF RxInv, ReaderOK
  <2>2. rd.want \in Nat \ {0}
    BY <2>1, ReadSizesAssumption
  <2>3. QED
    BY <1>2, <2>2, BufSizeAssumption
<1>4. CASE proto = "TCP"
  <2> DEFINE m == Least(Head(queue) - front, BufSize)
             b == [base |-> front, head |-> 0, tail |-> m]
             n == Least(m, rd.want)
  <2>1. m \in Nat /\ m <= Head(queue) - front /\ m <= BufSize /\ m > 0
    BY <1>3, LeastOf
  <2>2. n \in Nat /\ n <= m /\ n > 0
    BY <1>3, <2>1, LeastOf
  <2>3. buf' = Take(b, n) /\ rd' = Reader("stop", rd.want, front, n)
        /\ lossy' = (lossy \/ front + m # Head(queue))
    BY <1>4 DEF ReadInfo, ReadTcp
  <2> HIDE DEF m, n
  <2>4. b \in BufType /\ Available(b) = m /\ b.base = front /\ b.tail = m /\ b.head = 0
    BY <1>2, <2>1 DEF BufType, Available
  <2> HIDE DEF b
  <2>5. /\ buf' \in BufType
        /\ IsEmpty(buf') <=> n = m
        /\ ~IsEmpty(buf') => buf'.base = front /\ buf'.tail = m /\ buf'.head = n
    BY <2>2, <2>3, <2>4, TakeLeaves
  <2>6. front + n <= Head(queue) /\ front + m <= Head(queue)
    BY <1>2, <2>1, <2>2
  <2>7. ~IsEmpty(buf') => /\ buf'.base + buf'.head = front + n
                          /\ buf'.base + buf'.tail <= Head(queue)
    BY <2>5, <2>6
  <2>8. lossy' \/ (IF IsEmpty(buf') THEN front + n = Head(queue)
                   ELSE buf'.base + buf'.tail = Head(queue))
    BY <2>3, <2>5
  <2>9. lossy' \in BOOLEAN /\ (lossy => lossy')
    BY <2>3 DEF RxInv, TypeOK
  <2>10. QED
    BY <1>1, <1>4, <2>2, <2>3, <2>5, <2>6, <2>7, <2>8, <2>9, RxCopies
<1>5. CASE proto # "TCP"
  <2> DEFINE n == Least(Head(queue) - front, rd.want)
  <2>1. n \in Nat /\ n <= Head(queue) - front /\ n > 0
    BY <1>3, LeastOf
  <2>2. rd' = Reader("stop", rd.want, front, n) /\ buf' = buf
        /\ lossy' = (lossy \/ front + n # Head(queue))
    BY <1>5 DEF ReadInfo, ReadUdp
  <2> HIDE DEF n
  <2>3. buf' \in BufType /\ IsEmpty(buf')
    BY <1>5, <2>2 DEF RxInv, TypeOK, ReaderOK, BufType
  <2>4. front + n <= Head(queue)
    BY <1>2, <2>1
  <2>7. lossy' \/ front + n = Head(queue)
    BY <2>2
  <2>5. lossy' \in BOOLEAN /\ (lossy => lossy')
    BY <2>2 DEF RxInv, TypeOK
  <2>6. QED
    BY <1>1, <2>1, <2>2, <2>3, <2>4, <2>5, <2>7, RxCopies
<1>6. QED
  BY <1>4, <1>5

\* A step that gives up what was read, and perhaps a segment of the modem.
LEMMA RxDrops ==
  ASSUME RxInv, lossy' = TRUE, IsEmpty(buf'), buf' \in BufType, chunk' = chunk,
         (Pop /\ queue # <<>>) \/ UNCHANGED <<queue, front>>,
         NEW pc \in {"stop", "blocked"}, NEW from \in Nat, rd' = Reader(pc, rd.want, from, 0),
         rd.want \in ReadSizes, pending' \in Nat, faults' \in Nat,
         UNCHANGED <<proto, peer, urcs, closed, event>>
  PROVE  RxInv'
<1>1. queue' \in Seq(Nat) /\ front' \in Nat /\ QueueOK' /\ front <= front'
  <2>1. CASE Pop /\ queue # <<>>
    <3>1. queue' \in Seq(Nat) /\ front' \in Nat /\ QueueOK'
          /\ front < Head(queue) /\ front' = Head(queue)
      BY <2>1, PopKeepsQueue DEF RxInv, peer
    <3>2. front \in Nat
      BY DEF RxInv, TypeOK
    <3>3. QED
      BY <3>1, <3>2
  <2>2. CASE UNCHANGED <<queue, front>>
    BY <2>2 DEF RxInv, TypeOK, QueueOK, peer
  <2>3. QED
    BY <2>1, <2>2
<1>2. rd' = [pc |-> pc, want |-> rd.want, from |-> from, n |-> 0] /\ rd.want \in Nat
  BY DEF Reader, RxInv, TypeOK
<1>3. TypeOK'
  <2>1. rd' \in [pc : {"idle", "read", "stop", "blocked", "eof"}, want : Nat, from : Nat, n : Nat]
    BY <1>2
  <2>2. QED
    BY <1>1, <2>1 DEF RxInv, TypeOK, peer, BufType
<1>4. ~Copied' /\ Mark' = chunk.to /\ rd'.want = rd.want /\ rd'.pc # "read"
  BY <1>2 DEF Copied, Mark
<1>5. chunk.to <= front
  BY DEF RxInv, InOrder, Copied, Mark, TypeOK
<1>6. InOrder'
  BY <1>1, <1>4, <1>5 DEF InOrder, RxInv, TypeOK
<1>7. ReaderOK'
  BY <1>4 DEF ReaderOK
<1>8. QED
  BY <1>1, <1>3, <1>6, <1>7 DEF RxInv

LEMMA RxFailures == ASSUME RxInv, ReadBreaks \/ ReadNothing \/ StopFails PROVE RxInv'
<1>1. rd.pc \in {"read", "stop"} /\ rd.want \in ReadSizes /\ rd.want \in Nat
      /\ front \in Nat /\ faults \in Nat /\ faults + 1 \in Nat /\ buf \in BufType
  BY DEF RxInv, TypeOK, ReaderOK, ReadBreaks, ReadNothing, StopFails, BufType
<1>2. (IF proto = "TCP" THEN Reset(buf) ELSE buf) \in BufType
      /\ IsEmpty(IF proto = "TCP" THEN Reset(buf) ELSE buf)
  BY <1>1, ResetEmpties DEF RxInv, ReaderOK
<1>3. CASE ReadBreaks
  BY <1>1, <1>2, <1>3, RxDrops DEF ReadBreaks, Fault, RxInv, TypeOK
<1>4. CASE StopFails
  <2>1. rd' = Reader("blocked", rd.want, 0, 0)
    BY <1>4 DEF StopFails, WouldBlock
  <2>2. faults' \in Nat /\ buf' \in BufType /\ IsEmpty(buf')
    BY <1>1, <1>2, <1>4 DEF StopFails, Fault
  <2>3. QED
    BY <1>1, <1>4, <2>1, <2>2, RxDrops DEF StopFails
<1>5. CASE ReadNothing
  <2>1. rd' = Reader("blocked", rd.want, 0, 0) /\ faults' \in Nat /\ IsEmpty(buf) /\ rd.pc = "read"
    BY <1>1, <1>5 DEF ReadNothing, WouldBlock, Fault, RxInv, ReaderOK
  <2>2. CASE Pop /\ lossy' = TRUE /\ queue # <<>>
    BY <1>1, <1>5, <2>1, <2>2, RxDrops DEF ReadNothing, RxInv, TypeOK
  <2>3. CASE UNCHANGED <<queue, front, lossy>>
    <3>1. UNCHANGED Others /\ buf' = buf /\ chunk' = chunk /\ event' \in BOOLEAN
      BY <1>5, <2>3 DEF ReadNothing, Others, peer, RxInv, TypeOK
    <3>2. ~Copied
      BY <2>1 DEF Copied
    <3>3. QED
      BY <1>1, <2>1, <3>1, <3>2, RxReader
  <2>4. QED
    BY <1>5, <2>2, <2>3 DEF ReadNothing
<1>6. QED
  BY <1>3, <1>4, <1>5

LEMMA RxStopOk == ASSUME RxInv, StopOk PROVE RxInv'
<1>1. chunk' = [from |-> rd.from, to |-> rd.from + rd.n]
      /\ rd' = [pc |-> "idle", want |-> 0, from |-> 0, n |-> 0] /\ Copied
  BY DEF StopOk, Return, Idle, Reader, Copied
<1>2. pending' \in Nat /\ rd.from \in Nat /\ rd.n \in Nat
  BY DEF StopOk, RxInv, TypeOK
<1>3. UNCHANGED <<proto, peer, queue, front, urcs, buf, closed, event, lossy, faults>>
  BY DEF StopOk
<1>4. TypeOK'
  BY <1>1, <1>2, <1>3 DEF RxInv, TypeOK, peer
<1>5. ~Copied' /\ Mark' = Mark /\ rd'.pc = "idle"
  BY <1>1 DEF Copied, Mark
<1>6. QueueOK' /\ InOrder' /\ ReaderOK' /\ (lossy' \/ NoGap')
  <2>1. IsEmpty(buf') <=> IsEmpty(buf)
    BY <1>3
  <2>2. QueueOK' /\ InOrder' /\ ReaderOK'
    BY <1>3, <1>5, <2>1 DEF RxInv, QueueOK, InOrder, ReaderOK, peer
  <2>3. NoGap => NoGap'
    BY <1>3, <1>5, <2>1 DEF NoGap
  <2>4. QED
    BY <1>3, <2>2, <2>3 DEF RxInv
<1>7. QED
  BY <1>4, <1>6 DEF RxInv

-----------------------------------------------------------------------------
LEMMA RxStep == RxInv /\ [Next]_vars => RxInv'
<1> SUFFICES ASSUME RxInv, [Next]_vars PROVE RxInv'
  OBVIOUS
<1>1. CASE Modem
  BY <1>1, RxArrives, RxUrcs DEF Modem
<1>2. CASE Urc
  BY <1>2, RxUrcs
<1>3. CASE Recv \/ Wakeup
  BY <1>3, RxRecv
<1>4. CASE Answer
  BY <1>4, RxReadInfo, RxFailures, RxStopOk DEF Answer
<1>5. CASE UNCHANGED vars
  BY <1>5 DEF vars, RxInv, TypeOK, QueueOK, InOrder, NoGap, ReaderOK, Mark, Copied, IsEmpty
<1>6. QED
  BY <1>1, <1>2, <1>3, <1>4, <1>5 DEF Next

\* Every state of the receiver has the types declared, for every buffer and
\* segment size; in particular the leftover buffer never holds more than BufSize
\* bytes (ST87M01_CellularStack::socket_recvfrom_impl).
THEOREM RxTypeCorrect == Spec => []TypeOK
<1>1. RxInv => TypeOK
  BY DEF RxInv
<1>2. QED
  BY <1>1, RxInit, RxStep, PTL DEF Spec

\* A return of recv() is a delivery in order: the bytes were sent, follow those
\* delivered before, and leave a gap only after a loss.
LEMMA DeliversInOrder ==
  ASSUME RxInv, NEW from \in Nat, NEW n \in Nat \ {0}, chunk.to <= from, from + n <= sent,
         chunk' = [from |-> from, to |-> from + n], lossy \/ from = chunk.to,
         UNCHANGED <<sent, lossy>>
  PROVE  Channel!Next
<1>1. from \in 0 .. sent /\ from + n \in 0 .. sent /\ from < from + n
  BY DEF RxInv, TypeOK
<1>2. QED
  BY <1>1 DEF Channel!Next, Channel!Deliver

LEMMA RecvDelivers ==
  ASSUME RxInv, NEW want \in ReadSizes, rd.pc \in {"idle", "blocked"}, RecvStep(want),
         UNCHANGED <<sent, lossy>>
  PROVE  Channel!Next \/ UNCHANGED <<sent, chunk, lossy>>
<1>1. CASE UNCHANGED chunk
  BY <1>1
<1>2. CASE ~IsEmpty(buf) /\ Return(buf.base + buf.head, Least(Available(buf), want))
  <2> DEFINE n == Least(Available(buf), want)
             from == buf.base + buf.head
  <2>1. /\ from \in Nat /\ n \in Nat \ {0} /\ chunk.to <= from
        /\ from + n <= front /\ front <= sent
        /\ lossy \/ (from = chunk.to /\ buf.base + buf.tail = front)
    BY <1>2, LeftoverStep DEF Copied
  <2>2. chunk' = [from |-> from, to |-> from + n]
    BY <1>2 DEF Return
  <2> HIDE DEF n, from
  <2>3. from + n <= sent
    BY <2>1 DEF RxInv, TypeOK
  <2>4. QED
    BY <2>1, <2>2, <2>3, DeliversInOrder
<1>3. QED
  BY <1>1, <1>2 DEF RecvStep

LEMMA StepRefines == RxInv /\ [Next]_vars => [Channel!Next]_<<sent, chunk, lossy>>
<1> SUFFICES ASSUME RxInv, [Next]_vars
             PROVE  Channel!Next \/ UNCHANGED <<sent, chunk, lossy>>
  OBVIOUS
<1>1. CASE SegmentArrives
  <2>1. sent' \in Nat /\ sent < sent' /\ UNCHANGED <<chunk, lossy>>
    BY <1>1, SegSizesAssumption DEF SegmentArrives, RxInv, TypeOK
  <2>2. QED
    BY <2>1 DEF Channel!Next, Channel!Send
<1>2. CASE PeerCloses
  BY <1>2 DEF PeerCloses, history
<1>3. CASE lossy' \in BOOLEAN /\ (lossy => lossy') /\ UNCHANGED <<sent, chunk>>
  BY <1>3 DEF Channel!Next, Channel!Lose, RxInv, TypeOK
<1>4. CASE Urc
  BY <1>3, <1>4 DEF Urc, UrcIprecv, UrcSocketclosed, peer, history, RxInv, TypeOK
<1>5. CASE Recv
  BY <1>5, RecvDelivers DEF Recv, peer
<1>6. CASE Wakeup
  <2>1. RecvStep(rd.want) /\ rd.want \in ReadSizes /\ rd.pc = "blocked"
    BY <1>6 DEF Wakeup, RxInv, ReaderOK
  <2>2. QED
    BY <1>6, <2>1, RecvDelivers DEF Wakeup, peer
<1>7. CASE ReadInfo
  BY <1>3, <1>7 DEF ReadInfo, ReadTcp, ReadUdp, peer, RxInv, TypeOK
<1>8. CASE ReadBreaks \/ ReadNothing \/ StopFails
  BY <1>3, <1>8 DEF ReadBreaks, ReadNothing, StopFails, peer, RxInv, TypeOK
<1>9. CASE StopOk
  <2>1. chunk' = [from |-> rd.from, to |-> rd.from + rd.n] /\ UNCHANGED <<sent, lossy>> /\ Copied
    BY <1>9 DEF StopOk, Return, peer, Copied
  <2>2. rd.from \in Nat /\ rd.n \in Nat \ {0} /\ front \in Nat /\ sent \in Nat
    BY <2>1 DEF RxInv, TypeOK, Copied
  <2>3. chunk.to <= rd.from /\ rd.from + rd.n <= front /\ front <= sent
    BY <2>1 DEF RxInv, InOrder, Mark, QueueOK
  <2>4. lossy \/ rd.from = chunk.to
    BY <2>1 DEF RxInv, NoGap
  <2>5. rd.from + rd.n <= sent
    BY <2>2, <2>3
  <2>6. QED
    BY <2>1, <2>2, <2>3, <2>4, <2>5, DeliversInOrder
<1>10. CASE UNCHANGED vars
  BY <1>10 DEF vars
<1>11. QED
  BY <1>1, <1>2, <1>4, <1>5, <1>6, <1>7, <1>8, <1>9, <1>10 DEF Next, Modem, Answer

\* recv() implements ByteChannel for every buffer, segment and read size, and
\* whatever fails: bytes reach the application in order, none twice, and a gap
\* only follows a recorded loss (socket_recvfrom_impl, urc_iprecv,
\* urc_socketclosed).
THEOREM DeliveryInOrder == Spec => OrderedDelivery
<1>1. Init => Channel!Init
  BY DEF Init, Channel!Init
<1>2. QED
  BY <1>1, RxInit, RxStep, StepRefines, PTL DEF Spec, OrderedDelivery, Channel!Spec

-----------------------------------------------------------------------------
(* The count of pending segments.                                           *)

LinesFinite == IsFiniteSet(IprecvLines) /\ Cardinality(IprecvLines) \in Nat

LEMMA UpTo == ASSUME NEW n \in Nat, NEW S, S \subseteq 1 .. n PROVE IsFiniteSet(S) /\ Cardinality(S) \in Nat
<1>1. IsFiniteSet(1 .. n)
  BY FS_Interval
<1>2. IsFiniteSet(S)
  BY <1>1, FS_Subset
<1>3. QED
  BY <1>2, FS_CardinalityType

\* A new line at the end of the UART counts if it is #IPRECV.
LEMMA LineAdded ==
  ASSUME TypeOK, NEW line \in {"IPRECV", "CLOSED"}, urcs' = Append(urcs, line)
  PROVE  /\ LinesFinite
         /\ Cardinality(IprecvLines') = Cardinality(IprecvLines) + (IF line = "IPRECV" THEN 1 ELSE 0)
<1> DEFINE n == Len(urcs) + 1
<1>1. /\ DOMAIN urcs = 1 .. Len(urcs) /\ DOMAIN urcs' = 1 .. n /\ Len(urcs) \in Nat
      /\ \A i \in 1 .. Len(urcs) : urcs'[i] = urcs[i]
      /\ urcs'[n] = line
  BY DEF TypeOK
<1>2. IprecvLines \subseteq 1 .. Len(urcs) /\ n \notin IprecvLines
  BY <1>1 DEF IprecvLines
<1>3. LinesFinite
  BY <1>1, <1>2, UpTo DEF LinesFinite
<1>4. IprecvLines' = IF line = "IPRECV" THEN IprecvLines \cup {n} ELSE IprecvLines
  BY <1>1 DEF IprecvLines
<1>5. QED
  <2>1. CASE line = "IPRECV"
    BY <1>2, <1>3, <1>4, <2>1, FS_AddElement DEF LinesFinite
  <2>2. CASE line # "IPRECV"
    BY <1>3, <1>4, <2>2 DEF LinesFinite
  <2>3. QED
    BY <2>1, <2>2

\* The line that is handled leaves; the others move up.
LEMMA LineHandled ==
  ASSUME TypeOK, urcs # <<>>, urcs' = Tail(urcs)
  PROVE  /\ LinesFinite
         /\ Cardinality(IprecvLines') =
              Cardinality(IprecvLines) - (IF Head(urcs) = "IPRECV" THEN 1 ELSE 0)
<1> DEFINE Rest == IprecvLines \ {1}
           f    == [i \in Rest |-> i - 1]
<1>1. /\ DOMAIN urcs = 1 .. Len(urcs) /\ DOMAIN urcs' = 1 .. Len(urcs) - 1 /\ Len(urcs) \in Nat \ {0}
      /\ \A i \in 1 .. Len(urcs) - 1 : urcs'[i] = urcs[i + 1]
      /\ Head(urcs) = urcs[1]
  BY DEF TypeOK
<1>2. LinesFinite
  <2>1. IprecvLines \subseteq 1 .. Len(urcs)
    BY <1>1 DEF IprecvLines
  <2>2. QED
    BY <1>1, <2>1, UpTo DEF LinesFinite
<1>3. 1 \in IprecvLines <=> Head(urcs) = "IPRECV"
  BY <1>1 DEF IprecvLines
<1>4. ExistsBijection(Rest, IprecvLines')
  <2>1. \A i \in Rest : i - 1 \in IprecvLines' /\ i \in Int
    BY <1>1 DEF IprecvLines
  <2>2. \A j \in IprecvLines' : j + 1 \in Rest /\ j \in Int
    BY <1>1 DEF IprecvLines
  <2>3. f \in [Rest -> IprecvLines']
    BY <2>1
  <2>4. \A i, j \in Rest : f[i] = f[j] => i = j
    BY <2>1
  <2>5. \A j \in IprecvLines' : \E i \in Rest : f[i] = j
    <3>1. ASSUME NEW j \in IprecvLines' PROVE j + 1 \in Rest /\ f[j + 1] = j
      BY <2>2
    <3>2. QED
      BY <3>1
  <2>6. f \in Bijection(Rest, IprecvLines')
    BY <2>3, <2>4, <2>5 DEF Bijection, Injection, IsInjective, Surjection
  <2>7. QED
    BY <2>6 DEF ExistsBijection
<1>5. IsFiniteSet(Rest) /\ Cardinality(Rest) = IF 1 \in IprecvLines THEN Cardinality(IprecvLines) - 1
                                               ELSE Cardinality(IprecvLines)
  BY <1>2, FS_RemoveElement DEF LinesFinite
<1>6. Cardinality(IprecvLines') = Cardinality(Rest)
  BY <1>4, <1>5, FS_Bijection
<1>7. QED
  BY <1>2, <1>3, <1>5, <1>6 DEF LinesFinite

\* When the answer of a command is read, no line stands before it.
LEMMA NoLines == ASSUME urcs = <<>> PROVE IprecvLines = {} /\ Cardinality(IprecvLines) = 0
<1>1. IprecvLines = {}
  BY DEF IprecvLines
<1>2. QED
  BY <1>1, FS_EmptySet

\* While no command failed, the read in progress has bytes to hand over.
CountInv == PendingCounts /\ (faults = 0 /\ rd.pc = "stop" => rd.n > 0)

\* What #IPREAD takes is more than nothing.
LEMMA ReadTakes == ASSUME RxInv, ReadInfo PROVE rd'.n > 0 /\ rd'.pc = "stop"
<1>1. rd.pc = "read" /\ Pop /\ queue # <<>> /\ UNCHANGED peer
  BY DEF ReadInfo
<1>2. Head(queue) \in Nat /\ front \in Nat /\ front < Head(queue)
  BY <1>1, PopKeepsQueue DEF RxInv, TypeOK, peer
<1>3. rd.want \in Nat /\ rd.want > 0 /\ Head(queue) - front \in Nat /\ Head(queue) - front > 0
      /\ BufSize \in Nat /\ BufSize > 0
  <2>1. rd.want \in ReadSizes
    BY <1>1 DEF RxInv, ReaderOK
  <2>2. rd.want \in Nat \ {0}
    BY <2>1, ReadSizesAssumption
  <2>3. QED
    BY <1>2, <2>2, BufSizeAssumption
<1>4. PICK n \in Nat : n > 0 /\ rd' = Reader("stop", rd.want, front, n)
  <2>1. CASE proto = "TCP"
    <3> DEFINE m == Least(Head(queue) - front, BufSize)
               n == Least(m, rd.want)
    <3>1. m \in Nat /\ m > 0
      BY <1>3, LeastOf
    <3>2. n \in Nat /\ n > 0
      <4> HIDE DEF m
      <4>1. QED
        BY <1>3, <3>1, LeastOf
    <3>3. rd' = Reader("stop", rd.want, front, n)
      BY <2>1 DEF ReadInfo, ReadTcp
    <3>4. QED
      BY <3>2, <3>3
  <2>2. CASE proto # "TCP"
    <3> DEFINE n == Least(Head(queue) - front, rd.want)
    <3>1. n \in Nat /\ n > 0
      BY <1>3, LeastOf
    <3>2. rd' = Reader("stop", rd.want, front, n)
      BY <2>2 DEF ReadInfo, ReadUdp
    <3>3. QED
      BY <3>1, <3>2
  <2>3. QED
    BY <2>1, <2>2
<1>5. QED
  BY <1>4 DEF Reader

LEMMA CountStep == ASSUME RxInv, CountInv, [Next]_vars PROVE CountInv'
<1> USE DEF CountInv, PendingCounts
<1>0. /\ pending \in Nat /\ faults \in Nat /\ queue \in Seq(Nat) /\ Len(queue) \in Nat
      /\ TypeOK /\ rd.pc \in {"idle", "read", "stop", "blocked", "eof"}
  BY DEF RxInv, TypeOK
<1>1. CASE SegmentArrives
  <2>1. /\ queue' = Append(queue, sent') /\ urcs' = Append(urcs, "IPRECV")
        /\ UNCHANGED <<pending, rd, faults>>
    BY <1>1 DEF SegmentArrives
  <2>2. Len(queue') = Len(queue) + 1
    BY <1>0, <2>1
  <2>3. LinesFinite /\ Cardinality(IprecvLines') = Cardinality(IprecvLines) + 1
    BY <1>0, <2>1, LineAdded
  <2>4. QED
    BY <1>0, <2>1, <2>2, <2>3 DEF LinesFinite
<1>2. CASE PeerCloses
  <2>1. urcs' = Append(urcs, "CLOSED") /\ UNCHANGED <<queue, pending, rd, faults>>
    BY <1>2 DEF PeerCloses, rxvars
  <2>2. LinesFinite /\ Cardinality(IprecvLines') = Cardinality(IprecvLines)
    BY <1>0, <2>1, LineAdded DEF LinesFinite
  <2>3. QED
    BY <1>0, <2>1, <2>2 DEF LinesFinite
<1>3. CASE UrcIprecv
  <2>1. /\ urcs # <<>> /\ Head(urcs) = "IPRECV" /\ urcs' = Tail(urcs) /\ pending' = pending + 1
        /\ UNCHANGED <<queue, rd, faults>>
    BY <1>3 DEF UrcIprecv
  <2>2. LinesFinite /\ Cardinality(IprecvLines') = Cardinality(IprecvLines) - 1
    BY <1>0, <2>1, LineHandled
  <2>3. QED
    BY <1>0, <2>1, <2>2 DEF LinesFinite
<1>4. CASE UrcSocketclosed
  <2>1. /\ urcs # <<>> /\ Head(urcs) = "CLOSED" /\ urcs' = Tail(urcs)
        /\ UNCHANGED <<queue, pending, rd, faults>>
    BY <1>4 DEF UrcSocketclosed
  <2>2. LinesFinite /\ Cardinality(IprecvLines') = Cardinality(IprecvLines)
    BY <1>0, <2>1, LineHandled DEF LinesFinite
  <2>3. QED
    BY <1>0, <2>1, <2>2 DEF LinesFinite
<1>5. CASE Recv \/ Wakeup
  <2>1. UNCHANGED <<urcs, queue, pending, faults>> /\ IprecvLines' = IprecvLines
    BY <1>5 DEF Recv, Wakeup, IprecvLines
  <2>2. rd.pc # "stop" /\ \E want : RecvStep(want)
    BY <1>5 DEF Recv, Wakeup
  <2>3. rd'.pc # "stop"
    BY <2>2 DEF RecvStep, Return, Reader, Idle
  <2>4. QED
    BY <2>1, <2>2, <2>3
<1>6. CASE ReadInfo
  <2>1. /\ queue' = Tail(queue) /\ queue # <<>> /\ urcs = <<>> /\ rd.pc = "read"
        /\ UNCHANGED <<urcs, pending, faults>>
    BY <1>6 DEF ReadInfo, Pop
  <2>2. Len(queue') = Len(queue) - 1
    BY <1>0, <2>1
  <2>3. Cardinality(IprecvLines) = 0 /\ IprecvLines' = IprecvLines
    BY <2>1, NoLines DEF IprecvLines
  <2>4. QED
    <3>1. rd'.n > 0 /\ rd'.pc = "stop"
      BY <1>6, ReadTakes
    <3>2. Cardinality(IprecvLines') = 0 /\ pending' = pending /\ faults' = faults
      BY <2>1, <2>3
    <3>3. ASSUME faults = 0 PROVE pending = Len(queue)
      BY <1>0, <2>1, <2>3, <3>3
    <3>4. QED
      BY <1>0, <2>2, <3>1, <3>2, <3>3
<1>7. CASE ReadBreaks \/ (StopFails /\ rd.n > 0)
  <2>1. faults' # 0
    BY <1>0, <1>7 DEF ReadBreaks, StopFails, Fault, RxInv, TypeOK
  <2>2. QED
    BY <2>1
<1>8. CASE ReadNothing
  <2>1. faults' # 0 \/ UNCHANGED <<queue, faults>>
    BY <1>0, <1>8 DEF ReadNothing, Fault
  <2>2. UNCHANGED <<urcs, pending>> /\ rd.pc = "read" /\ rd'.pc = "blocked"
    BY <1>8 DEF ReadNothing, WouldBlock, Reader
  <2>3. IprecvLines' = IprecvLines
    BY <2>2 DEF IprecvLines
  <2>4. QED
    BY <2>1, <2>2, <2>3
<1>9. CASE StopOk
  <2>1. urcs = <<>> /\ rd.pc = "stop" /\ rd'.pc = "idle" /\ UNCHANGED <<urcs, queue, faults>>
    BY <1>9 DEF StopOk, Return, Idle, Reader
  <2>2. Cardinality(IprecvLines) = 0 /\ IprecvLines' = IprecvLines
    BY <2>1, NoLines DEF IprecvLines
  <2>3. pending' = IF pending > 0 THEN pending - 1 ELSE 0
    BY <1>9 DEF StopOk
  <2>4. QED
    BY <1>0, <2>1, <2>2, <2>3
<1>10. CASE StopFails /\ ~(rd.n > 0)
  <2>1. faults # 0 /\ (faults' = faults \/ faults' = faults + 1)
    BY <1>10 DEF StopFails, Fault
  <2>2. QED
    BY <1>0, <2>1
<1>11. CASE UNCHANGED vars
  BY <1>11 DEF vars, IprecvLines
<1>12. QED
  BY <1>1, <1>2, <1>3, <1>4, <1>5, <1>6, <1>7, <1>8, <1>9, <1>10, <1>11
  DEF Next, Modem, Urc, Answer

\* pending_bytes, which #IPRECV counts up on one thread and recvfrom() down on
\* another, is the number of segments on the modem, up to the lines on the UART and
\* the read in progress (urc_iprecv, socket_recvfrom_impl).
THEOREM PendingIsCounted == Spec => []PendingCounts
<1>1. Init => CountInv
  BY NoLines DEF Init, Idle, Reader, CountInv, PendingCounts
<1>2. RxInv /\ CountInv /\ [Next]_vars => CountInv'
  BY CountStep
<1>3. CountInv => PendingCounts
  BY DEF CountInv
<1>4. QED
  BY <1>1, <1>2, <1>3, RxInit, RxStep, PTL DEF Spec

-----------------------------------------------------------------------------
(* No wake-up is lost.                                                      *)

EndComing == \E i \in DOMAIN urcs : urcs[i] = "CLOSED"

\* The strengthening: a reader that is to wait, or may have to after its #IPREAD,
\* has found nothing that its flag does not already stand for.
WakeInv ==
  /\ shut => closed \/ EndComing
  /\ rd.pc = "blocked" => IsEmpty(buf)
  /\ rd.pc \in {"read", "stop", "blocked"} /\ closed => event
  /\ rd.pc = "read" /\ faults = 0 => pending > 0
  /\ rd.pc = "blocked" /\ faults = 0 /\ pending > 0 => event

\* A #SOCKETCLOSED line stays on the UART until it is handled.
LEMMA EndStaysComing ==
  ASSUME TypeOK
  PROVE  /\ EndComing /\ (\E line : urcs' = Append(urcs, line)) => EndComing'
         /\ urcs' = Append(urcs, "CLOSED") => EndComing'
         /\ EndComing /\ urcs # <<>> /\ Head(urcs) = "IPRECV" /\ urcs' = Tail(urcs) => EndComing'
<1>1. DOMAIN urcs = 1 .. Len(urcs) /\ Len(urcs) \in Nat
  BY DEF TypeOK
<1>2. ASSUME NEW line, urcs' = Append(urcs, line)
      PROVE  /\ DOMAIN urcs' = 1 .. Len(urcs) + 1 /\ urcs'[Len(urcs) + 1] = line
             /\ \A i \in DOMAIN urcs : urcs'[i] = urcs[i]
  BY <1>1, <1>2 DEF TypeOK
<1>3. ASSUME EndComing, NEW line, urcs' = Append(urcs, line) PROVE EndComing'
  BY <1>1, <1>2, <1>3 DEF EndComing
<1>4. ASSUME urcs' = Append(urcs, "CLOSED") PROVE EndComing'
  BY <1>1, <1>2, <1>4 DEF EndComing
<1>5. ASSUME EndComing, urcs # <<>>, Head(urcs) = "IPRECV", urcs' = Tail(urcs) PROVE EndComing'
  <2>1. /\ DOMAIN urcs' = 1 .. Len(urcs) - 1 /\ Len(urcs) > 0
        /\ \A i \in 1 .. Len(urcs) - 1 : urcs'[i] = urcs[i + 1]
        /\ urcs[1] = "IPRECV"
    BY <1>1, <1>5 DEF TypeOK
  <2>2. PICK i \in 1 .. Len(urcs) : urcs[i] = "CLOSED"
    BY <1>1, <1>5 DEF EndComing
  <2>3. i - 1 \in 1 .. Len(urcs) - 1 /\ urcs'[i - 1] = "CLOSED"
    BY <1>1, <2>1, <2>2
  <2>4. QED
    BY <2>1, <2>3 DEF EndComing
<1>6. QED
  BY <1>3, <1>4, <1>5

LEMMA WakeStep == ASSUME RxInv, CountInv, WakeInv, [Next]_vars PROVE WakeInv'
<1> USE DEF WakeInv
<1>0. /\ TypeOK /\ pending \in Nat /\ faults \in Nat /\ buf \in BufType
      /\ rd.pc \in {"idle", "read", "stop", "blocked", "eof"}
  BY DEF RxInv, TypeOK, BufType
<1>1. CASE SegmentArrives
  <2>1. ~shut /\ UNCHANGED <<shut, buf, pending, closed, event, rd, faults>>
    BY <1>1 DEF SegmentArrives
  <2>2. QED
    BY <2>1 DEF IsEmpty
<1>2. CASE PeerCloses
  <2>1. UNCHANGED <<buf, pending, closed, event, rd, faults>> /\ EndComing'
    BY <1>0, <1>2, EndStaysComing DEF PeerCloses, rxvars
  <2>2. QED
    BY <2>1 DEF IsEmpty
<1>3. CASE UrcIprecv
  <2>1. event' /\ pending' > 0 /\ UNCHANGED <<shut, buf, closed, rd, faults>>
    BY <1>0, <1>3 DEF UrcIprecv, peer
  <2>2. EndComing => EndComing'
    BY <1>0, <1>3, EndStaysComing DEF UrcIprecv
  <2>3. QED
    BY <2>1, <2>2 DEF IsEmpty
<1>4. CASE UrcSocketclosed
  <2>1. closed' /\ event' /\ buf' = Reset(buf) /\ UNCHANGED <<pending, rd, faults>>
    BY <1>4 DEF UrcSocketclosed
  <2>2. IsEmpty(buf)'
    BY <1>0, <2>1, ResetEmpties DEF IsEmpty
  <2>3. QED
    BY <2>1, <2>2
<1>5. CASE Recv \/ Wakeup
  <2>1. UNCHANGED <<shut, urcs, pending, closed, faults>> /\ (shut' => closed' \/ EndComing')
    BY <1>5 DEF Recv, Wakeup, peer, EndComing
  <2>2. PICK want : RecvStep(want)
    BY <1>5 DEF Recv, Wakeup
  <2>3. \/ rd'.pc \in {"idle", "eof"}
        \/ ~closed /\ IsEmpty(buf) /\ buf' = buf /\ rd'.pc = "read" /\ pending > 0
        \/ ~closed /\ IsEmpty(buf) /\ buf' = buf /\ rd'.pc = "blocked" /\ pending = 0
    BY <2>2 DEF RecvStep, CanRead, Return, Reader, Idle
  <2>4. QED
    BY <2>1, <2>3 DEF IsEmpty
<1>6. CASE ReadInfo \/ ReadBreaks
  <2>1. rd.pc = "read" /\ rd'.pc = "stop" /\ UNCHANGED <<shut, urcs, closed, event>>
    BY <1>6, ReadTakes DEF ReadInfo, ReadBreaks, Reader, peer
  <2>2. EndComing' = EndComing
    BY <2>1 DEF EndComing
  <2>3. QED
    BY <2>1, <2>2
<1>7. CASE ReadNothing
  <2>1. /\ rd.pc = "read" /\ rd'.pc = "blocked" /\ urcs = <<>>
        /\ UNCHANGED <<shut, urcs, buf, pending, closed, event>>
    BY <1>7 DEF ReadNothing, WouldBlock, Reader, peer
  <2>2. IsEmpty(buf)' /\ EndComing' = EndComing
    BY <2>1 DEF RxInv, ReaderOK, IsEmpty, EndComing
  <2>3. faults' # 0
    <3>1. faults' = faults + 1 \/ (faults' = faults /\ queue = <<>>)
      BY <1>7 DEF ReadNothing, Fault
    <3>2. Cardinality(IprecvLines) = 0
      BY <2>1, NoLines
    <3>3. ASSUME queue = <<>> PROVE faults # 0
      <4>1. Len(queue) = 0
        BY <3>3
      <4>2. QED
        BY <1>0, <2>1, <3>2, <4>1 DEF CountInv, PendingCounts
    <3>4. QED
      BY <1>0, <3>1, <3>3
  <2>4. QED
    BY <2>1, <2>2, <2>3
<1>8. CASE StopOk
  <2>1. rd'.pc = "idle" /\ UNCHANGED <<shut, urcs, closed>> /\ EndComing' = EndComing
    BY <1>8 DEF StopOk, Return, Reader, Idle, peer, EndComing
  <2>2. QED
    BY <2>1
<1>9. CASE StopFails
  <2>1. rd.pc = "stop" /\ rd'.pc = "blocked" /\ UNCHANGED <<shut, urcs, closed, event>>
    BY <1>9 DEF StopFails, WouldBlock, Reader, peer
  <2>2. faults' # 0
    BY <1>0, <1>9 DEF StopFails, Fault, CountInv
  <2>3. IsEmpty(buf)'
    <3>1. CASE proto = "TCP"
      <4>1. buf' = Reset(buf)
        BY <1>9, <3>1 DEF StopFails
      <4>2. QED
        BY <1>0, <4>1, ResetEmpties DEF IsEmpty
    <3>2. CASE proto # "TCP"
      BY <1>9, <3>2 DEF StopFails, RxInv, ReaderOK, IsEmpty
    <3>3. QED
      BY <3>1, <3>2
  <2>4. EndComing' = EndComing
    BY <2>1 DEF EndComing
  <2>5. QED
    BY <2>1, <2>2, <2>3, <2>4
<1>10. CASE UNCHANGED vars
  BY <1>10 DEF vars, IsEmpty, EndComing
<1>11. QED
  BY <1>1, <1>2, <1>3, <1>4, <1>5, <1>6, <1>7, <1>8, <1>9, <1>10 DEF Next, Modem, Urc, Answer

\* recvfrom() returns WOULD_BLOCK and the socket layer waits: whatever #IPRECV and
\* #SOCKETCLOSED do in between, the reader's flag tells it, or a line that is still
\* to be handled will (urc_iprecv, urc_socketclosed, socket_recvfrom_impl).
THEOREM WakeupsReachReader == Spec => []NoLostWakeup
<1>1. Init => WakeInv
  BY DEF Init, Idle, Reader, WakeInv
<1>2. Init => CountInv
  BY NoLines DEF Init, Idle, Reader, CountInv, PendingCounts
<1>3. RxInv /\ CountInv /\ WakeInv /\ [Next]_vars => CountInv' /\ WakeInv'
  BY CountStep, WakeStep
<1>4. RxInv /\ CountInv /\ WakeInv => NoLostWakeup
  <2> SUFFICES ASSUME RxInv, CountInv, WakeInv, rd.pc = "blocked", ~event, urcs = <<>>
               PROVE  ~shut /\ (faults = 0 => queue = <<>> /\ IsEmpty(buf))
    BY DEF NoLostWakeup
  <2>1. ~shut /\ IsEmpty(buf) /\ (faults = 0 => ~(pending > 0))
    BY DEF WakeInv, EndComing
  <2>2. pending \in Nat /\ queue \in Seq(Nat)
    BY DEF RxInv, TypeOK
  <2>3. faults = 0 => Len(queue) = 0
    BY <2>1, <2>2, NoLines DEF CountInv, PendingCounts
  <2>4. QED
    BY <2>1, <2>2, <2>3
<1>5. QED
  BY <1>1, <1>2, <1>3, <1>4, RxInit, RxStep, PTL DEF Spec

-----------------------------------------------------------------------------
(* What is kept while the socket is open.                                   *)

\* Every segment fits the place #IPREAD copies it to.
Fits ==
  /\ "TCP" \in Protocols => \A n \in SegSizes : n <= BufSize
  /\ \A p \in Protocols \ {"TCP"}, n \in SegSizes, w \in ReadSizes : n <= w

\* Bytes are dropped by an AT error, or when the connection is closed.
LostOnlyByClose == lossy => faults > 0 \/ closed

\* Where segment i of the queue q ends, and where the first one starts.
End(q, f, i) == IF i = 0 THEN f ELSE q[i]

\* Each segment the modem holds has one of the sizes the peer sends.
Segmented(q, f, s) ==
  /\ s = End(q, f, Len(q))
  /\ \A i \in 1 .. Len(q) : End(q, f, i) - End(q, f, i - 1) \in SegSizes

KeptInv ==
  /\ LostOnlyByClose
  /\ faults = 0 /\ rd.pc = "stop" => rd.n > 0
  /\ Segmented(queue, front, sent)

LEMMA SegmentedFirst ==
  ASSUME NEW q \in Seq(Nat), NEW f \in Nat, NEW s \in Nat, q # <<>>, Segmented(q, f, s)
  PROVE  Head(q) - f \in SegSizes /\ Segmented(Tail(q), Head(q), s)
<1>1. Len(q) \in Nat \ {0} /\ Head(q) = q[1] /\ Tail(q) \in Seq(Nat) /\ Len(Tail(q)) = Len(q) - 1
      /\ \A i \in 1 .. Len(q) - 1 : Tail(q)[i] = q[i + 1]
  BY HeadTailProperties
<1>2. Head(q) - f \in SegSizes
  <2>1. 1 \in 1 .. Len(q) /\ End(q, f, 1) = q[1] /\ End(q, f, 1 - 1) = f
    BY <1>1 DEF End
  <2>2. QED
    BY <1>1, <2>1 DEF Segmented
<1>3. ASSUME NEW i \in 0 .. Len(q) - 1 PROVE End(Tail(q), Head(q), i) = End(q, f, i + 1)
  BY <1>1 DEF End
<1>4. s = End(Tail(q), Head(q), Len(Tail(q)))
  <2>1. Len(q) - 1 \in 0 .. Len(q) - 1 /\ Len(q) - 1 + 1 = Len(q)
    BY <1>1
  <2>2. QED
    BY <1>1, <1>3, <2>1 DEF Segmented
<1>5. ASSUME NEW i \in 1 .. Len(Tail(q))
      PROVE  End(Tail(q), Head(q), i) - End(Tail(q), Head(q), i - 1) \in SegSizes
  <2>1. i \in 0 .. Len(q) - 1 /\ i - 1 \in 0 .. Len(q) - 1 /\ i - 1 + 1 = i
        /\ i + 1 \in 1 .. Len(q) /\ i + 1 - 1 = i
    BY <1>1
  <2>2. End(Tail(q), Head(q), i) = End(q, f, i + 1) /\ End(Tail(q), Head(q), i - 1) = End(q, f, i)
    BY <1>3, <2>1
  <2>3. End(q, f, i + 1) - End(q, f, i + 1 - 1) \in SegSizes
    BY <2>1 DEF Segmented
  <2>4. QED
    BY <2>1, <2>2, <2>3
<1>6. QED
  BY <1>2, <1>4, <1>5 DEF Segmented

LEMMA SegmentedLonger ==
  ASSUME NEW q \in Seq(Nat), NEW f \in Nat, NEW s \in Nat, NEW n \in SegSizes, Segmented(q, f, s)
  PROVE  Segmented(Append(q, s + n), f, s + n)
<1> DEFINE r == Append(q, s + n)
<1>1. n \in Nat /\ s + n \in Nat
  BY SegSizesAssumption
<1>2. Len(q) \in Nat /\ Len(r) = Len(q) + 1 /\ r[Len(q) + 1] = s + n
      /\ \A i \in 1 .. Len(q) : r[i] = q[i]
  BY <1>1, AppendProperties
<1> HIDE DEF r
<1>3. End(r, f, Len(q) + 1) = s + n
  BY <1>2 DEF End
<1>4. ASSUME NEW i \in 0 .. Len(q) PROVE End(r, f, i) = End(q, f, i)
  BY <1>2 DEF End
<1>5. ASSUME NEW i \in 1 .. Len(q) + 1 PROVE End(r, f, i) - End(r, f, i - 1) \in SegSizes
  <2>1. CASE i = Len(q) + 1
    <3>1. i - 1 = Len(q) /\ Len(q) \in 0 .. Len(q)
      BY <1>2, <2>1
    <3>2. End(r, f, i - 1) = s
      BY <1>4, <3>1 DEF Segmented
    <3>3. (s + n) - s = n
      BY <1>1
    <3>4. End(r, f, i) = s + n
      BY <1>3, <2>1
    <3>5. End(r, f, i) - End(r, f, i - 1) = n
      BY <3>2, <3>3, <3>4
    <3>6. QED
      BY <3>5
  <2>2. CASE i # Len(q) + 1
    <3>1. i \in 1 .. Len(q) /\ i \in 0 .. Len(q) /\ i - 1 \in 0 .. Len(q)
      BY <1>2, <2>2
    <3>2. End(r, f, i) = End(q, f, i) /\ End(r, f, i - 1) = End(q, f, i - 1)
      BY <1>4, <3>1
    <3>3. QED
      BY <3>1, <3>2 DEF Segmented
  <2>3. QED
    BY <2>1, <2>2
<1>6. Segmented(r, f, s + n)
  BY <1>2, <1>3, <1>5 DEF Segmented
<1>7. QED
  BY <1>6 DEF r

\* #IPREAD copies the whole segment: nothing of it is dropped.
LEMMA WholeSegmentRead == ASSUME Fits, RxInv, KeptInv, ReadInfo PROVE lossy' = lossy
<1>1. rd.pc = "read" /\ queue # <<>> /\ queue \in Seq(Nat) /\ front \in Nat /\ sent \in Nat
      /\ proto \in Protocols /\ rd.want \in ReadSizes /\ lossy \in BOOLEAN
  BY DEF ReadInfo, RxInv, TypeOK, ReaderOK
<1>2. Head(queue) \in Nat /\ Head(queue) - front \in SegSizes
  <2>1. Head(queue) - front \in SegSizes
    BY <1>1, SegmentedFirst DEF KeptInv
  <2>2. Head(queue) \in Nat
    BY <1>1
  <2>3. QED
    BY <2>1, <2>2
<1>3. front + (Head(queue) - front) = Head(queue)
  BY <1>1, <1>2
<1>4. CASE proto = "TCP"
  <2>1. Least(Head(queue) - front, BufSize) = Head(queue) - front
    BY <1>1, <1>2, <1>4 DEF Fits, Least
  <2>2. lossy' = (lossy \/ front + Least(Head(queue) - front, BufSize) # Head(queue))
    BY <1>4 DEF ReadInfo, ReadTcp
  <2>3. QED
    BY <1>1, <1>3, <2>1, <2>2
<1>5. CASE proto # "TCP"
  <2>1. Least(Head(queue) - front, rd.want) = Head(queue) - front
    BY <1>1, <1>2, <1>5 DEF Fits, Least
  <2>2. lossy' = (lossy \/ front + Least(Head(queue) - front, rd.want) # Head(queue))
    BY <1>5 DEF ReadInfo, ReadUdp
  <2>3. QED
    BY <1>1, <1>3, <2>1, <2>2
<1>6. QED
  BY <1>4, <1>5

LEMMA LossStep ==
  ASSUME Fits, RxInv, KeptInv, [Next]_vars
  PROVE  /\ LostOnlyByClose'
         /\ faults' = 0 => faults = 0
<1>1. faults \in Nat /\ closed \in BOOLEAN /\ lossy \in BOOLEAN
  BY DEF RxInv, TypeOK
<1>2. CASE (lossy' => lossy) /\ UNCHANGED <<closed, faults>>
  BY <1>2 DEF KeptInv, LostOnlyByClose
<1>3. CASE closed' /\ faults' = faults
  BY <1>3 DEF LostOnlyByClose
<1>4. CASE Fault
  BY <1>1, <1>4 DEF Fault, LostOnlyByClose
<1>5. CASE Modem
  BY <1>2, <1>5 DEF Modem, SegmentArrives, PeerCloses, history
<1>6. CASE Urc
  BY <1>2, <1>3, <1>6 DEF Urc, UrcIprecv, UrcSocketclosed, history
<1>7. CASE Recv \/ Wakeup
  BY <1>2, <1>7 DEF Recv, Wakeup
<1>8. CASE ReadInfo
  <2>1. UNCHANGED <<closed, faults>>
    BY <1>8 DEF ReadInfo
  <2>2. QED
    BY <1>2, <1>8, <2>1, WholeSegmentRead
<1>9. CASE ReadBreaks
  BY <1>4, <1>9 DEF ReadBreaks
<1>10. CASE ReadNothing
  BY <1>2, <1>4, <1>10 DEF ReadNothing
<1>11. CASE StopOk
  BY <1>2, <1>11 DEF StopOk
<1>12. CASE StopFails
  <2>1. CASE rd.n = 0 /\ UNCHANGED faults
    <3>1. faults # 0
      BY <1>12, <2>1 DEF StopFails, KeptInv
    <3>2. QED
      BY <1>1, <2>1, <3>1 DEF LostOnlyByClose
  <2>2. QED
    BY <1>4, <1>12, <2>1 DEF StopFails
<1>13. CASE UNCHANGED vars
  BY <1>2, <1>13 DEF vars
<1>14. QED
  BY <1>5, <1>6, <1>7, <1>8, <1>9, <1>10, <1>11, <1>12, <1>13 DEF Next, Answer

LEMMA SegmentedStep ==
  ASSUME RxInv, KeptInv, [Next]_vars PROVE Segmented(queue, front, sent)'
<1>1. queue \in Seq(Nat) /\ front \in Nat /\ sent \in Nat /\ Segmented(queue, front, sent)
  BY DEF RxInv, TypeOK, KeptInv
<1>2. CASE UNCHANGED <<queue, front, sent>>
  BY <1>1, <1>2
<1>3. CASE Pop /\ queue # <<>> /\ sent' = sent
  <2>1. Segmented(Tail(queue), Head(queue), sent)
    BY <1>1, <1>3, SegmentedFirst
  <2>2. QED
    BY <1>3, <2>1 DEF Pop
<1>4. CASE SegmentArrives
  <2>1. PICK n \in SegSizes : sent' = sent + n
    BY <1>4 DEF SegmentArrives
  <2>2. queue' = Append(queue, sent + n) /\ front' = front
    BY <1>4, <2>1 DEF SegmentArrives
  <2>3. Segmented(Append(queue, sent + n), front, sent + n)
    BY <1>1, SegmentedLonger
  <2>4. QED
    BY <2>1, <2>2, <2>3
<1>5. CASE PeerCloses \/ Urc
  BY <1>2, <1>5 DEF PeerCloses, Urc, UrcIprecv, UrcSocketclosed, rxvars, peer
<1>6. CASE Recv \/ Wakeup
  BY <1>2, <1>6 DEF Recv, Wakeup, peer
<1>7. CASE ReadInfo \/ ReadBreaks
  BY <1>3, <1>7 DEF ReadInfo, ReadBreaks, peer
<1>8. CASE ReadNothing
  BY <1>2, <1>3, <1>8 DEF ReadNothing, peer
<1>9. CASE StopOk \/ StopFails
  BY <1>2, <1>9 DEF StopOk, StopFails, peer
<1>10. CASE UNCHANGED vars
  BY <1>2, <1>10 DEF vars
<1>11. QED
  BY <1>4, <1>5, <1>6, <1>7, <1>8, <1>9, <1>10 DEF Next, Modem, Answer

LEMMA KeptStep ==
  ASSUME Fits, RxInv, CountInv, KeptInv, [Next]_vars PROVE KeptInv'
<1>1. LostOnlyByClose'
  BY LossStep
<1>2. faults' = 0 /\ rd'.pc = "stop" => rd'.n > 0
  BY CountStep DEF CountInv
<1>3. Segmented(queue, front, sent)'
  BY SegmentedStep
<1>4. QED
  BY <1>1, <1>2, <1>3 DEF KeptInv

LEMMA KeptInit == Init => KeptInv
<1> SUFFICES ASSUME Init PROVE KeptInv
  OBVIOUS
<1>1. queue = <<>> /\ front = 0 /\ sent = 0 /\ lossy = FALSE
  BY DEF Init
<1>2. rd.pc # "stop"
  BY DEF Init, Idle, Reader
<1>3. Len(<<>>) = 0
  OBVIOUS
<1>4. QED
  BY <1>1, <1>2, <1>3 DEF KeptInv, LostOnlyByClose, Segmented, End

\* Provided a segment fits _rx_buf (TCP) and a datagram the caller's buffer (UDP),
\* receiving drops a byte only after an AT error or when the connection is closed:
\* socket_recvfrom_impl() drops none of its own.  The second cause is the one by
\* which LeftoverKept fails, urc_socketclosed() resetting a buffer not read empty.
THEOREM BytesKept == ASSUME Fits PROVE Spec => []LostOnlyByClose
<1>1. Init => RxInv /\ CountInv /\ KeptInv
  BY RxInit, KeptInit, NoLines DEF Init, Idle, Reader, CountInv, PendingCounts
<1>2. RxInv /\ CountInv /\ KeptInv /\ [Next]_vars => RxInv' /\ CountInv' /\ KeptInv'
  BY RxStep, CountStep, KeptStep
<1>3. KeptInv => LostOnlyByClose
  BY DEF KeptInv
<1>4. QED
  BY <1>1, <1>2, <1>3, PTL DEF Spec

\* What recv() returns next then starts where the last return ended.
GaplessWhileOpen ==
  [][faults' = 0 /\ ~closed' /\ chunk' # chunk => chunk'.from = chunk.to]_vars

\* As long as neither happens, recv() hands over the stream without a gap, whatever
\* the reads and the #IPRECV lines are interleaved with (socket_recvfrom_impl).
THEOREM NoGapWhileOpen == ASSUME Fits PROVE Spec => GaplessWhileOpen
<1>1. Init => RxInv /\ CountInv /\ KeptInv
  BY RxInit, KeptInit, NoLines DEF Init, Idle, Reader, CountInv, PendingCounts
<1>2. RxInv /\ CountInv /\ KeptInv /\ [Next]_vars => RxInv' /\ CountInv' /\ KeptInv'
  BY RxStep, CountStep, KeptStep
<1>3. ASSUME RxInv, CountInv, KeptInv, [Next]_vars
      PROVE  [faults' = 0 /\ ~closed' /\ chunk' # chunk => chunk'.from = chunk.to]_vars
  <2> SUFFICES ASSUME faults' = 0, ~closed', chunk' # chunk PROVE chunk'.from = chunk.to
    OBVIOUS
  <2>1. ~lossy'
    BY <1>3, LossStep DEF LostOnlyByClose
  <2>2. Channel!Deliver
    BY <1>3, StepRefines DEF Channel!Next, Channel!Send, Channel!Lose
  <2>3. QED
    BY <2>1, <2>2 DEF Channel!Deliver
<1>4. QED
  BY <1>1, <1>2, <1>3, PTL DEF Spec, GaplessWhileOpen
=============================================================================
