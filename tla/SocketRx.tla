------------------------------ MODULE SocketRx ------------------------------
(***************************************************************************)
(* Receiving on one socket of ST87M01_CellularStack: #IPRECV counting, the *)
(* #IPREAD transaction of socket_recvfrom_impl() and the leftover buffer   *)
(* of a TCP socket, against a reader that calls recv() in a loop.          *)
(*                                                                         *)
(* Data is abstracted to positions: a segment (or datagram) is the stream  *)
(* position after its last byte, a buffer the position of its first byte   *)
(* and two offsets.  URCs that arrive before an answer are handled before  *)
(* it (AT handler), hence `urcs = <<>>` where an answer is read.           *)
(***************************************************************************)
EXTENDS Integers, Sequences, FiniteSets

CONSTANTS
  Protocols,  \* subset of {"TCP", "UDP"}: what the socket may be
  BufSize,    \* MBED_CONF_ST87M01_SOCKET_RX_BUFFER_SIZE
  SegSizes,   \* bytes of one segment or datagram
  ReadSizes,  \* sizes of the caller's buffer
  MaxSegs,    \* segments the peer sends
  MaxFaults   \* AT errors while reading

ASSUME BufSizeAssumption   == BufSize \in Nat \ {0}
ASSUME SegSizesAssumption  == SegSizes \subseteq Nat \ {0}
ASSUME ReadSizesAssumption == ReadSizes \subseteq Nat \ {0}

VARIABLES
  proto,
  sent, segs,  \* bytes and segments the peer has sent
  queue,       \* segments the modem holds: the end position of each
  front,       \* position of the first byte the modem still holds
  shut,        \* the connection has ended at the modem
  urcs,        \* "IPRECV" and "CLOSED" lines not handled yet, oldest first
  buf,         \* _rx_buf: stream position of data[0], head, tail
  pending,     \* pending_bytes
  closed,
  event,       \* READ flag of the socket's event group, set by _cb
  rd,          \* the reader: where it is in recv(), its size, and what it copied
  chunk,       \* history: the last bytes recv() returned
  lossy,       \* history: bytes the modem had handed over or dropped unread
  faults

rxvars  == <<queue, front, buf, pending>>
peer    == <<sent, segs, shut>>
history == <<chunk, lossy>>
vars == <<proto, sent, segs, queue, front, shut, urcs, buf, pending, closed,
          event, rd, chunk, lossy, faults>>

Empty == [base |-> 0, head |-> 0, tail |-> 0]
Reset(b) == [b EXCEPT !.head = 0, !.tail = 0]
IsEmpty(b) == b.head >= b.tail
Available(b) == b.tail - b.head
Least(a, b) == IF a <= b THEN a ELSE b

\* memcpy of n bytes out of the buffer, which is reset once empty.
Take(b, n) == IF b.head + n >= b.tail THEN Reset(b) ELSE [b EXCEPT !.head = @ + n]

Reader(pc, want, from, n) == [pc |-> pc, want |-> want, from |-> from, n |-> n]
Idle == Reader("idle", 0, 0, 0)

Init ==
  /\ proto \in Protocols
  /\ sent = 0 /\ segs = 0 /\ queue = <<>> /\ front = 0 /\ shut = FALSE
  /\ urcs = <<>>
  /\ buf = Empty /\ pending = 0 /\ closed = FALSE
  /\ event = FALSE
  /\ rd = Idle
  /\ chunk = [from |-> 0, to |-> 0] /\ lossy = FALSE
  /\ faults = 0

-----------------------------------------------------------------------------
(* The peer and the modem.                                                  *)

SegmentArrives ==
  /\ ~shut /\ segs < MaxSegs
  /\ \E n \in SegSizes : sent' = sent + n
  /\ segs' = segs + 1
  /\ queue' = Append(queue, sent')
  /\ urcs' = Append(urcs, "IPRECV")
  /\ UNCHANGED <<proto, front, shut, buf, pending, closed, event, rd, chunk, lossy, faults>>

PeerCloses ==
  /\ ~shut /\ shut' = TRUE
  /\ urcs' = Append(urcs, "CLOSED")
  /\ UNCHANGED <<proto, sent, segs, rxvars, closed, event, rd, history, faults>>

\* The modem hands its first segment to #IPREAD.
Pop == queue' = Tail(queue) /\ front' = Head(queue)

-----------------------------------------------------------------------------
(* URCs, handled by the event queue or while a command is in flight.        *)

UrcIprecvNoCallback ==
  /\ urcs # <<>> /\ Head(urcs) = "IPRECV" /\ urcs' = Tail(urcs)
  /\ pending' = pending + 1
  /\ UNCHANGED <<proto, peer, queue, front, buf, closed, event, rd, history, faults>>

UrcIprecv ==
  /\ urcs # <<>> /\ Head(urcs) = "IPRECV" /\ urcs' = Tail(urcs)
  /\ pending' = pending + 1
  /\ event' = TRUE
  /\ UNCHANGED <<proto, peer, queue, front, buf, closed, rd, history, faults>>

UrcSocketclosed ==
  /\ urcs # <<>> /\ Head(urcs) = "CLOSED" /\ urcs' = Tail(urcs)
  /\ closed' = TRUE
  /\ buf' = Reset(buf)
  /\ lossy' = (lossy \/ ~IsEmpty(buf))
  /\ event' = TRUE
  /\ UNCHANGED <<proto, peer, queue, front, pending, rd, chunk, faults>>

-----------------------------------------------------------------------------
(* recv().                                                                  *)

\* What recv() returns to the application.
Return(from, n) == chunk' = [from |-> from, to |-> from + n] /\ rd' = Idle

WouldBlock == rd' = Reader("blocked", rd.want, 0, 0)

CanRead == ~closed /\ IsEmpty(buf) /\ pending > 0

\* One pass of recv() up to the #IPREAD command or an early return.
RecvStep(want) ==
  \/ /\ closed                                \* the base class returns 0
     /\ rd' = Reader("eof", 0, 0, 0)
     /\ UNCHANGED <<buf, chunk>>
  \/ /\ ~closed /\ ~IsEmpty(buf)              \* leftover of an earlier #IPREAD
     /\ LET n == Least(Available(buf), want)
        IN  Return(buf.base + buf.head, n) /\ buf' = Take(buf, n)
  \/ /\ CanRead
     /\ rd' = Reader("read", want, 0, 0)
     /\ UNCHANGED <<buf, chunk>>
  \/ /\ ~closed /\ IsEmpty(buf) /\ pending = 0
     /\ rd' = Reader("blocked", want, 0, 0)
     /\ UNCHANGED <<buf, chunk>>

Recv ==
  /\ rd.pc = "idle"
  /\ \E want \in ReadSizes : RecvStep(want)
  /\ UNCHANGED <<proto, peer, queue, front, urcs, pending, closed, event, lossy, faults>>

\* The socket layer waits for READ, clears it and calls again.
Wakeup ==
  /\ rd.pc = "blocked" /\ event /\ event' = FALSE
  /\ RecvStep(rd.want)
  /\ UNCHANGED <<proto, peer, queue, front, urcs, pending, closed, lossy, faults>>

Fault == faults < MaxFaults /\ faults' = faults + 1

\* A bug: the head is not advanced past the bytes copied.
ReadTcpNoAdvance ==
  LET m == Least(Head(queue) - front, BufSize)
      n == Least(m, rd.want)
  IN  /\ buf' = [base |-> front, head |-> 0, tail |-> m]
      /\ rd' = Reader("stop", rd.want, front, n)
      /\ lossy' = (lossy \/ front + m # Head(queue))

\* A bug: the segment is not cut to the size of the buffer.
ReadTcpUncut ==
  LET m == Head(queue) - front
      n == Least(m, rd.want)
  IN  /\ buf' = Take([base |-> front, head |-> 0, tail |-> m], n)
      /\ rd' = Reader("stop", rd.want, front, n)
      /\ UNCHANGED lossy

\* The first segment, into the leftover buffer (TCP) or the caller's (UDP).
ReadTcp ==
  LET m == Least(Head(queue) - front, BufSize)
      b == [base |-> front, head |-> 0, tail |-> m]
      n == Least(m, rd.want)
  IN  /\ buf' = Take(b, n)
      /\ rd' = Reader("stop", rd.want, front, n)
      /\ lossy' = (lossy \/ front + m # Head(queue))

ReadUdp ==
  LET n == Least(Head(queue) - front, rd.want)
  IN  /\ rd' = Reader("stop", rd.want, front, n)
      /\ lossy' = (lossy \/ front + n # Head(queue))
      /\ UNCHANGED buf

ReadInfo ==
  /\ rd.pc = "read" /\ urcs = <<>> /\ queue # <<>>
  /\ Pop
  /\ IF proto = "TCP" THEN ReadTcp ELSE ReadUdp
  /\ UNCHANGED <<proto, peer, urcs, pending, closed, event, chunk, faults>>

\* read_bytes() fails: the segment has left the modem and nothing is copied.
ReadBreaks ==
  /\ rd.pc = "read" /\ urcs = <<>> /\ queue # <<>> /\ Fault
  /\ Pop
  /\ buf' = IF proto = "TCP" THEN Reset(buf) ELSE buf
  /\ rd' = Reader("stop", rd.want, front, 0)
  /\ lossy' = TRUE
  /\ UNCHANGED <<proto, peer, urcs, pending, closed, event, chunk>>

\* No #IPREAD line, or an error with it: pending_bytes is left alone.
ReadNothing ==
  /\ rd.pc = "read" /\ urcs = <<>>
  /\ \/ queue = <<>> /\ UNCHANGED <<queue, front, lossy, faults>>
     \/ queue # <<>> /\ Fault /\ UNCHANGED <<queue, front, lossy>>
     \/ queue # <<>> /\ Fault /\ Pop /\ lossy' = TRUE
  /\ WouldBlock
  /\ UNCHANGED <<proto, peer, urcs, buf, pending, closed, event, chunk>>

StopOkNoDecrement ==
  /\ rd.pc = "stop" /\ urcs = <<>> /\ rd.n > 0
  /\ Return(rd.from, rd.n)
  /\ UNCHANGED <<proto, peer, rxvars, urcs, closed, event, lossy, faults>>

StopOk ==
  /\ rd.pc = "stop" /\ urcs = <<>> /\ rd.n > 0
  /\ pending' = IF pending > 0 THEN pending - 1 ELSE 0
  /\ Return(rd.from, rd.n)
  /\ UNCHANGED <<proto, peer, queue, front, urcs, buf, closed, event, lossy, faults>>

\* The final result code is an error, or nothing was copied.
StopFails ==
  /\ rd.pc = "stop" /\ urcs = <<>>
  /\ \/ rd.n = 0 /\ UNCHANGED faults
     \/ rd.n > 0 /\ Fault
  /\ buf' = IF proto = "TCP" THEN Reset(buf) ELSE buf
  /\ pending' = 0
  /\ lossy' = TRUE
  /\ WouldBlock
  /\ UNCHANGED <<proto, peer, queue, front, urcs, closed, event, chunk>>

Modem   == SegmentArrives \/ PeerCloses
Urc     == UrcIprecv \/ UrcSocketclosed
Answer  == ReadInfo \/ ReadBreaks \/ ReadNothing \/ StopOk \/ StopFails
Next    == Modem \/ Urc \/ Recv \/ Wakeup \/ Answer

\* The event queue runs, commands are answered, the reader keeps calling recv().
Fairness ==
  WF_vars(Urc) /\ WF_vars(Answer) /\ WF_vars(Recv) /\ WF_vars(Wakeup)

Spec == Init /\ [][Next]_vars /\ Fairness

-----------------------------------------------------------------------------
TypeOK ==
  /\ proto \in Protocols
  /\ sent \in Nat /\ segs \in Nat /\ queue \in Seq(Nat) /\ front \in Nat
  /\ shut \in BOOLEAN /\ closed \in BOOLEAN /\ event \in BOOLEAN /\ lossy \in BOOLEAN
  /\ urcs \in Seq({"IPRECV", "CLOSED"})
  /\ buf \in [base : Nat, head : Nat, tail : 0 .. BufSize]
  /\ pending \in Nat /\ faults \in Nat
  /\ rd \in [pc : {"idle", "read", "stop", "blocked", "eof"}, want : Nat, from : Nat, n : Nat]
  /\ chunk \in [from : Nat, to : Nat]

IprecvLines == {i \in DOMAIN urcs : urcs[i] = "IPRECV"}

\* pending_bytes counts the segments the modem holds, up to the #IPRECV lines
\* still on the way and the #IPREAD in progress, as long as no read failed.
PendingCounts ==
  faults = 0 =>
    pending + Cardinality(IprecvLines) = Len(queue) + (IF rd.pc = "stop" THEN 1 ELSE 0)

\* A wake-up is never lost between the check in recvfrom() and the wait of the
\* socket layer: while a reader waits although its connection has ended, or the
\* modem or the buffer has bytes for it and no read failed, its flag is set or a
\* URC that will set it is on the way.
NoLostWakeup ==
  rd.pc = "blocked" /\ (shut \/ (faults = 0 /\ (queue # <<>> \/ ~IsEmpty(buf)))) =>
    event \/ urcs # <<>>

\* Bytes reach the application in order, none twice, and without a gap unless
\* bytes were dropped.
Channel == INSTANCE ByteChannel
OrderedDelivery == Channel!Spec

\* A reader that waits while the modem holds a segment, or while its connection
\* has ended, goes on, as long as no read failed.
ReaderWoken ==
  rd.pc = "blocked" /\ (queue # <<>> \/ shut) ~> rd.pc # "blocked" \/ faults > 0

\* Leftover bytes stay buffered until the application has read them: none is lost
\* when no AT command failed and every segment fits the buffer.
LeftoverKept == lossy => faults > 0
=============================================================================
