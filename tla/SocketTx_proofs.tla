--------------------------- MODULE SocketTx_proofs ---------------------------
(***************************************************************************)
(* Proofs about the TX-full timeout, for every number of sockets and every *)
(* retry limit.                                                            *)
(***************************************************************************)
EXTENDS SocketTx, TLAPS

\* The stack is deleted once no thread uses it, so nothing arms a timeout later.
QuietWhenDead == ~alive => \A s \in Socks : th[s] = "idle"

\* _txfull_event_id stands for the one timeout there is: in the queue, or taken out
\* and not done.  On a deleted stack only the latter.
OneTimeout ==
  /\ queued \in {0, 1}
  /\ alive => (armed <=> queued = 1 \/ running) /\ ~(queued = 1 /\ running)
  /\ ~alive => queued = 0

TxInv == TypeOK /\ MarkHasTimeout /\ OneTimeout /\ QuietWhenDead

LEMMA TxInit == Init => TxInv
<1> SUFFICES ASSUME Init PROVE TxInv
  OBVIOUS
<1>1. TypeOK
  <2>1. retry \in [Socks -> 0 .. MaxRetries]
    BY RetriesAssumption DEF Init
  <2>2. th \in [Socks -> {"idle", "calling", "sending", "pausing", "blocked", "closing"}]
    BY DEF Init
  <2>3. flag \in [Socks -> BOOLEAN] /\ event \in [Socks -> BOOLEAN] /\ closed \in [Socks -> BOOLEAN]
    BY DEF Init
  <2>4. QED
    BY <2>1, <2>2, <2>3 DEF Init, TypeOK
<1>2. armed = FALSE /\ alive = TRUE /\ queued = 0 /\ running = FALSE /\ \A s \in Socks : flag[s] = FALSE
  BY DEF Init
<1>3. QED
  BY <1>1, <1>2 DEF TxInv, MarkHasTimeout, OneTimeout, QuietWhenDead

LEMMA TxSend == ASSUME TxInv, NEW s \in Socks, Send(s) PROVE TxInv'
<1> USE DEF TxInv, MarkHasTimeout, HasCallback, OneTimeout, QuietWhenDead
<1>1. CASE Call(s)
  BY <1>1 DEF Call, TypeOK
<1>2. CASE Acquire(s)
  BY <1>2, RetriesAssumption DEF Acquire, TypeOK
<1>3. CASE Sent(s)
  BY <1>3 DEF Sent, Leave, TypeOK
<1>4. CASE UdpCongested(s)
  BY <1>4, RetriesAssumption DEF UdpCongested, Leave, TypeOK
<1>5. CASE Resend(s)
  BY <1>5 DEF Resend, TypeOK
<1>6. CASE TcpCongested(s)
  <2>1. alive
    BY <1>6 DEF TcpCongested
  <2>2. CASE MayArm(s)
    <3>1. /\ flag' = [flag EXCEPT ![s] = TRUE] /\ armed' = TRUE /\ queued' = queued + 1
          /\ lock' = None /\ th' = [th EXCEPT ![s] = "blocked"]
          /\ UNCHANGED <<retry, event, closed, running, alive>>
      BY <1>6, <2>2 DEF TcpCongested, Leave
    <3>2. queued = 0 /\ ~running
      BY <2>1, <2>2 DEF MayArm
    <3>3. TypeOK'
      BY <3>1 DEF TypeOK
    <3>4. queued' = 1 /\ ~running'
      BY <3>1, <3>2
    <3>5. MarkHasTimeout' /\ OneTimeout' /\ QuietWhenDead'
      BY <2>1, <3>1, <3>4
    <3>6. QED
      BY <3>3, <3>5
  <2>3. CASE ~MayArm(s)
    BY <1>6, <2>1, <2>3 DEF TcpCongested, Leave, TypeOK
  <2>4. QED
    BY <2>2, <2>3
<1>7. QED
  BY <1>1, <1>2, <1>3, <1>4, <1>5, <1>6 DEF Send

LEMMA TxQueue ==
  ASSUME TxInv, DispatchTimeout \/ Timeout \/ TimeoutOnDeleted \/ Destroy
  PROVE  TxInv'
<1> USE DEF TxInv, MarkHasTimeout, HasCallback, OneTimeout, QuietWhenDead
<1>1. CASE DispatchTimeout
  <2>1. /\ queued > 0 /\ ~running /\ queued' = queued - 1 /\ running' = TRUE
        /\ UNCHANGED <<th, retry, lock, flag, event, closed, armed, alive>>
    BY <1>1 DEF DispatchTimeout
  <2>2. queued = 1 /\ queued' = 0 /\ alive
    BY <2>1
  <2>3. TypeOK'
    <3>1. queued' \in Nat /\ running' \in BOOLEAN
      BY <2>1, <2>2
    <3>2. QED
      BY <2>1, <3>1 DEF TypeOK
  <2>4. QED
    BY <2>1, <2>2, <2>3
<1>2. CASE Timeout
  <2>1. /\ alive /\ running /\ running' = FALSE /\ armed' = FALSE
        /\ flag' = [s \in Socks |-> flag[s] /\ ~HasCallback(s)]
        /\ UNCHANGED <<th, retry, lock, closed, queued, alive>>
    BY <1>2 DEF Timeout
  <2>2. queued = 0
    BY <2>1
  <2>3. event' \in [Socks -> BOOLEAN] /\ flag' \in [Socks -> BOOLEAN]
    BY <1>2 DEF Timeout, TypeOK
  <2>4. TypeOK'
    BY <2>1, <2>3 DEF TypeOK
  <2>5. MarkHasTimeout'
    BY <2>1
  <2>6. QED
    BY <2>1, <2>2, <2>4, <2>5
<1>3. CASE TimeoutOnDeleted
  BY <1>3 DEF TimeoutOnDeleted, TypeOK
<1>4. CASE Destroy
  <2>1. /\ alive /\ alive' = FALSE /\ (\A s \in Socks : th[s] = "idle")
        /\ queued' = (IF armed /\ queued > 0 THEN queued - 1 ELSE queued)
        /\ UNCHANGED <<th, retry, lock, flag, event, closed, armed, running>>
    BY <1>4 DEF Destroy
  <2>2. queued' = 0
    <3>1. CASE queued = 1
      BY <2>1, <3>1
    <3>2. CASE queued = 0
      BY <2>1, <3>2
    <3>3. QED
      BY <3>1, <3>2
  <2>3. TypeOK'
    <3>1. queued' \in Nat
      BY <2>2
    <3>2. alive' \in BOOLEAN
      BY <2>1
    <3>3. QED
      BY <2>1, <3>1, <3>2 DEF TypeOK
  <2>4. QED
    BY <2>1, <2>2, <2>3
<1>5. QED
  BY <1>1, <1>2, <1>3, <1>4

LEMMA TxOthers ==
  ASSUME TxInv, NEW s \in Socks, Received(s) \/ SocketClosed(s) \/ Detach(s) \/ Reopen(s)
  PROVE  TxInv'
<1> USE DEF TxInv, MarkHasTimeout, HasCallback, OneTimeout, QuietWhenDead
<1>1. CASE Received(s)
  BY <1>1 DEF Received, TypeOK
<1>2. CASE SocketClosed(s)
  BY <1>2 DEF SocketClosed, TypeOK
<1>3. CASE Detach(s)
  BY <1>3 DEF Detach, TypeOK
<1>4. CASE Reopen(s)
  <2>1. alive
    BY <1>4 DEF Reopen
  <2>2. /\ th' = [th EXCEPT ![s] = "idle"] /\ flag' = [flag EXCEPT ![s] = FALSE]
        /\ UNCHANGED <<retry, lock, armed, queued, running, alive>>
    BY <1>4 DEF Reopen
  <2>3. TypeOK'
    BY <1>4 DEF Reopen, TypeOK
  <2>4. MarkHasTimeout'
    BY <2>1, <2>2 DEF TypeOK
  <2>5. QED
    BY <2>1, <2>2, <2>3, <2>4
<1>5. QED
  BY <1>1, <1>2, <1>3, <1>4

LEMMA TxStep == TxInv /\ [Next]_vars => TxInv'
<1>1. ASSUME TxInv, UNCHANGED vars PROVE TxInv'
  BY <1>1 DEF vars, TxInv, TypeOK, MarkHasTimeout, HasCallback, OneTimeout, QuietWhenDead
<1>2. QED
  BY <1>1, TxSend, TxQueue, TxOthers DEF Next

\* The retries of a UDP send stay within the limit, and every field keeps its
\* type (socket_sendto_impl).
THEOREM TxTypeCorrect == Spec => []TypeOK
<1>1. TxInv => TypeOK
  BY DEF TxInv
<1>2. QED
  BY <1>1, TxInit, TxStep, PTL DEF Spec

\* A TX-full mark never outlives the timeout that clears it (socket_sendto_impl,
\* txfull_event_timeout).
THEOREM MarksTimeOut == Spec => []MarkHasTimeout
<1>1. TxInv => MarkHasTimeout
  BY DEF TxInv
<1>2. QED
  BY <1>1, TxInit, TxStep, PTL DEF Spec

\* At most one timeout is under way and _txfull_event_id knows it, so that the
\* destructor's cancel() leaves none in the queue, whichever order it, the timeout
\* and the closes come in.  One that is dispatched already is not covered
\* (~ST87M01_CellularStack, txfull_event_timeout).
THEOREM TimeoutsCancelled == Spec => []NoTimeoutStartsOnDeleted
<1>1. TxInv => NoTimeoutStartsOnDeleted
  BY DEF TxInv, OneTimeout, NoTimeoutStartsOnDeleted
<1>2. QED
  BY <1>1, TxInit, TxStep, PTL DEF Spec

-----------------------------------------------------------------------------
(* How long a send keeps the AT lock.                                        *)

\* The lock is held by the thread that sends or pauses, and by no other.
HolderInv == \A s \in Socks : th[s] \in {"sending", "pausing"} <=> lock = s

LEMMA HolderInit == Init => HolderInv
BY NoneAssumption DEF Init, HolderInv

LEMMA HolderSend == ASSUME TypeOK, HolderInv, NEW s \in Socks, Send(s) PROVE HolderInv'
<1> USE NoneAssumption DEF HolderInv, TypeOK
<1>1. CASE Call(s)
  BY <1>1 DEF Call
<1>2. CASE Acquire(s)
  BY <1>2 DEF Acquire
<1>3. CASE Sent(s)
  BY <1>3 DEF Sent, Leave
<1>4. CASE UdpCongested(s)
  BY <1>4 DEF UdpCongested, Leave
<1>5. CASE Resend(s)
  BY <1>5 DEF Resend
<1>6. CASE TcpCongested(s)
  BY <1>6 DEF TcpCongested, Leave
<1>7. QED
  BY <1>1, <1>2, <1>3, <1>4, <1>5, <1>6 DEF Send

LEMMA OthersKeepHold ==
  ASSUME \/ DispatchTimeout \/ Timeout \/ TimeoutOnDeleted \/ Destroy \/ UNCHANGED vars
         \/ \E s \in Socks : Received(s) \/ SocketClosed(s)
  PROVE  UNCHANGED <<th, retry, lock>>
BY DEF DispatchTimeout, Timeout, TimeoutOnDeleted, Destroy, vars, Received, SocketClosed

\* Nor is a socket that is closed or opened the holder's.
LEMMA CloseKeepsHold ==
  ASSUME TypeOK, HolderInv, NEW s \in Socks, Detach(s) \/ Reopen(s)
  PROVE  HolderInv' /\ (lock # None => HoldLeft' = HoldLeft)
<1>1. /\ th[s] \in {"idle", "closing"} /\ UNCHANGED <<retry, lock>>
      /\ \E pc \in {"idle", "closing"} : th' = [th EXCEPT ![s] = pc]
  BY DEF Detach, Reopen
<1>2. s # lock
  BY <1>1 DEF HolderInv
<1>3. \A r \in Socks : r # s => th'[r] = th[r]
  BY <1>1 DEF TypeOK
<1>4. th'[s] \in {"idle", "closing"}
  BY <1>1 DEF TypeOK
<1>5. HolderInv'
  BY <1>1, <1>2, <1>3, <1>4 DEF HolderInv
<1>6. lock # None => th'[lock] = th[lock]
  BY <1>2, <1>3 DEF TypeOK
<1>7. QED
  BY <1>1, <1>5, <1>6 DEF HoldLeft

LEMMA HolderStep == TypeOK /\ HolderInv /\ [Next]_vars => HolderInv'
<1> SUFFICES ASSUME TypeOK, HolderInv, [Next]_vars PROVE HolderInv'
  OBVIOUS
<1>1. CASE UNCHANGED <<th, retry, lock>>
  BY <1>1 DEF HolderInv
<1>2. QED
  BY <1>1, OthersKeepHold, CloseKeepsHold, HolderSend DEF Next

LEMMA HoldIsNatural ==
  ASSUME TypeOK, lock # None
  PROVE  /\ retry[lock] \in 0 .. MaxRetries
         /\ HoldLeft = 2 * (MaxRetries - retry[lock]) + (IF th[lock] = "pausing" THEN 2 ELSE 1)
         /\ HoldLeft \in Nat /\ HoldLeft > 0
<1>1. retry[lock] \in 0 .. MaxRetries
  BY DEF TypeOK
<1>2. HoldLeft = 2 * (MaxRetries - retry[lock]) + (IF th[lock] = "pausing" THEN 2 ELSE 1)
  BY DEF HoldLeft
<1>3. QED
  BY <1>1, <1>2, RetriesAssumption

\* A step of the holder: it leaves, pauses with a retry less, or sends again.
LEMMA AnswerShortens ==
  ASSUME TypeOK, HolderInv, NEW s \in Socks, Answer(s)
  PROVE  s = lock /\ HoldLeft' \in 0 .. (HoldLeft - 1)
<1>1. th[s] \in {"sending", "pausing"}
  BY DEF Answer, Sent, UdpCongested, Resend, TcpCongested
<1>2. s = lock /\ lock # None
  BY <1>1, NoneAssumption DEF HolderInv
<1>3. /\ retry[s] \in 0 .. MaxRetries
      /\ HoldLeft = 2 * (MaxRetries - retry[s]) + (IF th[s] = "pausing" THEN 2 ELSE 1)
      /\ HoldLeft \in Nat /\ HoldLeft > 0
  BY <1>2, HoldIsNatural
<1>4. CASE lock' = None
  BY <1>2, <1>3, <1>4 DEF HoldLeft
<1>5. CASE UdpCongested(s) /\ retry[s] < MaxRetries
  <2>1. /\ th[s] = "sending" /\ lock' = lock
        /\ retry' = [retry EXCEPT ![s] = @ + 1] /\ th' = [th EXCEPT ![s] = "pausing"]
    BY <1>5 DEF UdpCongested
  <2>2. retry'[s] = retry[s] + 1 /\ th'[s] = "pausing" /\ lock' = s
    BY <1>2, <2>1 DEF TypeOK
  <2>3. HoldLeft' = 2 * (MaxRetries - retry'[s]) + 2
    BY <1>2, <2>2 DEF HoldLeft
  <2>4. HoldLeft = 2 * (MaxRetries - retry[s]) + 1
    BY <1>3, <2>1
  <2>5. QED
    BY <1>2, <1>3, <1>5, <2>2, <2>3, <2>4, RetriesAssumption
<1>6. CASE Resend(s)
  <2>1. th[s] = "pausing" /\ th' = [th EXCEPT ![s] = "sending"] /\ UNCHANGED <<retry, lock>>
    BY <1>6 DEF Resend
  <2>2. th'[s] = "sending" /\ lock' = s /\ retry'[s] = retry[s]
    BY <1>2, <2>1 DEF TypeOK
  <2>3. HoldLeft' = 2 * (MaxRetries - retry[s]) + 1
    BY <1>2, <2>2 DEF HoldLeft
  <2>4. HoldLeft = 2 * (MaxRetries - retry[s]) + 2
    BY <1>3, <2>1
  <2>5. QED
    BY <1>2, <1>3, <2>3, <2>4, RetriesAssumption
<1>7. QED
  BY <1>4, <1>5, <1>6 DEF Answer, Sent, UdpCongested, Resend, TcpCongested, Leave

LEMMA HoldShorter ==
  ASSUME TypeOK, HolderInv, [Next]_vars, lock # None
  PROVE  /\ HoldLeft' \in 0 .. HoldLeft
         /\ \A s \in Socks : Answer(s) => s = lock /\ HoldLeft' # HoldLeft
<1>1. HoldLeft \in Nat
  BY HoldIsNatural
<1>2. \A s \in Socks : Answer(s) => s = lock /\ HoldLeft' \in 0 .. (HoldLeft - 1)
  BY AnswerShortens
<1>3. CASE UNCHANGED <<th, retry, lock>>
  BY <1>1, <1>2, <1>3 DEF HoldLeft
<1>4. ASSUME NEW s \in Socks, Answer(s) PROVE HoldLeft' \in 0 .. HoldLeft
  BY <1>1, <1>2, <1>4
\* A thread that calls has not got the lock.
<1>5. ASSUME NEW s \in Socks, Call(s) PROVE HoldLeft' = HoldLeft
  <2>1. th[s] \in {"idle", "blocked"} /\ th' = [th EXCEPT ![s] = "calling"] /\ UNCHANGED <<retry, lock>>
    BY <1>5 DEF Call
  <2>2. s # lock
    BY <2>1 DEF HolderInv
  <2>3. th'[lock] = th[lock]
    BY <2>1, <2>2 DEF TypeOK
  <2>4. QED
    BY <2>1, <2>3 DEF HoldLeft
<1>6. ASSUME NEW s \in Socks, Acquire(s) PROVE FALSE
  BY <1>6 DEF Acquire
<1>7. HoldLeft' \in 0 .. HoldLeft
  BY <1>1, <1>3, <1>4, <1>5, <1>6, OthersKeepHold, CloseKeepsHold DEF Next, Send, Answer
<1>8. QED
  BY <1>1, <1>2, <1>7

\* A send keeps the AT lock for at most 1 + 2 * MaxRetries steps, each of them its
\* own, whatever the other senders, the timeout and the URCs do meanwhile
\* (socket_sendto_impl).
THEOREM HoldBounded == Spec => HoldShortens
<1>1. TxInv => TypeOK
  BY DEF TxInv
<1>2. TypeOK /\ HolderInv /\ [Next]_vars =>
        [lock # None =>
           /\ HoldLeft' \in 0 .. HoldLeft
           /\ \A s \in Socks : Answer(s) => s = lock /\ HoldLeft' # HoldLeft]_vars
  BY HoldShorter
<1>3. QED
  BY <1>1, <1>2, TxInit, TxStep, HolderInit, HolderStep, PTL DEF Spec, HoldShortens
=============================================================================
