------------------------------ MODULE SocketTx ------------------------------
(***************************************************************************)
(* Sending on the sockets of ST87M01_CellularStack when the modem is       *)
(* congested: the burst retry of a UDP send, which keeps the AT lock, and  *)
(* the TX-full mark and shared timeout that wake a TCP sender.             *)
(*                                                                         *)
(* One thread sends on each socket.  It loops as TCPSocket::send() does:   *)
(* on WOULD_BLOCK it waits for its socket's event flag and calls again.    *)
(* Whether a send meets congestion is the modem's choice, every time.      *)
(* The timeout runs on the thread of the event queue: it leaves the queue  *)
(* in one step and does its work, under _socket_mutex, in another.         *)
(***************************************************************************)
EXTENDS Integers, FiniteSets

CONSTANTS
  Tcp, Udp,    \* the sockets of the table, by protocol
  MaxRetries   \* burst retries of a UDP send

ASSUME SocketsAssumption == Tcp \cap Udp = {}
ASSUME RetriesAssumption == MaxRetries \in Nat

Socks == Tcp \cup Udp
None  == "none"

ASSUME NoneAssumption == None \notin Socks

VARIABLES
  th,       \* the sender of each socket: where it is
  retry,    \* retries of the send in progress
  lock,     \* holder of the AT lock
  flag,     \* txfull_event
  event,    \* WRITE flag of the socket's event group
  closed,   \* #SOCKETCLOSED was handled
  armed,    \* _txfull_event_id is not 0
  queued,   \* timeouts in the event queue
  running,  \* a timeout has left the queue and has not done its work
  alive     \* the stack object exists

vars == <<th, retry, lock, flag, event, closed, armed, queued, running, alive>>

Init ==
  /\ th = [s \in Socks |-> "idle"]
  /\ retry = [s \in Socks |-> 0]
  /\ lock = None
  /\ flag = [s \in Socks |-> FALSE]
  /\ event = [s \in Socks |-> FALSE]
  /\ closed = [s \in Socks |-> FALSE]
  /\ armed = FALSE /\ queued = 0 /\ running = FALSE
  /\ alive = TRUE

-----------------------------------------------------------------------------
(* The sender.                                                              *)

\* send() is called, or goes on after the wait.
Call(s) ==
  /\ alive
  /\ \/ th[s] = "idle" /\ UNCHANGED event
     \/ th[s] = "blocked" /\ event[s] /\ event' = [event EXCEPT ![s] = FALSE]
  /\ th' = [th EXCEPT ![s] = "calling"]
  /\ UNCHANGED <<retry, lock, flag, closed, armed, queued, running, alive>>

Acquire(s) ==
  /\ th[s] = "calling" /\ lock = None
  /\ IF closed[s]
     THEN th' = [th EXCEPT ![s] = "idle"] /\ UNCHANGED lock   \* CONNECTION_LOST
     ELSE th' = [th EXCEPT ![s] = "sending"] /\ lock' = s
  /\ retry' = [retry EXCEPT ![s] = 0]
  /\ UNCHANGED <<flag, event, closed, armed, queued, running, alive>>

Leave(s, pc) == lock' = None /\ th' = [th EXCEPT ![s] = pc]

\* OK, or an error that is not congestion.
Sent(s) ==
  /\ th[s] = "sending"
  /\ Leave(s, "idle")
  /\ UNCHANGED <<retry, flag, event, closed, armed, queued, running, alive>>

\* A bug: no limit on the retries.
UdpCongestedNoLimit(s) ==
  /\ s \in Udp /\ th[s] = "sending"
  /\ th' = [th EXCEPT ![s] = "pausing"]
  /\ UNCHANGED <<retry, lock, flag, event, closed, armed, queued, running, alive>>

\* A bug: one retry too many.
UdpCongestedOnceMore(s) ==
  /\ s \in Udp /\ th[s] = "sending"
  /\ IF retry[s] <= MaxRetries
     THEN /\ retry' = [retry EXCEPT ![s] = @ + 1]
          /\ th' = [th EXCEPT ![s] = "pausing"]
          /\ UNCHANGED lock
     ELSE Leave(s, "idle") /\ UNCHANGED retry
  /\ UNCHANGED <<flag, event, closed, armed, queued, running, alive>>

\* Pause 30 ms and send again, up to MaxRetries times, then NO_MEMORY.
UdpCongested(s) ==
  /\ s \in Udp /\ th[s] = "sending"
  /\ IF retry[s] < MaxRetries
     THEN /\ retry' = [retry EXCEPT ![s] = @ + 1]
          /\ th' = [th EXCEPT ![s] = "pausing"]
          /\ UNCHANGED lock
     ELSE Leave(s, "idle") /\ UNCHANGED retry
  /\ UNCHANGED <<flag, event, closed, armed, queued, running, alive>>

Resend(s) ==
  /\ th[s] = "pausing"
  /\ th' = [th EXCEPT ![s] = "sending"]
  /\ UNCHANGED <<retry, lock, flag, event, closed, armed, queued, running, alive>>

MayArm(s) == ~flag[s] /\ ~armed

\* Mark the socket and start the timeout, unless a timeout is running.
TcpCongested(s) ==
  /\ s \in Tcp /\ th[s] = "sending"
  /\ IF MayArm(s)
     THEN flag' = [flag EXCEPT ![s] = TRUE] /\ armed' = TRUE /\ queued' = queued + 1
     ELSE UNCHANGED <<flag, armed, queued>>
  /\ Leave(s, "blocked")
  /\ UNCHANGED <<retry, event, closed, running, alive>>

-----------------------------------------------------------------------------
(* The event queue and the URCs.                                            *)

\* InternetSocket::close() takes the callback away before it closes the socket.
HasCallback(s) == th[s] # "closing"

\* The event queue takes the timeout out; cancel() cannot stop it any more.
DispatchTimeout ==
  /\ queued > 0 /\ ~running
  /\ queued' = queued - 1 /\ running' = TRUE
  /\ UNCHANGED <<th, retry, lock, flag, event, closed, armed, alive>>

\* A bug: the mark is cleared and the sender is not told.
TimeoutTellsNobody ==
  /\ alive /\ running
  /\ running' = FALSE /\ armed' = FALSE
  /\ flag' = [s \in Socks |-> flag[s] /\ ~HasCallback(s)]
  /\ UNCHANGED <<th, retry, lock, event, closed, queued, alive>>

\* A bug: the timeout leaves the marks set.
TimeoutKeepsFlags ==
  /\ alive /\ running
  /\ running' = FALSE /\ armed' = FALSE
  /\ event' = [s \in Socks |-> event[s] \/ (flag[s] /\ HasCallback(s))]
  /\ UNCHANGED <<th, retry, lock, flag, closed, queued, alive>>

\* txfull_event_timeout().
Timeout ==
  /\ alive /\ running
  /\ running' = FALSE /\ armed' = FALSE
  /\ flag' = [s \in Socks |-> flag[s] /\ ~HasCallback(s)]
  /\ event' = [s \in Socks |-> event[s] \/ (flag[s] /\ HasCallback(s))]
  /\ UNCHANGED <<th, retry, lock, closed, queued, alive>>

\* txfull_event_timeout() on a stack that has been deleted: what it does to
\* memory that is no longer the stack's is undefined and not followed.
TimeoutOnDeleted ==
  /\ ~alive /\ running
  /\ running' = FALSE
  /\ UNCHANGED <<th, retry, lock, flag, event, closed, armed, queued, alive>>

\* _cb sets READ and WRITE alike, so received data wakes a sender too.
Received(s) ==
  /\ alive /\ HasCallback(s) /\ ~event[s] /\ ~closed[s]
  /\ event' = [event EXCEPT ![s] = TRUE]
  /\ UNCHANGED <<th, retry, lock, flag, closed, armed, queued, running, alive>>

SocketClosed(s) ==
  /\ alive /\ ~closed[s]
  /\ closed' = [closed EXCEPT ![s] = TRUE]
  /\ event' = [event EXCEPT ![s] = @ \/ HasCallback(s)]
  /\ UNCHANGED <<th, retry, lock, flag, armed, queued, running, alive>>

\* The application closes an idle socket: first it takes the callback away.
Detach(s) ==
  /\ alive /\ th[s] = "idle"
  /\ th' = [th EXCEPT ![s] = "closing"]
  /\ UNCHANGED <<retry, lock, flag, event, closed, armed, queued, running, alive>>

\* It opens the next one in its slot.  Neither socket_close_impl(), which drops
\* the mark of an open socket, nor the end of the entry stops the timeout.
Reopen(s) ==
  /\ th[s] = "closing" /\ lock = None
  /\ th' = [th EXCEPT ![s] = "idle"]
  /\ flag' = [flag EXCEPT ![s] = FALSE]
  /\ event' = [event EXCEPT ![s] = FALSE]
  /\ closed' = [closed EXCEPT ![s] = FALSE]
  /\ UNCHANGED <<retry, lock, armed, queued, running, alive>>

\* A bug: only a timeout whose socket is still marked is cancelled.
DestroyIfMarked ==
  /\ alive /\ \A s \in Socks : th[s] = "idle"
  /\ alive' = FALSE
  /\ queued' = IF queued > 0 /\ \E s \in Socks : flag[s] THEN queued - 1 ELSE queued
  /\ UNCHANGED <<th, retry, lock, flag, event, closed, armed, running>>

\* The destructor, which takes no mutex: it cancels the timeout it knows of, if
\* that is still in the queue.
Destroy ==
  /\ alive /\ \A s \in Socks : th[s] = "idle"
  /\ alive' = FALSE
  /\ queued' = IF armed /\ queued > 0 THEN queued - 1 ELSE queued
  /\ UNCHANGED <<th, retry, lock, flag, event, closed, armed, running>>

Send(s) ==
  \/ Call(s) \/ Acquire(s) \/ Sent(s) \/ UdpCongested(s) \/ Resend(s) \/ TcpCongested(s)

Next ==
  \/ \E s \in Socks : Send(s) \/ Received(s) \/ SocketClosed(s) \/ Detach(s) \/ Reopen(s)
  \/ DispatchTimeout \/ Timeout \/ TimeoutOnDeleted \/ Destroy

\* Commands are answered or time out, pauses end, the event queue runs, and a
\* thread whose event flag is set gets to run.
Answer(s) == Sent(s) \/ UdpCongested(s) \/ Resend(s) \/ TcpCongested(s)
Resume(s) == th[s] = "blocked" /\ Call(s)
Fairness ==
  /\ WF_vars(DispatchTimeout) /\ WF_vars(Timeout)
  /\ \A s \in Socks : WF_vars(Answer(s)) /\ WF_vars(Resume(s))

Spec == Init /\ [][Next]_vars /\ Fairness

-----------------------------------------------------------------------------
TypeOK ==
  /\ th \in [Socks -> {"idle", "calling", "sending", "pausing", "blocked", "closing"}]
  /\ retry \in [Socks -> 0 .. MaxRetries]
  /\ lock \in Socks \cup {None}
  /\ flag \in [Socks -> BOOLEAN] /\ event \in [Socks -> BOOLEAN]
  /\ closed \in [Socks -> BOOLEAN]
  /\ armed \in BOOLEAN /\ queued \in Nat /\ running \in BOOLEAN /\ alive \in BOOLEAN

\* A socket marked TX-full has a timeout coming that will clear the mark, unless
\* the application is closing it: were the mark to outlive the timeout, no later
\* congestion could start a new one.
MarkHasTimeout ==
  alive => \A s \in Socks : flag[s] /\ HasCallback(s) => armed /\ (queued > 0 \/ running)

\* The destructor leaves no timeout in the queue.  One that has already left it is
\* out of its reach, and runs on the deleted stack (TimeoutOnDeleted).
NoTimeoutStartsOnDeleted == ~alive => queued = 0

\* A sender whose socket is marked is woken.
MarkedSenderWoken ==
  \A s \in Socks : th[s] = "blocked" /\ flag[s] ~> th[s] # "blocked"

\* What the holder of the AT lock still has to do before it gives it back, at most.
HoldLeft ==
  IF lock = None THEN 0
  ELSE 2 * (MaxRetries - retry[lock]) + (IF th[lock] = "pausing" THEN 2 ELSE 1)

\* The burst retries keep the AT lock, but not for longer than their limit: no
\* other sender, timeout or URC lengthens the hold, each step of the holder
\* shortens it, and nobody but the holder sends.
HoldShortens ==
  [][lock # None =>
       /\ HoldLeft' \in 0 .. HoldLeft
       /\ \A s \in Socks : Answer(s) => s = lock /\ HoldLeft' # HoldLeft]_vars

\* Every TCP sender that got WOULD_BLOCK is woken by the socket layer.
BlockedSenderWoken == \A s \in Tcp : th[s] = "blocked" ~> th[s] # "blocked"
=============================================================================
