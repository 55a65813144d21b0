---------------------------- MODULE CellularStack ----------------------------
(***************************************************************************)
(* The socket table of ST87M01_CellularStack: which driver socket owns     *)
(* which modem socket, from AT#SOCKETCREATE to AT#SOCKETCLOSE.             *)
(*                                                                         *)
(* A driver socket sits in a slot of the base class's table and learns a   *)
(* modem socket id on first use.  Every command runs under the AT lock     *)
(* (variable `at` says who holds it and which answer it waits for); a URC  *)
(* is handled before the answer that follows it on the UART, which is why  *)
(* an answer is read only when `urcs` is empty.  Byte counts, TX           *)
(* congestion and the connect loop have modules of their own.              *)
(***************************************************************************)
EXTENDS Integers, Sequences, FiniteSets

CONSTANTS
  SocketCount,       \* slots of the base class's table (PROPERTY_SOCKET_COUNT)
  MaxSockets,        \* modem socket ids, and blocks of the RX pool (OP_MAX_SOCKETS)
  Protocols,         \* what the application opens, a subset of {"TCP", "UDP"}
  Families,          \* IP versions of the addresses it sends to
  Features,          \* subset of {"session", "close_all", "remote_close"}
  RemoteCloseFrees,  \* does the modem free the id of a socket its peer closed?
  MaxFaults,         \* commands refused or whose answer is lost
  MaxCrashes         \* restarts of the host while the modem keeps running

ASSUME SocketCountAssumption == SocketCount \in Nat \ {0}
ASSUME MaxSocketsAssumption  == MaxSockets \in Nat \ {0}
ASSUME ProtocolsAssumption   == Protocols \subseteq {"TCP", "UDP"}
ASSUME FamiliesAssumption    == "unspec" \notin Families
ASSUME PolicyAssumption      == RemoteCloseFrees \in BOOLEAN
ASSUME BoundsAssumption      == MaxFaults \in Nat /\ MaxCrashes \in Nat

Slots  == 0 .. SocketCount - 1
Ids    == 0 .. MaxSockets - 1
NoId   == -1
NoSlot == -1

VARIABLES
  sock,     \* slot -> CellularSocket
  rxbuf,    \* id -> does _rx_buf[id] hold a block?
  pool,     \* blocks taken from _rx_buf_pool
  modem,    \* id -> "free", "open", or "shut": peer gone, id still assigned
  urcs,     \* ids of the #SOCKETCLOSED lines not handled yet, oldest first
  at,       \* the holder of the AT lock and where it is
  ipver,    \* _ip_ver_sendto
  sess,     \* the thread in http_open / http_close and its socket id
  faults,
  crashes

vars == <<sock, rxbuf, pool, modem, urcs, at, ipver, sess, faults, crashes>>

Free == [used |-> FALSE, id |-> NoId, proto |-> "none", closed |-> FALSE, user |-> "none"]
Socket(p, u) == [used |-> TRUE, id |-> NoId, proto |-> p, closed |-> FALSE, user |-> u]

Call(pc, s, id, why) == [pc |-> pc, slot |-> s, id |-> id, why |-> why, todo |-> {}]
Unlocked  == Call("free", NoSlot, NoId, "none")
NoSession == [pc |-> "idle", slot |-> NoSlot, id |-> NoId]

\* find_socket(): the first table entry with this modem id.
Holders(id)    == {s \in Slots : sock[s].used /\ sock[s].id = id}
FindSocket(id) == CHOOSE s \in Holders(id) : \A t \in Holders(id) : s <= t

\* socket_close_impl() sends nothing for a socket already marked closed.
SkipsClose(id) == Holders(id) # {} /\ sock[FindSocket(id)].closed

Init ==
  /\ sock = [s \in Slots |-> Free]
  /\ rxbuf = [id \in Ids |-> FALSE]
  /\ pool = 0
  /\ modem = [id \in Ids |-> "free"]
  /\ urcs = <<>>
  /\ at = Call("list", NoSlot, NoId, "boot")     \* the constructor reaps
  /\ ipver = "unspec"
  /\ sess = NoSession
  /\ faults = 0
  /\ crashes = 0

-----------------------------------------------------------------------------
(* What the modem does with a command.  A fault is a refusal, or an answer  *)
(* lost after the command took effect.                                      *)

ModemClose(id, ok) ==
  \/ /\ ok /\ modem[id] # "free"
     /\ modem' = [modem EXCEPT ![id] = "free"]
     /\ UNCHANGED faults
  \/ /\ ~ok /\ modem[id] = "free"
     /\ UNCHANGED <<modem, faults>>
  \/ /\ ~ok /\ faults < MaxFaults
     /\ faults' = faults + 1
     /\ modem' \in {modem, [modem EXCEPT ![id] = "free"]}

ModemRefusesCreate ==
  \/ /\ \A id \in Ids : modem[id] # "free"
     /\ UNCHANGED <<modem, faults>>
  \/ /\ faults < MaxFaults
     /\ faults' = faults + 1
     /\ \/ UNCHANGED modem
        \/ \E id \in Ids : modem[id] = "free" /\ modem' = [modem EXCEPT ![id] = "open"]

\* The peer, or the network, ends a connection; the modem reports it.
RemoteClose(id) ==
  /\ "remote_close" \in Features
  /\ modem[id] = "open"
  /\ modem' = [modem EXCEPT ![id] = IF RemoteCloseFrees THEN "free" ELSE "shut"]
  /\ urcs' = Append(urcs, id)
  /\ UNCHANGED <<sock, rxbuf, pool, at, ipver, sess, faults, crashes>>

-----------------------------------------------------------------------------
(* The RX buffer pool.                                                      *)

AllocateRxNoCheck(id) == rxbuf' = [rxbuf EXCEPT ![id] = TRUE] /\ pool' = pool + 1

AllocateRx(id) ==
  /\ rxbuf' = [rxbuf EXCEPT ![id] = TRUE]
  /\ pool' = IF rxbuf[id] THEN pool ELSE pool + 1

CanAllocateRx(id) == rxbuf[id] \/ pool < MaxSockets

FreeRxNoCheck(id) == rxbuf' = [rxbuf EXCEPT ![id] = FALSE] /\ pool' = pool - 1

FreeRx(id) ==
  /\ rxbuf' = [rxbuf EXCEPT ![id] = FALSE]
  /\ pool' = IF rxbuf[id] THEN pool - 1 ELSE pool

-----------------------------------------------------------------------------
(* Calls.  Each takes the AT lock (at.pc = "free") except socket_open(),    *)
(* which only needs the table's mutex.                                      *)

\* The thread using a socket: any application thread, or the HTTP session.
Caller(s, phase) ==
  /\ sock[s].used
  /\ sock[s].user = "session" => sess.slot = s /\ sess.pc = phase

OpenSlot(s, p, u) ==
  /\ at.why # "boot"
  /\ ~sock[s].used /\ \A t \in Slots : t < s => sock[t].used
  /\ sock' = [sock EXCEPT ![s] = Socket(p, u)]
  /\ UNCHANGED <<rxbuf, pool, modem, urcs, at, ipver, faults, crashes>>

SocketOpen(s, p) == OpenSlot(s, p, "app") /\ UNCHANGED sess

\* open_tcp_session() up to its socket_connect().
OpenSession(s) ==
  /\ "session" \in Features /\ sess.pc = "idle"
  /\ OpenSlot(s, "TCP", "session")
  /\ sess' = [pc |-> "opening", slot |-> s, id |-> NoId]

Start(call) ==
  /\ at.pc = "free" /\ at' = call
  /\ UNCHANGED <<sock, rxbuf, pool, modem, urcs, sess, faults, crashes>>

Connect(s) ==
  /\ Caller(s, "opening") /\ sock[s].proto = "TCP"
  /\ Start(IF sock[s].id = NoId THEN Call("create", s, NoId, "connect")
                                ELSE Call("connect", s, sock[s].id, "connect"))
  /\ UNCHANGED ipver

\* recvfrom() on a socket the modem does not know yet.
FirstRecv(s) ==
  /\ Caller(s, "never") /\ ~sock[s].closed /\ sock[s].id = NoId
  /\ Start(Call("create", s, NoId, "recv"))
  /\ UNCHANGED ipver

FirstSend(s, f) ==
  /\ Caller(s, "never") /\ ~sock[s].closed /\ sock[s].id = NoId /\ sock[s].proto = "UDP"
  /\ Start(Call("create", s, NoId, "send"))
  /\ ipver' = f

\* sendto() to the other IP version: close, then create again.
SendOtherFamily(s, f) ==
  /\ Caller(s, "never") /\ ~sock[s].closed /\ sock[s].id # NoId /\ sock[s].proto = "UDP"
  /\ f # ipver
  /\ ipver' = f
  /\ Start(IF SkipsClose(sock[s].id) THEN Call("create", s, NoId, "reopen")
                                     ELSE Call("close", s, sock[s].id, "reopen"))

\* socket_close(); a session gives its socket back only when connecting failed.
Close(s) ==
  /\ Caller(s, "failed") /\ at.pc = "free"
  /\ UNCHANGED <<rxbuf, pool, modem, urcs, ipver, faults, crashes>>
  /\ IF sock[s].id = NoId \/ SkipsClose(sock[s].id)
     THEN /\ sock' = [sock EXCEPT ![s] = Free]
          /\ sess' = IF sess.slot = s THEN NoSession ELSE sess
          /\ UNCHANGED at
     ELSE /\ at' = Call("close", s, sock[s].id, "close")
          /\ UNCHANGED <<sock, sess>>

\* http_close(): close_tcp_session() by id.
CloseSession ==
  /\ sess.pc = "open" /\ at.pc = "free"
  /\ UNCHANGED <<sock, rxbuf, pool, modem, urcs, ipver, faults, crashes>>
  /\ IF SkipsClose(sess.id)
     THEN sess' = NoSession /\ UNCHANGED at
     ELSE at' = Call("close", NoSlot, sess.id, "session") /\ UNCHANGED sess

CloseAllSockets ==
  /\ "close_all" \in Features
  /\ Start(Call("sweep", NoSlot, 0, "sweep"))
  /\ UNCHANGED ipver

-----------------------------------------------------------------------------
(* Answers.                                                                 *)

Answered(pc) == at.pc = pc /\ urcs = <<>>

CreateDone ==
  /\ Answered("create")
  /\ \E id \in Ids :
       /\ modem[id] = "free" /\ CanAllocateRx(id)
       /\ modem' = [modem EXCEPT ![id] = "open"]
       /\ AllocateRx(id)
       /\ sock' = [sock EXCEPT ![at.slot].id = id]
       /\ at' = IF at.why = "connect" THEN Call("connect", at.slot, id, "connect")
                                      ELSE Unlocked
  /\ UNCHANGED <<urcs, ipver, sess, faults, crashes>>

\* socket_connect() returns an error: the session thread will close its socket.
SessionFails == sess' = IF sess.slot = at.slot THEN [sess EXCEPT !.pc = "failed"] ELSE sess

CreateFailsKeepingLock ==
  /\ Answered("create") /\ ModemRefusesCreate
  /\ SessionFails
  /\ UNCHANGED <<sock, rxbuf, pool, urcs, at, ipver, crashes>>

\* The table keeps what it had: after a failed reopen, the closed id.
CreateFails ==
  /\ Answered("create") /\ ModemRefusesCreate
  /\ SessionFails
  /\ at' = Unlocked
  /\ UNCHANGED <<sock, rxbuf, pool, urcs, ipver, crashes>>

ConnectDone ==
  /\ Answered("connect")
  /\ \/ sess' = IF sess.slot = at.slot THEN [sess EXCEPT !.pc = "open", !.id = at.id] ELSE sess
     \/ SessionFails
  /\ at' = Unlocked
  /\ UNCHANGED <<sock, rxbuf, pool, modem, urcs, ipver, faults, crashes>>

\* What follows AT#SOCKETCLOSE, whatever its answer was.
AfterClose ==
  \/ /\ at.why = "close"
     /\ sock' = [sock EXCEPT ![at.slot] = Free]
     /\ sess' = IF sess.slot = at.slot THEN NoSession ELSE sess
     /\ at' = Unlocked
  \/ /\ at.why = "reopen"
     /\ at' = Call("create", at.slot, NoId, "reopen")
     /\ UNCHANGED <<sock, sess>>
  \/ /\ at.why = "session"
     /\ sess' = NoSession /\ at' = Unlocked
     /\ UNCHANGED sock

\* A bug: the buffer is looked up by table slot instead of modem id.
CloseDoneBySlot ==
  /\ Answered("close") /\ AfterClose
  /\ \E ok \in BOOLEAN : ModemClose(at.id, ok)
  /\ FreeRx(at.slot)
  /\ UNCHANGED <<urcs, ipver, crashes>>

\* A bug: the table entry goes away only when the modem confirms the close.
CloseDoneIfConfirmed ==
  /\ Answered("close")
  /\ \E ok \in BOOLEAN :
       /\ ModemClose(at.id, ok)
       /\ IF ok THEN AfterClose ELSE at' = Unlocked /\ UNCHANGED <<sock, sess>>
  /\ FreeRx(at.id)
  /\ UNCHANGED <<urcs, ipver, crashes>>

CloseDone ==
  /\ Answered("close") /\ AfterClose
  /\ \E ok \in BOOLEAN : ModemClose(at.id, ok)
  /\ FreeRx(at.id)
  /\ UNCHANGED <<urcs, ipver, crashes>>

\* close_all_sockets(): one round of the loop, up to its command.
SweepNext ==
  /\ at.pc = "sweep"
  /\ at' = IF at.id = MaxSockets THEN Unlocked
           ELSE IF SkipsClose(at.id) THEN [at EXCEPT !.id = @ + 1]
           ELSE [at EXCEPT !.pc = "sweeping"]
  /\ UNCHANGED <<sock, rxbuf, pool, modem, urcs, ipver, sess, faults, crashes>>

SweepDone ==
  /\ Answered("sweeping")
  /\ \E ok \in BOOLEAN :
       /\ ModemClose(at.id, ok)
       /\ sock' = IF ok /\ Holders(at.id) # {}
                  THEN [sock EXCEPT ![FindSocket(at.id)].closed = TRUE]
                  ELSE sock
  /\ at' = [at EXCEPT !.pc = "sweep", !.id = @ + 1]
  /\ UNCHANGED <<rxbuf, pool, urcs, ipver, sess, crashes>>

\* reap_orphan_sockets(): the listing, cut short when the query fails.
LiveIdsButLast == {id \in Ids : id < MaxSockets - 1 /\ modem[id] # "free"}
LiveIds == {id \in Ids : modem[id] # "free"}

ReapCall(todo) == IF todo = {} THEN Unlocked
                  ELSE [Call("reap", NoSlot, NoId, "boot") EXCEPT !.todo = todo]

ReapList ==
  /\ Answered("list")
  /\ \/ at' = ReapCall(LiveIds) /\ UNCHANGED faults
     \/ /\ faults < MaxFaults /\ faults' = faults + 1
        /\ \E todo \in SUBSET LiveIds : at' = ReapCall(todo)
  /\ UNCHANGED <<sock, rxbuf, pool, modem, urcs, ipver, sess, crashes>>

ReapClose ==
  /\ Answered("reap")
  /\ \E id \in at.todo :
       /\ \A j \in at.todo : id <= j
       /\ \E ok \in BOOLEAN : ModemClose(id, ok)
       /\ at' = ReapCall(at.todo \ {id})
  /\ UNCHANGED <<sock, rxbuf, pool, urcs, ipver, sess, crashes>>

-----------------------------------------------------------------------------
\* A bug: the table indexed by modem id.
DispatchByIndex ==
  /\ urcs # <<>>
  /\ urcs' = Tail(urcs)
  /\ sock' = IF Head(urcs) \in Slots /\ sock[Head(urcs)].used
             THEN [sock EXCEPT ![Head(urcs)].closed = TRUE] ELSE sock
  /\ UNCHANGED <<rxbuf, pool, modem, at, ipver, sess, faults, crashes>>

\* urc_socketclosed().
Dispatch ==
  /\ urcs # <<>>
  /\ urcs' = Tail(urcs)
  /\ sock' = IF Holders(Head(urcs)) # {}
             THEN [sock EXCEPT ![FindSocket(Head(urcs))].closed = TRUE] ELSE sock
  /\ UNCHANGED <<rxbuf, pool, modem, at, ipver, sess, faults, crashes>>

\* The host restarts; the modem keeps its sockets and a new stack reaps them.
Crash ==
  /\ crashes < MaxCrashes
  /\ crashes' = crashes + 1
  /\ sock' = [s \in Slots |-> Free]
  /\ rxbuf' = [id \in Ids |-> FALSE]
  /\ pool' = 0
  /\ urcs' = <<>>
  /\ at' = Call("list", NoSlot, NoId, "boot")
  /\ ipver' = "unspec"
  /\ sess' = NoSession
  /\ UNCHANGED <<modem, faults>>

Answer ==
  \/ CreateDone \/ CreateFails \/ ConnectDone \/ CloseDone
  \/ SweepNext \/ SweepDone \/ ReapList \/ ReapClose

SlotCall(s) ==
  \/ \E p \in Protocols : SocketOpen(s, p)
  \/ OpenSession(s) \/ Connect(s) \/ FirstRecv(s) \/ Close(s)
  \/ \E f \in Families : FirstSend(s, f) \/ SendOtherFamily(s, f)

Next ==
  \/ \E s \in Slots : SlotCall(s)
  \/ CloseSession \/ CloseAllSockets
  \/ Answer \/ Dispatch
  \/ \E id \in Ids : RemoteClose(id)
  \/ Crash

\* A command is answered or times out, and the event queue handles every URC.
Fairness == WF_vars(Answer) /\ WF_vars(Dispatch)

Spec == Init /\ [][Next]_vars /\ Fairness

-----------------------------------------------------------------------------
SocketType ==
  [used : BOOLEAN, id : Ids \cup {NoId}, proto : {"none", "TCP", "UDP"},
   closed : BOOLEAN, user : {"none", "app", "session"}]

CallType ==
  [pc : {"free", "create", "connect", "close", "sweep", "sweeping", "list", "reap"},
   slot : Slots \cup {NoSlot}, id : -1 .. MaxSockets,
   why : {"none", "connect", "recv", "send", "reopen", "close", "session", "sweep", "boot"},
   todo : SUBSET Ids]

\* Every variable stays in its range; in particular the pool never counts below zero.
TypeOK ==
  /\ sock \in [Slots -> SocketType]
  /\ rxbuf \in [Ids -> BOOLEAN]
  /\ pool \in Nat
  /\ modem \in [Ids -> {"free", "open", "shut"}]
  /\ urcs \in Seq(Ids)
  /\ at \in CallType
  /\ ipver \in Families \cup {"unspec"}
  /\ sess \in [pc : {"idle", "opening", "failed", "open"},
               slot : Slots \cup {NoSlot}, id : Ids \cup {NoId}]
  /\ faults \in Nat /\ crashes \in Nat

\* The pool has given out exactly the blocks _rx_buf[] points to, so that
\* allocate_rx_buffer() always finds a block (it has one for every modem id).
PoolAccounting == pool = Cardinality({id \in Ids : rxbuf[id]})

\* No two sockets of the table have the same modem id: find_socket() routes
\* every URC, and socket_close_impl() every close, to the socket that is meant.
UniqueIds ==
  \A s, t \in Slots :
    sock[s].used /\ sock[t].used /\ sock[s].id = sock[t].id /\ sock[s].id # NoId => s = t

\* Without a fault, a modem socket that is still open belongs to a socket of the
\* table, also after a restart: the constructor leaves no orphan.
OpenTracked ==
  faults = 0 /\ at.why # "boot" => \A id \in Ids : modem[id] = "open" => Holders(id) # {}

\* A socket whose modem socket is open has the RX buffer recvfrom() needs.
HasBuffer ==
  \A s \in Slots : sock[s].used /\ sock[s].id # NoId =>
    (modem[sock[s].id] = "open" => rxbuf[sock[s].id])

\* A socket is marked closed only if the modem socket it names is not open:
\* urc_socketclosed() never ends the connection of another socket.
ClosedIsShut ==
  \A s \in Slots : sock[s].used /\ sock[s].closed /\ sock[s].id # NoId =>
    modem[sock[s].id] # "open"

\* Whatever fails, every call returns and gives the AT lock back.
LockReleased == at.pc # "free" ~> at.pc = "free"

\* close_all_sockets() leaves the modem no open socket on this CID when every
\* command was answered.
SweepLeavesNone ==
  [][at.pc = "sweep" /\ at'.pc = "free" /\ faults = 0
       => \A id \in Ids : modem[id] # "open"]_vars
=============================================================================
