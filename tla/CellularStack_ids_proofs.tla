---------------------- MODULE CellularStack_ids_proofs ----------------------
(***************************************************************************)
(* Proofs that modem ids are owned by one socket of the table each, under  *)
(* the conditions that make it so (Disciplined).  The runs show what       *)
(* happens without them.                                                   *)
(***************************************************************************)
EXTENDS CellularStack_proofs

\* What keeps modem ids apart: the modem keeps an id until it is closed, nobody
\* closes it behind the table's back, and a reopen cannot fail half way.
Disciplined ==
  /\ ~RemoteCloseFrees
  /\ Features \subseteq {"remote_close"}
  /\ Protocols \subseteq {"TCP"} \/ MaxFaults = 0

Owns(s) == sock[s].used /\ sock[s].id # NoId
Reopening(s) == at.pc = "create" /\ at.why = "reopen" /\ at.slot = s

\* A call in progress belongs to a socket of the table and names its id.
CallMatches ==
  /\ at.pc \in {"free", "create", "connect", "close", "list", "reap"}
  /\ at.why = "boot" <=> at.pc \in {"list", "reap"}
  /\ at.why = "boot" => \A s \in Slots : ~sock[s].used
  /\ at.pc \in {"create", "close"} => sock[at.slot].used
  /\ at.pc = "create" /\ at.why # "reopen" => sock[at.slot].id = NoId
  /\ at.pc = "close" => at.id = sock[at.slot].id /\ at.why \in {"close", "reopen"}
  /\ at.why = "reopen" => /\ at.pc \in {"create", "close"}
                          /\ MaxFaults = 0 /\ sock[at.slot].id # NoId

\* An id in the table is taken at the modem, except between the two commands of a
\* reopen, when it is free and the create that follows cannot be refused.
IdsTaken ==
  \A s \in Slots : Owns(s) =>
    IF Reopening(s) THEN modem[sock[s].id] = "free" ELSE modem[sock[s].id] # "free"

ProtocolsUsed == \A s \in Slots : sock[s].used => sock[s].proto \in Protocols

OwnInv ==
  /\ sess = NoSession /\ ProtocolsUsed
  /\ CallMatches /\ IdsTaken /\ UniqueIds /\ HasBuffer

-----------------------------------------------------------------------------
LEMMA OwnInit == Init => OwnInv
BY DEF Init, OwnInv, CallMatches, IdsTaken, UniqueIds, HasBuffer, ProtocolsUsed, Owns, Free, Call

\* In a table with unique ids, find_socket() finds the socket that is meant.
LEMMA FindSocketUnique ==
  ASSUME UniqueIds, NEW s \in Slots, Owns(s)
  PROVE  Holders(sock[s].id) = {s} /\ FindSocket(sock[s].id) = s
<1>1. Holders(sock[s].id) = {s}
  BY DEF UniqueIds, Holders, Owns
<1>2. \A t \in Holders(sock[s].id) : s <= t
  BY <1>1 DEF Slots
<1>3. QED
  BY <1>1, <1>2 DEF FindSocket

LEMMA OwnSlotCall ==
  ASSUME TypeInv, OwnInv, Disciplined, NEW s \in Slots, SlotCall(s)
  PROVE  OwnInv'
<1> USE DEF TypeInv, OwnInv
<1>1. CASE \E p \in Protocols : SocketOpen(s, p)
  <2>1. PICK p \in Protocols : sock' = [sock EXCEPT ![s] = Socket(p, "app")]
    BY <1>1 DEF SocketOpen, OpenSlot
  <2>2. /\ ~sock[s].used /\ at.why # "boot" /\ sess' = NoSession
        /\ UNCHANGED <<rxbuf, modem, at>>
    BY <1>1 DEF SocketOpen, OpenSlot
  <2>3. sock'[s].used /\ sock'[s].proto = p /\ sock'[s].id = NoId
        /\ \A t \in Slots : t # s => sock'[t] = sock[t]
    BY <2>1 DEF TypeOK, Socket
  <2>4. CallMatches'
    BY <2>2, <2>3 DEF CallMatches, CallOK
  <2>5. IdsTaken' /\ HasBuffer'
    BY <2>2, <2>3 DEF IdsTaken, HasBuffer, Owns, Reopening
  <2>6. UniqueIds' /\ ProtocolsUsed'
    BY <2>3 DEF UniqueIds, ProtocolsUsed
  <2>7. QED
    BY <2>2, <2>4, <2>5, <2>6
<1>2. CASE OpenSession(s)
  BY <1>2 DEF OpenSession, Disciplined
<1>3. CASE Connect(s) \/ FirstRecv(s) \/ \E f \in Families : FirstSend(s, f)
  <2>1. \/ at' = Call("create", s, NoId, "connect") /\ sock[s].id = NoId
        \/ at' = Call("create", s, NoId, "recv") /\ sock[s].id = NoId
        \/ at' = Call("create", s, NoId, "send") /\ sock[s].id = NoId
        \/ at' = Call("connect", s, sock[s].id, "connect")
    BY <1>3 DEF Connect, FirstRecv, FirstSend, Start
  <2>2. at.pc = "free" /\ sock[s].used /\ UNCHANGED <<sock, rxbuf, modem, sess>>
    BY <1>3 DEF Connect, FirstRecv, FirstSend, Start, Caller
  <2>3. QED
    BY <2>1, <2>2 DEF Call, CallMatches, IdsTaken, UniqueIds, HasBuffer, ProtocolsUsed, Owns,
       Reopening
<1>4. CASE Close(s)
  <2>1. CASE at' = Call("close", s, sock[s].id, "close") /\ UNCHANGED <<sock, sess>>
    BY <1>4, <2>1 DEF Close, Caller, Call, CallMatches, IdsTaken, UniqueIds, HasBuffer,
       ProtocolsUsed, Owns, Reopening
  <2>2. CASE sock' = [sock EXCEPT ![s] = Free] /\ UNCHANGED at
    <3>1. ~sock'[s].used /\ \A t \in Slots : t # s => sock'[t] = sock[t]
      BY <2>2 DEF TypeOK, Free
    <3>2. at.pc = "free" /\ sess' = NoSession /\ UNCHANGED <<rxbuf, modem, at>>
      BY <1>4, <2>2 DEF Close
    <3>3. CallMatches'
      BY <3>1, <3>2 DEF CallMatches
    <3>4. IdsTaken' /\ HasBuffer'
      BY <3>1, <3>2 DEF IdsTaken, HasBuffer, Owns, Reopening
    <3>5. UniqueIds' /\ ProtocolsUsed'
      BY <3>1 DEF UniqueIds, ProtocolsUsed
    <3>6. QED
      BY <3>2, <3>3, <3>4, <3>5
  <2>3. QED
    BY <1>4, <2>1, <2>2 DEF Close
<1>5. CASE \E f \in Families : SendOtherFamily(s, f)
  <2>1. sock[s].used /\ sock[s].id # NoId /\ ~sock[s].closed /\ sock[s].proto = "UDP"
    BY <1>5 DEF SendOtherFamily, Caller
  <2>2. ~SkipsClose(sock[s].id)
    BY <2>1, FindSocketUnique DEF SkipsClose, Owns
  <2>3. at' = Call("close", s, sock[s].id, "reopen")
        /\ at.pc = "free" /\ UNCHANGED <<sock, rxbuf, modem, sess>>
    BY <1>5, <2>2 DEF SendOtherFamily, Start
  <2>4. MaxFaults = 0
    BY <2>1 DEF ProtocolsUsed, Disciplined
  <2>5. QED
    BY <2>1, <2>3, <2>4 DEF Call, CallMatches, IdsTaken, UniqueIds, HasBuffer, ProtocolsUsed,
       Owns, Reopening
<1>6. QED
  BY <1>1, <1>2, <1>3, <1>4, <1>5 DEF SlotCall

\* A new id was free at the modem, so no socket of the table had it.
LEMMA OwnCreateDone ==
  ASSUME TypeInv, OwnInv, Disciplined, CreateDone
  PROVE  OwnInv'
<1> USE DEF TypeInv, OwnInv
<1> DEFINE s == at.slot
<1>1. PICK id \in Ids : /\ modem[id] = "free"
                        /\ modem' = [modem EXCEPT ![id] = "open"]
                        /\ AllocateRx(id)
                        /\ sock' = [sock EXCEPT ![s].id = id]
                        /\ at' = IF at.why = "connect"
                                 THEN Call("connect", s, id, "connect") ELSE Unlocked
  BY DEF CreateDone
<1>2. s \in Slots /\ at.pc = "create" /\ sock[s].used
  BY DEF CreateDone, Answered, CallOK, CallMatches
<1>3. ASSUME NEW t \in Slots, t # s
      PROVE  sock'[t] = sock[t] /\ (Owns(t) => sock[t].id # id /\ sock[t].id \in Ids)
  BY <1>1, <1>2, <1>3 DEF TypeOK, SocketType, IdsTaken, Reopening, Owns
<1>4. sock'[s].id = id /\ sock'[s].used /\ sock'[s].proto = sock[s].proto /\ id # NoId
  BY <1>1, <1>2, IdNotSpecial DEF TypeOK, SocketType
<1>5. UniqueIds'
  BY <1>3, <1>4 DEF UniqueIds, Owns
<1>6. IdsTaken' /\ HasBuffer'
  <2>1. ASSUME NEW t \in Slots, Owns(t)'
        PROVE  modem'[sock'[t].id] # "free" /\ (modem'[sock'[t].id] = "open" => rxbuf'[sock'[t].id])
    <3>1. CASE t = s
      BY <1>1, <1>4, <3>1 DEF TypeOK, AllocateRx
    <3>2. CASE t # s
      BY <1>1, <1>2, <1>3, <2>1, <3>2
      DEF TypeOK, AllocateRx, IdsTaken, HasBuffer, Owns, Reopening
    <3>3. QED
      BY <3>1, <3>2
  <2>2. QED
    BY <2>1, <1>1, <1>2 DEF IdsTaken, HasBuffer, Owns, Reopening, Call, Unlocked
<1>7. CallMatches'
  BY <1>1, <1>2 DEF CallMatches, Call, Unlocked
<1>8. sess' = NoSession /\ ProtocolsUsed'
  BY <1>2, <1>3, <1>4 DEF CreateDone, ProtocolsUsed
<1>9. QED
  BY <1>5, <1>6, <1>7, <1>8

\* Only a create that is not part of a reopen can be refused.
LEMMA ReopenSucceeds == ASSUME TypeInv, OwnInv, CreateFails PROVE at.why # "reopen"
<1> SUFFICES ASSUME at.why = "reopen" PROVE FALSE
  OBVIOUS
<1>1. at.pc = "create" /\ at.slot \in Slots /\ ModemRefusesCreate
  BY DEF CreateFails, Answered, TypeInv, CallOK
<1>2. MaxFaults = 0 /\ sock[at.slot].id \in Ids /\ modem[sock[at.slot].id] = "free"
  BY <1>1 DEF OwnInv, CallMatches, IdsTaken, Owns, Reopening, TypeInv, TypeOK, SocketType
<1>3. ~(faults < MaxFaults)
  BY <1>2 DEF TypeInv, TypeOK
<1>4. QED
  BY <1>1, <1>2, <1>3 DEF ModemRefusesCreate

LEMMA OwnCreateFails ==
  ASSUME TypeInv, OwnInv, Disciplined, CreateFails
  PROVE  OwnInv'
<1> USE DEF TypeInv, OwnInv
<1>1. at.pc = "create" /\ at.slot \in Slots /\ at' = Unlocked
      /\ UNCHANGED <<sock, rxbuf>> /\ ModemRefusesCreate
  BY DEF CreateFails, Answered, CallOK
<1>2. sess' = NoSession
  BY <1>1, IdNotSpecial DEF CreateFails, SessionFails, NoSession
<1>3. at.why # "reopen"
  BY ReopenSucceeds
<1>4. ASSUME NEW t \in Slots, Owns(t)
      PROVE  modem[sock[t].id] # "free" /\ modem'[sock[t].id] = modem[sock[t].id]
  BY <1>1, <1>3, <1>4 DEF IdsTaken, Reopening, ModemRefusesCreate, TypeOK, SocketType, Owns
<1>5. IdsTaken' /\ HasBuffer'
  BY <1>1, <1>4 DEF IdsTaken, HasBuffer, Owns, Reopening, Unlocked, Call
<1>6. QED
  BY <1>1, <1>2, <1>5 DEF CallMatches, UniqueIds, ProtocolsUsed, Unlocked, Call

\* The close frees the id of the calling socket, which no other socket has.
LEMMA OwnCloseDone ==
  ASSUME TypeInv, OwnInv, Disciplined, CloseDone
  PROVE  OwnInv'
<1> USE DEF TypeInv, OwnInv
<1> DEFINE s == at.slot
<1>1. /\ at.pc = "close" /\ at.why \in {"close", "reopen"} /\ s \in Slots
      /\ sock[s].used /\ sock[s].id = at.id /\ at.id \in Ids
  BY DEF CloseDone, Answered, CallOK, CallMatches
<1>2. Owns(s) /\ modem[at.id] # "free" /\ \A t \in Slots : ~Reopening(t)
  BY <1>1, IdNotSpecial DEF Owns, IdsTaken, Reopening
<1>3. ASSUME NEW t \in Slots, t # s, Owns(t)
      PROVE  /\ sock[t].id \in Ids /\ sock[t].id # at.id /\ modem[sock[t].id] # "free"
             /\ modem'[sock[t].id] = modem[sock[t].id]
             /\ rxbuf'[sock[t].id] = rxbuf[sock[t].id]
  <2>1. sock[t].id \in Ids /\ sock[t].id # at.id /\ modem[sock[t].id] # "free"
    BY <1>1, <1>2, <1>3 DEF UniqueIds, Owns, IdsTaken, TypeOK, SocketType
  <2>2. modem'[sock[t].id] = modem[sock[t].id]
    BY <2>1 DEF CloseDone, ModemClose, TypeOK
  <2>3. rxbuf'[sock[t].id] = rxbuf[sock[t].id]
    BY <2>1 DEF CloseDone, FreeRx, TypeOK
  <2>4. QED
    BY <2>1, <2>2, <2>3
<1>4. CASE at.why = "close"
  <2>1. sock' = [sock EXCEPT ![s] = Free] /\ at' = Unlocked
    BY <1>4 DEF CloseDone, AfterClose
  <2>2. ~sock'[s].used /\ \A t \in Slots : t # s => sock'[t] = sock[t]
    BY <1>1, <2>1 DEF TypeOK, Free
  <2>3. sess' = NoSession
    BY <1>1, <1>4, IdNotSpecial DEF CloseDone, AfterClose, NoSession
  <2>4. CallMatches'
    BY <2>1 DEF CallMatches, Unlocked, Call
  <2>5. IdsTaken' /\ HasBuffer'
    BY <1>2, <1>3, <2>1, <2>2 DEF IdsTaken, HasBuffer, Owns, Reopening, Unlocked, Call
  <2>6. UniqueIds' /\ ProtocolsUsed'
    BY <2>2 DEF UniqueIds, ProtocolsUsed
  <2>7. QED
    BY <2>3, <2>4, <2>5, <2>6
<1>5. CASE at.why = "reopen"
  <2>1. at' = Call("create", s, NoId, "reopen") /\ UNCHANGED <<sock, sess>>
    BY <1>5 DEF CloseDone, AfterClose
  <2>2. MaxFaults = 0 /\ ~(faults < MaxFaults)
    BY <1>5 DEF CallMatches, TypeOK
  <2>3. modem'[at.id] = "free"
    BY <1>1, <1>2, <2>2 DEF CloseDone, ModemClose, TypeOK
  <2>4. CallMatches'
    BY <1>1, <1>2, <2>1, <2>2 DEF CallMatches, Call, Owns
  <2>5. IdsTaken' /\ HasBuffer'
    BY <1>1, <1>2, <1>3, <2>1, <2>3 DEF IdsTaken, HasBuffer, Owns, Reopening, Call
  <2>6. QED
    BY <2>1, <2>4, <2>5 DEF UniqueIds, ProtocolsUsed
<1>6. QED
  BY <1>1, <1>4, <1>5

\* While the constructor reaps orphans, the table is empty.
LEMMA OwnReap ==
  ASSUME TypeInv, OwnInv, ReapList \/ ReapClose
  PROVE  OwnInv'
<1> USE DEF TypeInv, OwnInv
<1>1. /\ at.why = "boot" /\ \A s \in Slots : ~sock[s].used
      /\ UNCHANGED <<sock, sess>>
  BY DEF ReapList, ReapClose, Answered, CallMatches
<1>2. PICK todo : at' = ReapCall(todo)
  BY DEF ReapList, ReapClose
<1>3. at' = Unlocked \/ (at'.pc = "reap" /\ at'.why = "boot")
  BY <1>2 DEF ReapCall, Call
<1>4. CallMatches'
  BY <1>1, <1>3 DEF CallMatches, Unlocked, Call
<1>5. QED
  BY <1>1, <1>4 DEF IdsTaken, UniqueIds, HasBuffer, ProtocolsUsed, Owns

LEMMA OwnStep == TypeInv /\ OwnInv /\ Disciplined /\ [Next]_vars => OwnInv'
<1> SUFFICES ASSUME TypeInv, OwnInv, Disciplined, [Next]_vars PROVE OwnInv'
  OBVIOUS
<1> USE DEF TypeInv, OwnInv
<1>1. CASE \E s \in Slots : SlotCall(s)
  BY <1>1, OwnSlotCall
<1>2. CASE CloseSession \/ CloseAllSockets
  BY <1>2 DEF CloseSession, CloseAllSockets, Disciplined, NoSession
<1>3. CASE CreateDone \/ CreateFails \/ CloseDone \/ ReapList \/ ReapClose
  BY <1>3, OwnCreateDone, OwnCreateFails, OwnCloseDone, OwnReap
<1>4. CASE ConnectDone
  <2>1. sess' = NoSession
    BY <1>4, IdNotSpecial DEF ConnectDone, Answered, SessionFails, NoSession, CallOK
  <2>2. at.pc = "connect" /\ at' = Unlocked /\ UNCHANGED <<sock, modem, rxbuf>>
    BY <1>4 DEF ConnectDone, Answered
  <2>3. QED
    BY <2>1, <2>2 DEF CallMatches, IdsTaken, UniqueIds, HasBuffer, ProtocolsUsed, Owns,
       Reopening, Unlocked, Call
<1>5. CASE SweepNext \/ SweepDone
  BY <1>5 DEF SweepNext, SweepDone, Answered, CallMatches
<1>6. CASE Dispatch
  <2>1. \A s \in Slots : /\ sock'[s].used = sock[s].used /\ sock'[s].id = sock[s].id
                         /\ sock'[s].proto = sock[s].proto
    BY <1>6 DEF Dispatch, TypeOK, SocketType
  <2>2. UNCHANGED <<rxbuf, modem, at, sess>>
    BY <1>6 DEF Dispatch
  <2>3. CallMatches'
    BY <2>1, <2>2 DEF CallMatches, CallOK
  <2>4. QED
    BY <2>1, <2>2, <2>3 DEF IdsTaken, UniqueIds, HasBuffer, ProtocolsUsed, Owns, Reopening
<1>7. CASE \E id \in Ids : RemoteClose(id)
  <2>1. PICK id \in Ids : /\ modem[id] = "open" /\ modem' = [modem EXCEPT ![id] = "shut"]
                          /\ UNCHANGED <<sock, rxbuf, at, sess>>
    BY <1>7 DEF RemoteClose, Disciplined
  <2>2. ASSUME NEW i \in Ids
        PROVE  /\ modem'[i] = "free" <=> modem[i] = "free"
               /\ modem'[i] = "open" => modem[i] = "open"
    BY <2>1 DEF TypeOK
  <2>3. \A s \in Slots : Owns(s) => sock[s].id \in Ids
    BY DEF Owns, TypeOK, SocketType
  <2>4. QED
    BY <2>1, <2>2, <2>3
    DEF CallMatches, IdsTaken, UniqueIds, HasBuffer, ProtocolsUsed, Owns, Reopening
<1>8. CASE Crash
  <2>1. \A s \in Slots : ~sock'[s].used
    BY <1>8 DEF Crash, Free
  <2>2. CallMatches' /\ sess' = NoSession
    BY <1>8, <2>1 DEF Crash, CallMatches, Call
  <2>3. QED
    BY <2>1, <2>2 DEF IdsTaken, UniqueIds, HasBuffer, ProtocolsUsed, Owns
<1>9. CASE UNCHANGED vars
  BY <1>9 DEF vars, CallMatches, IdsTaken, UniqueIds, HasBuffer, ProtocolsUsed, Owns, Reopening
<1>10. QED
  BY <1>1, <1>2, <1>3, <1>4, <1>5, <1>6, <1>7, <1>8, <1>9 DEF Next, Answer

LEMMA OwnInvariant == ASSUME Disciplined PROVE Spec => []OwnInv
<1>1. TypeInv /\ OwnInv /\ [Next]_vars => OwnInv'
  BY OwnStep
<1>2. QED
  BY <1>1, OwnInit, TypeInvariant, PTL DEF Spec

\* Under discipline, no two sockets ever have the same modem id, for any number
\* of sockets, faults, restarts and remote closes.
THEOREM IdsUnique == ASSUME Disciplined PROVE Spec => []UniqueIds
<1>1. OwnInv => UniqueIds
  BY DEF OwnInv
<1>2. QED
  BY <1>1, OwnInvariant, PTL

\* Under discipline, recvfrom() finds an RX buffer for every socket whose modem
\* socket is open.
THEOREM OpenHasBuffer == ASSUME Disciplined PROVE Spec => []HasBuffer
<1>1. OwnInv => HasBuffer
  BY DEF OwnInv
<1>2. QED
  BY <1>1, OwnInvariant, PTL

-----------------------------------------------------------------------------
(* Remote closes.  A UDP socket whose end was told and that is then reopened *)
(* stays marked closed, with a modem socket that is open: where the network  *)
(* closes sockets, only TCP ones may be open.                                *)

Attributed ==
  Disciplined /\ (Protocols \subseteq {"TCP"} \/ "remote_close" \notin Features)

\* A reported id is not open again before the report is handled; a socket marked
\* closed still names the modem socket that ended.
EndsInv ==
  /\ at.why = "reopen" => "remote_close" \notin Features
  /\ "remote_close" \notin Features =>
       urcs = <<>> /\ \A s \in Slots : sock[s].used => ~sock[s].closed
  /\ \A i \in DOMAIN urcs : modem[urcs[i]] # "open"
  /\ \A s \in Slots : sock[s].used /\ sock[s].closed => sock[s].id # NoId
  /\ ClosedIsShut

LEMMA EndsInit == Init => EndsInv
BY DEF Init, EndsInv, ClosedIsShut, Free, Call

\* A step that opens nothing at the modem and marks nothing closed.
LEMMA EndsQuiet ==
  ASSUME TypeInv, EndsInv, at'.why = "reopen" => "remote_close" \notin Features,
         \A i \in Ids : modem'[i] = "open" => modem[i] = "open",
         urcs' = urcs,
         \A s \in Slots : sock'[s] = sock[s] \/ ~sock'[s].used \/ ~sock'[s].closed
  PROVE  EndsInv'
<1>1. \A s \in Slots : sock[s].id # NoId => sock[s].id \in Ids
  BY DEF TypeInv, TypeOK, SocketType
<1>2. \A i \in DOMAIN urcs : urcs[i] \in Ids
  BY DEF TypeInv, TypeOK
<1>3. QED
  BY <1>1, <1>2 DEF EndsInv, ClosedIsShut

LEMMA ModemCloseOpensNone ==
  ASSUME TypeOK, NEW id, NEW ok, ModemClose(id, ok), NEW i \in Ids, modem'[i] = "open"
  PROVE  modem[i] = "open"
BY DEF ModemClose, TypeOK

LEMMA EndsStep == TypeInv /\ OwnInv /\ EndsInv /\ Attributed /\ [Next]_vars => EndsInv'
<1> SUFFICES ASSUME TypeInv, OwnInv, EndsInv, Attributed, [Next]_vars PROVE EndsInv'
  OBVIOUS
<1>1. CASE \E s \in Slots : SlotCall(s)
  <2>1. PICK s \in Slots : SlotCall(s)
    BY <1>1
  <2>2. (\E f \in Families : SendOtherFamily(s, f)) => "remote_close" \notin Features
    BY DEF SendOtherFamily, Caller, OwnInv, ProtocolsUsed, Attributed
  <2>3. UNCHANGED <<modem, urcs>>
    BY <2>1 DEF SlotCall, SocketOpen, OpenSession, OpenSlot, Connect, FirstRecv, Close, FirstSend,
       SendOtherFamily, Start
  <2>4. at'.why = "reopen" => "remote_close" \notin Features
    BY <2>1, <2>2 DEF SlotCall, SocketOpen, OpenSession, OpenSlot, Connect, FirstRecv, Close,
       FirstSend, Start, Call, EndsInv
  <2>5. \/ sock' = sock \/ sock' = [sock EXCEPT ![s] = Free]
        \/ \E p, u : sock' = [sock EXCEPT ![s] = Socket(p, u)]
    BY <2>1 DEF SlotCall, SocketOpen, OpenSession, OpenSlot, Connect, FirstRecv, Close, FirstSend,
       SendOtherFamily, Start
  <2>6. \A t \in Slots : sock'[t] = sock[t] \/ ~sock'[t].used \/ ~sock'[t].closed
    BY <2>5 DEF Free, Socket, TypeInv, TypeOK
  <2>7. QED
    BY <2>3, <2>4, <2>6, EndsQuiet
<1>2. CASE CloseSession \/ CloseAllSockets
  BY <1>2 DEF CloseSession, CloseAllSockets, OwnInv, Attributed, Disciplined, NoSession
<1>3. CASE CreateDone
  <2>1. PICK id \in Ids : /\ modem[id] = "free" /\ modem' = [modem EXCEPT ![id] = "open"]
                          /\ sock' = [sock EXCEPT ![at.slot].id = id]
                          /\ at' = IF at.why = "connect"
                                   THEN Call("connect", at.slot, id, "connect") ELSE Unlocked
    BY <1>3 DEF CreateDone
  <2>2. /\ at.slot \in Slots /\ sock[at.slot].used /\ (at.why = "reopen" \/ sock[at.slot].id = NoId)
        /\ urcs = <<>> /\ urcs' = urcs
    BY <1>3 DEF CreateDone, Answered, TypeInv, CallOK, OwnInv, CallMatches
  <2>3. ~sock[at.slot].closed
    BY <2>2 DEF EndsInv
  <2>4. ASSUME NEW t \in Slots, sock'[t].used, sock'[t].closed
        PROVE  sock'[t].id # NoId /\ modem'[sock'[t].id] # "open"
    <3>1. t # at.slot
      BY <2>1, <2>2, <2>3, <2>4 DEF TypeInv, TypeOK, SocketType
    <3>2. sock'[t] = sock[t]
      BY <2>1, <3>1 DEF TypeInv, TypeOK
    <3>3. sock[t].id # NoId /\ modem[sock[t].id] # "open" /\ sock[t].id \in Ids
      BY <2>4, <3>2 DEF EndsInv, ClosedIsShut, TypeInv, TypeOK, SocketType
    <3>4. modem[sock[t].id] # "free"
      BY <1>3, <2>4, <3>1, <3>2, <3>3 DEF OwnInv, IdsTaken, Owns, Reopening
    <3>5. QED
      BY <2>1, <3>2, <3>3, <3>4 DEF TypeInv, TypeOK
  <2>5. at'.why # "reopen"
    BY <2>1 DEF Call, Unlocked
  <2>6. "remote_close" \notin Features => \A t \in Slots : sock'[t].used => ~sock'[t].closed
    BY <2>1, <2>2 DEF EndsInv, TypeInv, TypeOK, SocketType
  <2>7. QED
    BY <2>2, <2>4, <2>5, <2>6 DEF EndsInv, ClosedIsShut
<1>4. CASE CreateFails
  <2>1. \/ modem' = modem
        \/ \E id \in Ids : modem[id] = "free" /\ modem' = [modem EXCEPT ![id] = "open"]
    BY <1>4 DEF CreateFails, ModemRefusesCreate
  <2>2. /\ urcs = <<>> /\ UNCHANGED <<urcs, sock>> /\ at' = Unlocked
        /\ at.pc = "create" /\ at.why # "reopen"
    BY <1>4, ReopenSucceeds DEF CreateFails, Answered
  <2>3. ASSUME NEW t \in Slots, sock[t].used, sock[t].closed
        PROVE  sock[t].id # NoId /\ modem'[sock[t].id] # "open"
    <3>1. sock[t].id # NoId /\ modem[sock[t].id] # "open" /\ sock[t].id \in Ids
      BY <2>3 DEF EndsInv, ClosedIsShut, TypeInv, TypeOK, SocketType
    <3>2. modem[sock[t].id] # "free"
      BY <2>2, <2>3, <3>1 DEF OwnInv, IdsTaken, Owns, Reopening
    <3>3. QED
      BY <2>1, <3>1, <3>2 DEF TypeInv, TypeOK
  <2>4. QED
    BY <2>2, <2>3 DEF EndsInv, ClosedIsShut, Unlocked, Call
<1>5. CASE ConnectDone
  BY <1>5, EndsQuiet DEF ConnectDone, Unlocked, Call
<1>6. CASE CloseDone
  <2>1. /\ sock' = [sock EXCEPT ![at.slot] = Free] \/ sock' = sock
        /\ at'.why = "reopen" => at.why = "reopen"
        /\ urcs' = urcs
    BY <1>6 DEF CloseDone, Answered, AfterClose, OwnInv, CallMatches, Unlocked, Call
  <2>2. \A t \in Slots : sock'[t] = sock[t] \/ ~sock'[t].used
    BY <2>1 DEF Free, TypeInv, TypeOK
  <2>3. \A i \in Ids : modem'[i] = "open" => modem[i] = "open"
    BY <1>6, ModemCloseOpensNone DEF CloseDone, TypeInv
  <2>4. QED
    BY <2>1, <2>2, <2>3, EndsQuiet DEF EndsInv
<1>7. CASE SweepNext \/ SweepDone
  BY <1>7 DEF SweepNext, SweepDone, Answered, OwnInv, CallMatches
<1>8. CASE ReapList \/ ReapClose
  <2>1. PICK todo : at' = ReapCall(todo)
    BY <1>8 DEF ReapList, ReapClose
  <2>2. at'.why # "reopen"
    BY <2>1 DEF ReapCall, Unlocked, Call
  <2>3. \A i \in Ids : modem'[i] = "open" => modem[i] = "open"
    BY <1>8, ModemCloseOpensNone DEF ReapList, ReapClose, TypeInv
  <2>4. QED
    BY <1>8, <2>2, <2>3, EndsQuiet DEF ReapList, ReapClose
<1>9. CASE Dispatch
  <2>1. Head(urcs) \in Ids /\ modem[Head(urcs)] # "open"
    BY <1>9, HeadTailProperties DEF Dispatch, EndsInv, TypeInv, TypeOK
  <2>2. \A i \in DOMAIN urcs' : modem[urcs'[i]] # "open"
    BY <1>9, HeadTailProperties DEF Dispatch, EndsInv, TypeInv, TypeOK
  <2>3. ASSUME NEW t \in Slots, sock'[t].used, sock'[t].closed
        PROVE  sock'[t].id # NoId /\ modem[sock'[t].id] # "open"
    <3>1. CASE sock'[t] = sock[t]
      BY <2>3, <3>1 DEF EndsInv, ClosedIsShut
    <3>2. CASE sock'[t] # sock[t]
      <4>1. t = FindSocket(Head(urcs)) /\ Holders(Head(urcs)) # {}
        BY <1>9, <3>2 DEF Dispatch, TypeInv, TypeOK
      <4>2. PICK u \in Slots : Owns(u) /\ sock[u].id = Head(urcs)
        BY <2>1, <4>1, IdNotSpecial DEF Holders, Owns
      <4>3. t = u
        BY <4>1, <4>2, FindSocketUnique DEF OwnInv
      <4>4. sock'[t].id = Head(urcs)
        BY <1>9, <4>2, <4>3 DEF Dispatch, TypeInv, TypeOK, SocketType
      <4>5. QED
        BY <2>1, <4>4, IdNotSpecial
    <3>3. QED
      BY <3>1, <3>2
  <2>4. QED
    BY <1>9, <2>2, <2>3 DEF Dispatch, EndsInv, ClosedIsShut
<1>10. CASE \E id \in Ids : RemoteClose(id)
  <2>1. PICK id \in Ids : /\ modem' = [modem EXCEPT ![id] = "shut"]
                          /\ urcs' = Append(urcs, id) /\ UNCHANGED <<sock, at>>
                          /\ "remote_close" \in Features
    BY <1>10 DEF RemoteClose, Attributed, Disciplined
  <2>2. \A i \in Ids : modem'[i] = "open" => modem[i] = "open" /\ i # id
    BY <2>1 DEF TypeInv, TypeOK
  <2>3. \A i \in DOMAIN urcs' : urcs'[i] = id \/ (i \in DOMAIN urcs /\ urcs'[i] = urcs[i])
    BY <2>1, AppendProperties DEF TypeInv, TypeOK
  <2>4. \A i \in DOMAIN urcs : urcs[i] \in Ids
    BY DEF TypeInv, TypeOK
  <2>5. \A s \in Slots : sock[s].id # NoId => sock[s].id \in Ids
    BY DEF TypeInv, TypeOK, SocketType
  <2>6. QED
    BY <2>1, <2>2, <2>3, <2>4, <2>5 DEF EndsInv, ClosedIsShut
<1>11. CASE Crash
  BY <1>11 DEF Crash, EndsInv, ClosedIsShut, Free, Call
<1>12. CASE UNCHANGED vars
  BY <1>12 DEF vars, EndsInv, ClosedIsShut
<1>13. QED
  BY <1>1, <1>2, <1>3, <1>4, <1>5, <1>6, <1>7, <1>8, <1>9, <1>10, <1>11, <1>12 DEF Next, Answer

\* Where only TCP sockets are open, or the network closes none, a socket is marked
\* closed only when its own modem socket has ended (urc_socketclosed).
THEOREM ClosedMeansShut == ASSUME Attributed PROVE Spec => []ClosedIsShut
<1>1. Disciplined
  BY DEF Attributed
<1>2. TypeInv /\ OwnInv /\ EndsInv /\ [Next]_vars => EndsInv'
  BY EndsStep
<1>3. EndsInv => ClosedIsShut
  BY DEF EndsInv
<1>4. Spec => []OwnInv
  BY <1>1, OwnInvariant
<1>5. QED
  BY <1>2, <1>3, <1>4, EndsInit, TypeInvariant, PTL DEF Spec

-----------------------------------------------------------------------------
(* Orphans.  Without faults the boot-time reaping leaves none, and none      *)
(* appear later.                                                            *)

\* While reaping, the open sockets are the ones still on the list.
TrackInv ==
  /\ OpenTracked
  /\ faults = 0 /\ at.pc = "reap" => \A id \in Ids : modem[id] = "open" => id \in at.todo

LEMMA TrackInit == Init => TrackInv
BY DEF Init, TrackInv, OpenTracked, Call

\* A step outside boot that opens nothing and takes no holder of an open socket away.
LEMMA TrackQuiet ==
  ASSUME TypeInv, TrackInv, at.why # "boot", at'.pc # "reap", faults' = 0 => faults = 0,
         \A i \in Ids : modem'[i] = "open" =>
           modem[i] = "open" /\ (Holders(i) # {} => Holders(i)' # {})
  PROVE  TrackInv'
BY DEF TrackInv, OpenTracked

LEMMA TrackSlotCall ==
  ASSUME TypeInv, OwnInv, EndsInv, TrackInv, Attributed, NEW s \in Slots, SlotCall(s)
  PROVE  TrackInv'
<1>1. UNCHANGED <<modem, faults>>
  BY DEF SlotCall, SocketOpen, OpenSession, OpenSlot, Connect, FirstRecv, Close, FirstSend,
     SendOtherFamily, Start
<1>2. at.why # "boot" /\ at'.pc # "reap"
  BY DEF SlotCall, SocketOpen, OpenSession, OpenSlot, Connect, FirstRecv, Close, FirstSend,
     SendOtherFamily, Start, Call, OwnInv, CallMatches
<1>3. ASSUME NEW i \in Ids, modem[i] = "open", NEW t \in Holders(i)
      PROVE  t \in Holders(i)'
  <2>1. t \in Slots /\ Owns(t) /\ sock[t].id = i
    BY <1>3, IdNotSpecial DEF Holders, Owns
  <2>2. CASE sock'[t] = sock[t]
    BY <2>1, <2>2 DEF Holders, Owns
  <2>3. CASE sock'[t] # sock[t]
    <3>1. \/ \E p \in Protocols : SocketOpen(s, p)
          \/ OpenSession(s)
          \/ Close(s) /\ sock' = [sock EXCEPT ![s] = Free]
      BY <2>3 DEF SlotCall, Connect, FirstRecv, Close, FirstSend, SendOtherFamily, Start
    <3>2. t = s
      BY <2>1, <2>3, <3>1 DEF SocketOpen, OpenSession, OpenSlot, TypeInv, TypeOK
    <3>3. sock[s].used /\ Close(s) /\ sock' = [sock EXCEPT ![s] = Free]
      BY <2>1, <3>1, <3>2 DEF SocketOpen, OpenSession, OpenSlot, Owns
    <3>4. sock[s].id = NoId \/ SkipsClose(sock[s].id) \/ sock' = sock
      BY <3>3 DEF Close
    <3>5. sock[s].closed
      BY <2>1, <2>3, <3>2, <3>4, FindSocketUnique DEF SkipsClose, Owns, OwnInv
    <3>6. QED
      BY <1>3, <2>1, <3>2, <3>5 DEF EndsInv, ClosedIsShut, Owns
  <2>4. QED
    BY <2>2, <2>3
<1>4. QED
  BY <1>1, <1>2, <1>3, TrackQuiet

LEMMA TrackStep ==
  TypeInv /\ OwnInv /\ EndsInv /\ TrackInv /\ Attributed /\ [Next]_vars => TrackInv'
<1> SUFFICES ASSUME TypeInv, OwnInv, EndsInv, TrackInv, Attributed, [Next]_vars PROVE TrackInv'
  OBVIOUS
<1>1. CASE \E s \in Slots : SlotCall(s)
  BY <1>1, TrackSlotCall
<1>2. CASE CloseSession \/ CloseAllSockets \/ SweepNext \/ SweepDone
  BY <1>2 DEF CloseSession, CloseAllSockets, SweepNext, SweepDone, Answered, OwnInv, CallMatches,
     Attributed, Disciplined, NoSession
<1>3. CASE CreateDone
  <2>1. PICK id \in Ids : /\ modem' = [modem EXCEPT ![id] = "open"]
                          /\ sock' = [sock EXCEPT ![at.slot].id = id]
                          /\ at' = IF at.why = "connect"
                                   THEN Call("connect", at.slot, id, "connect") ELSE Unlocked
    BY <1>3 DEF CreateDone
  <2>2. /\ at.slot \in Slots /\ sock[at.slot].used /\ at.why # "boot" /\ faults' = faults
        /\ sock[at.slot].id # NoId => modem[sock[at.slot].id] = "free"
    BY <1>3 DEF CreateDone, Answered, TypeInv, CallOK, OwnInv, CallMatches, IdsTaken, Owns, Reopening
  <2>3. at.slot \in Holders(id)'
    BY <2>1, <2>2 DEF Holders, TypeInv, TypeOK, SocketType
  <2>4. ASSUME NEW i \in Ids, i # id, modem'[i] = "open", faults = 0
        PROVE  Holders(i)' # {}
    <3>1. PICK t \in Slots : sock[t].used /\ sock[t].id = i
      BY <2>1, <2>2, <2>4 DEF TrackInv, OpenTracked, Holders, TypeInv, TypeOK
    <3>2. modem[i] = "open" /\ i # NoId
      BY <2>1, <2>4, IdNotSpecial DEF TypeInv, TypeOK
    <3>3. t # at.slot
      BY <2>2, <3>1, <3>2
    <3>4. sock'[t] = sock[t]
      BY <2>1, <3>3 DEF TypeInv, TypeOK
    <3>5. QED
      BY <3>1, <3>4 DEF Holders
  <2>5. at'.pc # "reap"
    BY <2>1 DEF Call, Unlocked
  <2>6. QED
    BY <2>2, <2>3, <2>4, <2>5 DEF TrackInv, OpenTracked
<1>4. CASE CreateFails
  <2>1. at.why # "boot" /\ at' = Unlocked /\ UNCHANGED sock
    BY <1>4 DEF CreateFails, Answered, OwnInv, CallMatches
  <2>2. UNCHANGED modem \/ faults' # 0
    BY <1>4, BoundsAssumption DEF CreateFails, ModemRefusesCreate, TypeInv, TypeOK
  <2>3. faults' = 0 => faults = 0
    BY <1>4 DEF CreateFails, ModemRefusesCreate, TypeInv, TypeOK
  <2>4. QED
    BY <2>1, <2>2, <2>3 DEF TrackInv, OpenTracked, Holders, Unlocked, Call
<1>5. CASE ConnectDone
  BY <1>5 DEF ConnectDone, Answered, OwnInv, CallMatches, TrackInv, OpenTracked, Holders,
     Unlocked, Call
<1>6. CASE CloseDone
  <2>1. /\ sock' = [sock EXCEPT ![at.slot] = Free] \/ sock' = sock
        /\ at.slot \in Slots /\ at.id = sock[at.slot].id /\ at.id \in Ids
        /\ at.why # "boot" /\ at'.pc # "reap"
    BY <1>6 DEF CloseDone, Answered, AfterClose, OwnInv, CallMatches, TypeInv, CallOK, Unlocked, Call
  <2>2. ASSUME faults' = 0
        PROVE  faults = 0 /\ \A i \in Ids : modem'[i] = "open" => modem[i] = "open" /\ i # at.id
    BY <1>6, <2>1, <2>2 DEF CloseDone, ModemClose, TypeInv, TypeOK
  <2>3. ASSUME NEW i \in Ids, faults' = 0, modem'[i] = "open"
        PROVE  Holders(i)' # {}
    <3>1. PICK t \in Slots : sock[t].used /\ sock[t].id = i
      BY <2>1, <2>2, <2>3 DEF TrackInv, OpenTracked, Holders
    <3>2. sock'[t] = sock[t]
      BY <2>1, <2>2, <2>3, <3>1 DEF TypeInv, TypeOK
    <3>3. QED
      BY <3>1, <3>2 DEF Holders
  <2>4. QED
    BY <2>1, <2>3 DEF TrackInv, OpenTracked
<1>7. CASE ReapList
  <2>1. ASSUME faults' = 0
        PROVE  faults = 0 /\ at' = ReapCall(LiveIds) /\ modem' = modem
    BY <1>7, <2>1 DEF ReapList, TypeInv, TypeOK
  <2>2. QED
    BY <2>1 DEF TrackInv, OpenTracked, ReapCall, LiveIds, Unlocked, Call
<1>8. CASE ReapClose
  <2>1. PICK id \in at.todo, ok \in BOOLEAN :
          ModemClose(id, ok) /\ at' = ReapCall(at.todo \ {id})
    BY <1>8 DEF ReapClose
  <2>2. ASSUME faults' = 0
        PROVE  faults = 0 /\ \A i \in Ids : modem'[i] = "open" => modem[i] = "open" /\ i # id
    BY <2>1, <2>2 DEF ModemClose, TypeInv, TypeOK
  <2>3. at.pc = "reap"
    BY <1>8 DEF ReapClose, Answered
  <2>4. QED
    BY <2>1, <2>2, <2>3 DEF TrackInv, OpenTracked, ReapCall, Unlocked, Call
<1>9. CASE Dispatch
  <2>1. \A s \in Slots : sock'[s].used = sock[s].used /\ sock'[s].id = sock[s].id
    BY <1>9 DEF Dispatch, TypeInv, TypeOK, SocketType
  <2>2. \A i \in Ids : Holders(i)' = Holders(i)
    BY <2>1 DEF Holders
  <2>3. QED
    BY <1>9, <2>2 DEF Dispatch, TrackInv, OpenTracked
<1>10. CASE \E id \in Ids : RemoteClose(id)
  <2>1. PICK id \in Ids : /\ modem' = [modem EXCEPT ![id] = "shut"]
                          /\ UNCHANGED <<sock, at, faults>>
    BY <1>10 DEF RemoteClose, Attributed, Disciplined
  <2>2. QED
    BY <2>1 DEF TrackInv, OpenTracked, Holders, TypeInv, TypeOK
<1>11. CASE Crash
  BY <1>11 DEF Crash, TrackInv, OpenTracked, Call
<1>12. CASE UNCHANGED vars
  BY <1>12 DEF vars, TrackInv, OpenTracked, Holders
<1>13. QED
  BY <1>1, <1>2, <1>3, <1>4, <1>5, <1>6, <1>7, <1>8, <1>9, <1>10, <1>11, <1>12 DEF Next, Answer

\* There and without a fault, every open modem socket belongs to a socket of the
\* table once the constructor has reaped, after any number of restarts and reopens
\* (reap_orphan_sockets, socket_close_impl, socket_sendto_impl).
THEOREM NoOrphans == ASSUME Attributed PROVE Spec => []OpenTracked
<1>1. Disciplined
  BY DEF Attributed
<1>2. TypeInv /\ OwnInv /\ EndsInv /\ [Next]_vars => EndsInv'
  BY EndsStep
<1>3. TypeInv /\ OwnInv /\ EndsInv /\ TrackInv /\ [Next]_vars => TrackInv'
  BY TrackStep
<1>4. TrackInv => OpenTracked
  BY DEF TrackInv
<1>5. Spec => []OwnInv
  BY <1>1, OwnInvariant
<1>6. QED
  BY <1>2, <1>3, <1>4, <1>5, EndsInit, TrackInit, TypeInvariant, PTL DEF Spec
=============================================================================
