------------------------ MODULE CellularStack_proofs ------------------------
(***************************************************************************)
(* Proofs about the socket table for every configuration: the types, the   *)
(* RX pool accounting, how long a call keeps the AT lock, and what a sweep *)
(* leaves open.                                                            *)
(***************************************************************************)
EXTENDS CellularStack, FiniteSetTheorems, SequenceTheorems, WellFoundedInduction, TLAPS

Held == {id \in Ids : rxbuf[id]}

\* What the parameters of the call in progress are, by the step it is in.
CallOK ==
  /\ at.pc \in {"create", "connect"} => at.slot \in Slots
  /\ at.pc = "close" /\ at.why # "session" => at.slot \in Slots
  /\ at.pc \in {"connect", "close", "sweeping"} => at.id \in Ids
  /\ at.pc = "sweep" => at.id \in 0 .. MaxSockets
  /\ sess.pc = "open" => sess.id \in Ids

\* The inductive invariant behind the types: a freed block was counted.
TypeInv == TypeOK /\ CallOK /\ PoolAccounting

-----------------------------------------------------------------------------
(* The RX pool.                                                             *)

LEMMA IdsFinite == IsFiniteSet(Ids)
BY MaxSocketsAssumption, FS_Interval DEF Ids

LEMMA HeldFinite == IsFiniteSet(Held) /\ Cardinality(Held) \in Nat
<1>1. Held \in SUBSET Ids
  BY DEF Held
<1>2. IsFiniteSet(Held)
  BY <1>1, IdsFinite, FS_Subset
<1>3. QED
  BY <1>2, FS_CardinalityType

\* What allocate_rx_buffer() and free_rx_buffer() keep.
RxOK == rxbuf \in [Ids -> BOOLEAN] /\ pool \in Nat /\ PoolAccounting

LEMMA AllocateRxKeeps ==
  ASSUME RxOK, NEW id \in Ids, AllocateRx(id)
  PROVE  RxOK'
<1>1. rxbuf' = [rxbuf EXCEPT ![id] = TRUE] /\ rxbuf' \in [Ids -> BOOLEAN]
  BY DEF AllocateRx, RxOK
<1>2. Held' = Held \cup {id}
  BY <1>1 DEF Held, RxOK
<1>3. Cardinality(Held') = IF id \in Held THEN Cardinality(Held) ELSE Cardinality(Held) + 1
  BY <1>2, HeldFinite, FS_AddElement
<1>4. pool = Cardinality(Held)
  BY DEF RxOK, PoolAccounting, Held
<1>5. pool' = Cardinality(Held')
  BY <1>3, <1>4 DEF AllocateRx, Held
<1>6. pool' \in Nat
  BY <1>5, <1>3, HeldFinite
<1>7. QED
  BY <1>1, <1>5, <1>6 DEF RxOK, PoolAccounting, Held

LEMMA FreeRxKeeps ==
  ASSUME RxOK, NEW id \in Ids, FreeRx(id)
  PROVE  RxOK'
<1>1. rxbuf' = [rxbuf EXCEPT ![id] = FALSE] /\ rxbuf' \in [Ids -> BOOLEAN]
  BY DEF FreeRx, RxOK
<1>2. Held' = Held \ {id}
  BY <1>1 DEF Held, RxOK
<1>3. IsFiniteSet(Held') /\ Cardinality(Held')
        = IF id \in Held THEN Cardinality(Held) - 1 ELSE Cardinality(Held)
  BY <1>2, HeldFinite, FS_RemoveElement
<1>4. pool = Cardinality(Held)
  BY DEF RxOK, PoolAccounting, Held
<1>5. pool' = Cardinality(Held')
  BY <1>3, <1>4 DEF FreeRx, Held
<1>6. pool' \in Nat
  BY <1>5, <1>3, FS_CardinalityType
<1>7. QED
  BY <1>1, <1>5, <1>6 DEF RxOK, PoolAccounting, Held

LEMMA ResetRxKeeps ==
  ASSUME rxbuf = [id \in Ids |-> FALSE], pool = 0
  PROVE  RxOK
<1>1. Held = {}
  BY DEF Held
<1>2. QED
  BY <1>1, FS_EmptySet DEF RxOK, PoolAccounting, Held

-----------------------------------------------------------------------------
(* The types.                                                               *)

LEMMA MarkClosedType ==
  ASSUME sock \in [Slots -> SocketType], NEW s
  PROVE  [sock EXCEPT ![s].closed = TRUE] \in [Slots -> SocketType]
BY DEF SocketType

LEMMA SetIdType ==
  ASSUME sock \in [Slots -> SocketType], NEW s, NEW id \in Ids
  PROVE  [sock EXCEPT ![s].id = id] \in [Slots -> SocketType]
BY DEF SocketType

LEMMA FreeSlotType ==
  ASSUME sock \in [Slots -> SocketType], NEW s
  PROVE  [sock EXCEPT ![s] = Free] \in [Slots -> SocketType]
BY DEF SocketType, Free, NoId

LEMMA NewSocketType ==
  ASSUME sock \in [Slots -> SocketType], NEW s, NEW p \in {"TCP", "UDP"},
         NEW u \in {"app", "session"}
  PROVE  [sock EXCEPT ![s] = Socket(p, u)] \in [Slots -> SocketType]
BY DEF SocketType, Socket, NoId

LEMMA CallIsTyped ==
  ASSUME NEW pc \in {"free", "create", "connect", "close", "sweep", "sweeping", "list", "reap"},
         NEW s \in Slots \cup {NoSlot}, NEW id \in -1 .. MaxSockets,
         NEW why \in {"none", "connect", "recv", "send", "reopen", "close", "session",
                      "sweep", "boot"}
  PROVE  Call(pc, s, id, why) \in CallType
BY DEF Call, CallType

LEMMA CallFields ==
  ASSUME NEW pc, NEW s, NEW id, NEW why
  PROVE  /\ Call(pc, s, id, why).pc = pc /\ Call(pc, s, id, why).slot = s
         /\ Call(pc, s, id, why).id = id /\ Call(pc, s, id, why).why = why
         /\ Call(pc, s, id, why).todo = {}
BY DEF Call

\* A command for the modem socket of a slot.
LEMMA CommandType ==
  ASSUME NEW s \in Slots, NEW id \in Ids, NEW pc \in {"connect", "close"},
         NEW why \in {"connect", "close", "reopen"}, at' = Call(pc, s, id, why)
  PROVE  at' \in CallType /\ at'.pc = pc /\ at'.slot = s /\ at'.id = id
<1>1. id \in -1 .. MaxSockets
  BY MaxSocketsAssumption DEF Ids
<1>2. QED
  BY <1>1 DEF Call, CallType

LEMMA LoopIdType ==
  ASSUME at \in CallType, NEW i \in -1 .. MaxSockets
  PROVE  [at EXCEPT !.id = i] \in CallType /\ [at EXCEPT !.id = i].pc = at.pc
BY DEF CallType

LEMMA LoopPcType ==
  ASSUME at \in CallType, NEW pc \in {"sweep", "sweeping"}
  PROVE  [at EXCEPT !.pc = pc] \in CallType
BY DEF CallType

LEMMA ModemCloseType ==
  ASSUME TypeOK, NEW id, NEW ok, ModemClose(id, ok)
  PROVE  modem' \in [Ids -> {"free", "open", "shut"}] /\ faults' \in Nat
BY DEF TypeOK, ModemClose

LEMMA ModemRefusesType ==
  ASSUME TypeOK, ModemRefusesCreate
  PROVE  modem' \in [Ids -> {"free", "open", "shut"}] /\ faults' \in Nat
BY DEF TypeOK, ModemRefusesCreate

LEMMA IdNotSpecial ==
  /\ NoId \notin Ids /\ NoSlot \notin Slots
  /\ Ids \subseteq 0 .. MaxSockets /\ Ids \subseteq -1 .. MaxSockets
  /\ NoId \in -1 .. MaxSockets
BY MaxSocketsAssumption, SocketCountAssumption DEF Ids, Slots, NoId, NoSlot

LEMMA TypeInit == Init => TypeInv
<1> SUFFICES ASSUME Init PROVE TypeInv
  OBVIOUS
<1>1. RxOK
  BY ResetRxKeeps DEF Init
<1>2. TypeOK
  BY <1>1, MaxSocketsAssumption
  DEF Init, TypeOK, RxOK, SocketType, Free, CallType, Call, NoSession, NoId, NoSlot
<1>3. CallOK
  BY DEF Init, CallOK, Call, NoSession
<1>4. QED
  BY <1>1, <1>2, <1>3 DEF TypeInv, RxOK

LEMMA SlotCallTypes ==
  ASSUME TypeInv, NEW s \in Slots, SlotCall(s)
  PROVE  TypeInv'
<1> USE IdNotSpecial, MaxSocketsAssumption
<1>0. rxbuf' = rxbuf /\ pool' = pool /\ PoolAccounting'
  BY DEF TypeInv, SlotCall, SocketOpen, OpenSession, OpenSlot, Connect, FirstRecv, Close,
         FirstSend, SendOtherFamily, Start, PoolAccounting
<1>1. ASSUME NEW p \in {"TCP", "UDP"}, NEW u \in {"app", "session"}, OpenSlot(s, p, u)
      PROVE  sock' \in [Slots -> SocketType]
  BY <1>1, NewSocketType DEF TypeInv, TypeOK, OpenSlot
<1>2. CASE \E p \in Protocols : SocketOpen(s, p)
  BY <1>0, <1>1, <1>2, ProtocolsAssumption DEF TypeInv, TypeOK, CallOK, SocketOpen, OpenSlot
<1>3. CASE OpenSession(s)
  BY <1>0, <1>1, <1>3 DEF TypeInv, TypeOK, CallOK, OpenSession, OpenSlot, NoId
<1>4. ASSUME NEW id, id = sock[s].id, id # NoId
      PROVE  id \in Ids
  BY <1>4 DEF TypeInv, TypeOK, SocketType
<1>5. CASE Connect(s)
  <2>1. CASE sock[s].id = NoId
    BY <1>0, <1>5, <2>1 DEF TypeInv, TypeOK, CallOK, Connect, Start, Call, CallType
  <2>2. CASE sock[s].id # NoId
    <3>1. at' = Call("connect", s, sock[s].id, "connect") /\ sock[s].id \in Ids
      BY <1>4, <1>5, <2>2 DEF Connect, Start
    <3>2. at' \in CallType /\ at'.pc = "connect" /\ at'.slot = s /\ at'.id \in Ids
      BY <3>1, CommandType
    <3>3. QED
      BY <1>0, <1>5, <3>2 DEF TypeInv, TypeOK, CallOK, Connect, Start
  <2>3. QED
    BY <2>1, <2>2
<1>6. CASE FirstRecv(s)
  BY <1>0, <1>6 DEF TypeInv, TypeOK, CallOK, FirstRecv, Start, Call, CallType, NoId
<1>7. CASE Close(s)
  <2>1. CASE sock' = [sock EXCEPT ![s] = Free] /\ UNCHANGED at
    BY <1>0, <1>7, <2>1, FreeSlotType
    DEF TypeInv, TypeOK, CallOK, Close, NoSession, NoId, NoSlot
  <2>2. CASE at' = Call("close", s, sock[s].id, "close") /\ sock[s].id # NoId /\ UNCHANGED sock
    <3>1. at' \in CallType /\ at'.pc = "close" /\ at'.slot = s /\ at'.id \in Ids
      BY <1>4, <2>2, CommandType
    <3>2. UNCHANGED <<modem, urcs, ipver, faults, crashes>>
      BY <1>7 DEF Close
    <3>3. sess' \in [pc : {"idle", "opening", "failed", "open"},
                     slot : Slots \cup {NoSlot}, id : Ids \cup {NoId}]
          /\ (sess'.pc = "open" => sess'.id \in Ids)
      BY <1>7 DEF Close, TypeInv, TypeOK, CallOK, NoSession
    <3>4. QED
      BY <1>0, <2>2, <3>1, <3>2, <3>3 DEF TypeInv, TypeOK, CallOK
  <2>3. QED
    BY <1>7, <2>1, <2>2 DEF Close
<1>8. CASE \E f \in Families : FirstSend(s, f)
  BY <1>0, <1>8 DEF TypeInv, TypeOK, CallOK, FirstSend, Start, Call, CallType, NoId
<1>9. CASE \E f \in Families : SendOtherFamily(s, f)
  <2>1. PICK f \in Families : SendOtherFamily(s, f)
    BY <1>9
  <2>2. at' \in CallType /\ at'.pc \in {"create", "close"} /\ at'.slot = s
        /\ (at'.pc = "close" => at'.id \in Ids)
    <3>1. CASE at' = Call("create", s, NoId, "reopen")
      BY <3>1 DEF Call, CallType, NoId
    <3>2. CASE at' = Call("close", s, sock[s].id, "reopen")
      BY <1>4, <2>1, <3>2, CommandType DEF SendOtherFamily
    <3>3. QED
      BY <2>1, <3>1, <3>2 DEF SendOtherFamily, Start
  <2>3. QED
    BY <1>0, <2>1, <2>2 DEF TypeInv, TypeOK, CallOK, SendOtherFamily, Start
<1>10. QED
  BY <1>2, <1>3, <1>5, <1>6, <1>7, <1>8, <1>9 DEF SlotCall

LEMMA AnswerTypes ==
  ASSUME TypeInv, Answer
  PROVE  TypeInv'
<1> USE IdNotSpecial, MaxSocketsAssumption
<1> USE DEF TypeInv
<1>0. RxOK
  BY DEF RxOK, TypeOK
<1>1. CASE CreateDone
  <2>1. PICK id \in Ids : /\ modem' = [modem EXCEPT ![id] = "open"]
                          /\ AllocateRx(id)
                          /\ sock' = [sock EXCEPT ![at.slot].id = id]
                          /\ at' = IF at.why = "connect"
                                   THEN Call("connect", at.slot, id, "connect") ELSE Unlocked
    BY <1>1 DEF CreateDone
  <2>2. RxOK'
    BY <1>0, <2>1, AllocateRxKeeps
  <2>3. sock' \in [Slots -> SocketType]
    BY <2>1, SetIdType DEF TypeOK
  <2>4. at.slot \in Slots /\ at' \in CallType
    BY <1>1, <2>1 DEF CreateDone, Answered, CallOK, Call, CallType, Unlocked, NoId
  <2>5. TypeOK'
    BY <1>1, <2>1, <2>2, <2>3, <2>4 DEF TypeOK, CreateDone, RxOK
  <2>6. CallOK'
    BY <1>1, <2>1, <2>4 DEF CallOK, CreateDone, Call, Unlocked
  <2>7. QED
    BY <2>2, <2>5, <2>6 DEF RxOK
<1>2. CASE CreateFails
  <2>1. at' \in CallType /\ at'.pc = "free"
    BY <1>2, CallIsTyped, CallFields DEF CreateFails, Unlocked
  <2>2. sess' = sess \/ sess' = [sess EXCEPT !.pc = "failed"]
    BY <1>2 DEF CreateFails, SessionFails
  <2>3. QED
    BY <1>2, <2>1, <2>2, ModemRefusesType DEF CreateFails, TypeOK, CallOK, PoolAccounting
<1>3. CASE ConnectDone
  <2>1. at' \in CallType /\ at'.pc = "free"
    BY <1>3, CallIsTyped, CallFields DEF ConnectDone, Unlocked
  <2>2. at.id \in Ids
    BY <1>3 DEF ConnectDone, Answered, CallOK
  <2>3. \/ sess' = sess \/ sess' = [sess EXCEPT !.pc = "failed"]
        \/ sess' = [sess EXCEPT !.pc = "open", !.id = at.id]
    BY <1>3 DEF ConnectDone, SessionFails
  <2>4. /\ sess' \in [pc : {"idle", "opening", "failed", "open"},
                      slot : Slots \cup {NoSlot}, id : Ids \cup {NoId}]
        /\ sess'.pc = "open" => sess'.id \in Ids
    <3>1. sess \in [pc : {"idle", "opening", "failed", "open"},
                    slot : Slots \cup {NoSlot}, id : Ids \cup {NoId}]
      BY DEF TypeOK
    <3>2. CASE sess' = sess
      BY <3>1, <3>2 DEF CallOK
    <3>3. CASE sess' = [sess EXCEPT !.pc = "failed"]
      BY <3>1, <3>3
    <3>4. CASE sess' = [sess EXCEPT !.pc = "open", !.id = at.id]
      BY <2>2, <3>1, <3>4
    <3>5. QED
      BY <2>3, <3>2, <3>3, <3>4
  <2>5. UNCHANGED <<sock, rxbuf, pool, modem, urcs, ipver, faults, crashes>>
    BY <1>3 DEF ConnectDone
  <2>6. TypeOK' /\ PoolAccounting'
    BY <2>1, <2>4, <2>5 DEF TypeOK, PoolAccounting
  <2>7. CallOK'
    BY <2>1, <2>4 DEF CallOK
  <2>8. QED
    BY <2>6, <2>7
<1>4. CASE CloseDone
  <2>1. at.id \in Ids /\ (at.why # "session" => at.slot \in Slots)
    BY <1>4 DEF CloseDone, Answered, CallOK
  <2>2. RxOK'
    BY <1>0, <1>4, <2>1, FreeRxKeeps DEF CloseDone
  <2>3. modem' \in [Ids -> {"free", "open", "shut"}] /\ faults' \in Nat
    BY <1>4, ModemCloseType DEF CloseDone
  <2>4. sock' \in [Slots -> SocketType]
    BY <1>4, FreeSlotType DEF CloseDone, AfterClose, TypeOK
  <2>5. at' \in CallType /\ CallOK'
    BY <1>4, <2>1 DEF CloseDone, AfterClose, CallOK, Call, CallType, Unlocked, NoSession,
       NoId, NoSlot
  <2>6. sess' \in [pc : {"idle", "opening", "failed", "open"},
                   slot : Slots \cup {NoSlot}, id : Ids \cup {NoId}]
    BY <1>4 DEF CloseDone, AfterClose, TypeOK, NoSession
  <2>7. QED
    BY <1>4, <2>2, <2>3, <2>4, <2>5, <2>6 DEF CloseDone, TypeOK, RxOK
<1>5. CASE SweepNext
  <2>1. at.id \in 0 .. MaxSockets
    BY <1>5 DEF SweepNext, CallOK
  <2>2. at' \in CallType /\ CallOK'
    <3>1. CASE at.id = MaxSockets
      BY <1>5, <3>1, CallIsTyped, CallFields DEF SweepNext, Unlocked, CallOK
    <3>2. CASE at.id # MaxSockets /\ at' = [at EXCEPT !.id = @ + 1]
      <4>1. at.id + 1 \in -1 .. MaxSockets /\ at.id + 1 \in 0 .. MaxSockets
        BY <2>1, <3>2
      <4>2. at.pc = "sweep"
        BY <1>5 DEF SweepNext
      <4>3. at' \in CallType /\ at'.pc = at.pc
        BY <3>2, <4>1, LoopIdType DEF TypeOK
      <4>4. at'.id = at.id + 1
        BY <3>2 DEF TypeOK, CallType
      <4>5. QED
        BY <1>5, <4>1, <4>2, <4>3, <4>4 DEF SweepNext, CallOK
    <3>3. CASE at.id # MaxSockets /\ at' = [at EXCEPT !.pc = "sweeping"]
      <4>1. at.id \in Ids
        BY <2>1, <3>3 DEF Ids
      <4>2. at' \in CallType
        BY <3>3, LoopPcType DEF TypeOK
      <4>3. at'.pc = "sweeping" /\ at'.id = at.id
        BY <3>3 DEF TypeOK, CallType
      <4>4. QED
        BY <1>5, <4>1, <4>2, <4>3 DEF SweepNext, CallOK
    <3>4. QED
      BY <1>5, <3>1, <3>2, <3>3 DEF SweepNext
  <2>3. QED
    BY <1>5, <2>2 DEF SweepNext, TypeOK, PoolAccounting
<1>6. CASE SweepDone
  <2>1. sock' \in [Slots -> SocketType]
    BY <1>6, MarkClosedType DEF SweepDone, TypeOK
  <2>2. modem' \in [Ids -> {"free", "open", "shut"}] /\ faults' \in Nat
    BY <1>6, ModemCloseType DEF SweepDone
  <2>3. at' \in CallType /\ CallOK'
    <3>1. at.id \in Ids /\ at' = [at EXCEPT !.pc = "sweep", !.id = @ + 1]
      BY <1>6 DEF SweepDone, Answered, CallOK
    <3>2. at.id + 1 \in 0 .. MaxSockets /\ at.id + 1 \in -1 .. MaxSockets
      BY <3>1 DEF Ids
    <3>3. at'.pc = "sweep" /\ at'.id = at.id + 1
      BY <3>1 DEF TypeOK, CallType
    <3>4. at' \in CallType
      <4>1. [at EXCEPT !.pc = "sweep"] \in CallType
        BY LoopPcType DEF TypeOK
      <4>2. QED
        BY <3>1, <3>2, <4>1 DEF CallType
    <3>5. QED
      BY <1>6, <3>2, <3>3, <3>4 DEF SweepDone, CallOK
  <2>4. QED
    BY <1>6, <2>1, <2>2, <2>3 DEF SweepDone, TypeOK, PoolAccounting
<1>7. ASSUME NEW todo \in SUBSET Ids
      PROVE  /\ ReapCall(todo) \in CallType
             /\ ReapCall(todo).pc \in {"free", "reap"}
  BY DEF ReapCall, Unlocked, Call, CallType, NoSlot, NoId
<1>8. CASE ReapList
  <2>1. PICK todo \in SUBSET Ids : at' = ReapCall(todo)
    BY <1>8 DEF ReapList, LiveIds
  <2>2. faults' \in Nat
    BY <1>8 DEF ReapList, TypeOK
  <2>3. QED
    BY <1>7, <1>8, <2>1, <2>2 DEF ReapList, TypeOK, CallOK, PoolAccounting
<1>9. CASE ReapClose
  <2>1. PICK id \in at.todo : at' = ReapCall(at.todo \ {id})
    BY <1>9 DEF ReapClose
  <2>2. at.todo \ {id} \in SUBSET Ids
    BY DEF TypeOK, CallType
  <2>3. modem' \in [Ids -> {"free", "open", "shut"}] /\ faults' \in Nat
    BY <1>9, ModemCloseType DEF ReapClose
  <2>4. QED
    BY <1>7, <1>9, <2>1, <2>2, <2>3 DEF ReapClose, TypeOK, CallOK, PoolAccounting
<1>10. QED
  BY <1>1, <1>2, <1>3, <1>4, <1>5, <1>6, <1>8, <1>9 DEF Answer

LEMMA TypeStep == TypeInv /\ [Next]_vars => TypeInv'
<1> SUFFICES ASSUME TypeInv, [Next]_vars PROVE TypeInv'
  OBVIOUS
<1> USE IdNotSpecial, MaxSocketsAssumption
<1>1. CASE \E s \in Slots : SlotCall(s)
  BY <1>1, SlotCallTypes
<1>2. CASE CloseSession
  <2>1. CASE sess' = NoSession /\ UNCHANGED at
    BY <1>2, <2>1 DEF CloseSession, TypeInv, TypeOK, CallOK, PoolAccounting, NoSession
  <2>2. CASE at' = Call("close", NoSlot, sess.id, "session") /\ UNCHANGED sess
    <3>1. sess.id \in Ids
      BY <1>2 DEF CloseSession, TypeInv, CallOK
    <3>2. at' \in CallType /\ at'.pc = "close" /\ at'.why = "session" /\ at'.id \in Ids
      BY <2>2, <3>1 DEF Call, CallType, NoSlot
    <3>3. QED
      BY <1>2, <2>2, <3>2 DEF CloseSession, TypeInv, TypeOK, CallOK, PoolAccounting
  <2>3. QED
    BY <1>2, <2>1, <2>2 DEF CloseSession
<1>3. CASE CloseAllSockets
  <2>1. at' \in CallType /\ at'.pc = "sweep" /\ at'.id = 0
    BY <1>3 DEF CloseAllSockets, Start, Call, CallType
  <2>2. QED
    BY <1>3, <2>1 DEF CloseAllSockets, Start, TypeInv, TypeOK, CallOK, PoolAccounting
<1>4. CASE Answer
  BY <1>4, AnswerTypes
<1>5. CASE Dispatch
  <2>1. urcs' \in Seq(Ids)
    BY <1>5, HeadTailProperties DEF Dispatch, TypeInv, TypeOK
  <2>2. sock' \in [Slots -> SocketType]
    BY <1>5, MarkClosedType DEF Dispatch, TypeInv, TypeOK
  <2>3. QED
    BY <1>5, <2>1, <2>2 DEF Dispatch, TypeInv, TypeOK, CallOK, PoolAccounting
<1>6. CASE \E id \in Ids : RemoteClose(id)
  <2>1. PICK id \in Ids : RemoteClose(id)
    BY <1>6
  <2>2. urcs' \in Seq(Ids)
    BY <2>1, AppendProperties DEF RemoteClose, TypeInv, TypeOK
  <2>3. modem' \in [Ids -> {"free", "open", "shut"}]
    BY <2>1 DEF RemoteClose, TypeInv, TypeOK
  <2>4. QED
    BY <2>1, <2>2, <2>3 DEF RemoteClose, TypeInv, TypeOK, CallOK, PoolAccounting
<1>7. CASE Crash
  <2>1. RxOK'
    <3>1. rxbuf' = [id \in Ids |-> FALSE] /\ pool' = 0
      BY <1>7 DEF Crash
    <3>2. Held' = {}
      BY <3>1 DEF Held
    <3>3. QED
      BY <3>1, <3>2, FS_EmptySet DEF RxOK, PoolAccounting, Held
  <2>2. at' \in CallType /\ at'.pc = "list"
    BY <1>7 DEF Crash, Call, CallType, NoSlot, NoId
  <2>3. sock' \in [Slots -> SocketType]
    BY <1>7 DEF Crash, SocketType, Free, NoId
  <2>4. urcs' \in Seq(Ids)
    BY <1>7 DEF Crash
  <2>5. QED
    BY <1>7, <2>1, <2>2, <2>3, <2>4
    DEF Crash, RxOK, TypeInv, TypeOK, CallOK, NoSession, BoundsAssumption
<1>8. CASE UNCHANGED vars
  BY <1>8 DEF vars, TypeInv, TypeOK, CallOK, PoolAccounting
<1>9. QED
  BY <1>1, <1>2, <1>3, <1>4, <1>5, <1>6, <1>7, <1>8 DEF Next

LEMMA TypeInvariant == Spec => []TypeInv
<1>1. QED
  BY TypeInit, TypeStep, PTL DEF Spec

\* Every reachable state is well typed; pool never counts below zero, whatever
\* the order of creates, failed creates, closes and restarts.
THEOREM TypeCorrect == Spec => []TypeOK
<1>1. TypeInv => TypeOK
  BY DEF TypeInv
<1>2. QED
  BY <1>1, TypeInvariant, PTL

\* The pool counts exactly the blocks _rx_buf[] points to, in every reachable state.
THEOREM PoolAccounted == Spec => []PoolAccounting
<1>1. TypeInv => PoolAccounting
  BY DEF TypeInv
<1>2. QED
  BY <1>1, TypeInvariant, PTL

\* allocate_rx_buffer() never finds the pool exhausted: with one block for every
\* modem id, an id without a buffer implies a free block.
THEOREM RxAllocationSucceeds == Spec => [](\A id \in Ids : CanAllocateRx(id))
<1>1. ASSUME TypeInv, NEW id \in Ids
      PROVE  CanAllocateRx(id)
  <2>1. CASE rxbuf[id]
    BY <2>1 DEF CanAllocateRx
  <2>2. CASE ~rxbuf[id]
    <3>1. Held \in SUBSET Ids /\ Held # Ids
      BY <2>2 DEF Held
    <3>2. Cardinality(Held) <= Cardinality(Ids) /\ Cardinality(Held) # Cardinality(Ids)
      BY <3>1, IdsFinite, FS_Subset
    <3>3. Cardinality(Ids) = MaxSockets
      BY MaxSocketsAssumption, FS_Interval DEF Ids
    <3>4. pool < MaxSockets
      BY <1>1, <3>2, <3>3, HeldFinite, MaxSocketsAssumption DEF TypeInv, PoolAccounting, Held
    <3>5. QED
      BY <3>4 DEF CanAllocateRx
  <2>3. QED
    BY <2>1, <2>2
<1>2. TypeInv => \A id \in Ids : CanAllocateRx(id)
  BY <1>1
<1>3. QED
  BY <1>2, TypeInvariant, PTL

-----------------------------------------------------------------------------
(* How long a call keeps the AT lock.                                        *)

LEMMA TodoFinite ==
  ASSUME NEW todo \in SUBSET Ids
  PROVE  IsFiniteSet(todo) /\ Cardinality(todo) \in 0 .. MaxSockets
<1>1. IsFiniteSet(todo) /\ Cardinality(todo) <= Cardinality(Ids)
  BY IdsFinite, FS_Subset
<1>2. Cardinality(Ids) = MaxSockets
  BY MaxSocketsAssumption, FS_Interval DEF Ids
<1>3. Cardinality(todo) \in Nat
  BY <1>1, FS_CardinalityType
<1>4. QED
  BY <1>1, <1>2, <1>3, MaxSocketsAssumption

\* The answers the holder of the AT lock still waits for, at most, and the rounds
\* of close_all_sockets() before it.
AnswersLeft ==
  CASE at.pc = "free"     -> 0
    [] at.pc = "connect"  -> 1
    [] at.pc = "create"   -> 2
    [] at.pc = "close"    -> 3
    [] at.pc = "sweep"    -> 1 + 2 * (MaxSockets - at.id)
    [] at.pc = "sweeping" -> 2 * (MaxSockets - at.id)
    [] at.pc = "reap"     -> Cardinality(at.todo)
    [] at.pc = "list"     -> 1 + MaxSockets

\* A hold of the AT lock is bounded: closes of the network, URCs and sockets that
\* are opened meanwhile do not lengthen a sweep, a reap or a reopen.
HoldShortens ==
  [][at.pc # "free" /\ crashes' = crashes =>
       AnswersLeft' \in 0 .. AnswersLeft /\ (Answer => AnswersLeft' # AnswersLeft)]_vars

\* AnswersLeft, position by position.
LeftIs ==
  /\ at.pc = "free"     => AnswersLeft = 0
  /\ at.pc = "connect"  => AnswersLeft = 1
  /\ at.pc = "create"   => AnswersLeft = 2
  /\ at.pc = "close"    => AnswersLeft = 3
  /\ at.pc = "sweep"    => AnswersLeft = 1 + 2 * (MaxSockets - at.id)
  /\ at.pc = "sweeping" => AnswersLeft = 2 * (MaxSockets - at.id)
  /\ at.pc = "reap"     => AnswersLeft = Cardinality(at.todo)
  /\ at.pc = "list"     => AnswersLeft = 1 + MaxSockets

LEMMA LeftCases == LeftIs
BY DEF LeftIs, AnswersLeft

LEMMA LeftIsNatural == TypeInv => AnswersLeft \in Nat
<1> SUFFICES ASSUME TypeInv PROVE AnswersLeft \in Nat
  OBVIOUS
<1>1. Cardinality(at.todo) \in Nat /\ MaxSockets \in Nat
  BY TodoFinite, MaxSocketsAssumption DEF TypeInv, TypeOK, CallType
<1>2. CASE at.pc \in {"sweep", "sweeping"}
  <2>1. at.id \in 0 .. MaxSockets
    BY <1>2, IdNotSpecial DEF TypeInv, CallOK
  <2>2. AnswersLeft \in {1 + 2 * (MaxSockets - at.id), 2 * (MaxSockets - at.id)}
    BY <1>2, LeftCases DEF LeftIs
  <2>3. QED
    BY <1>1, <2>1, <2>2
<1>3. CASE at.pc \notin {"sweep", "sweeping"}
  <2>1. AnswersLeft \in {0, 1, 2, 3, Cardinality(at.todo), 1 + MaxSockets}
    BY <1>3, LeftCases DEF LeftIs, TypeInv, TypeOK, CallType
  <2>2. QED
    BY <1>1, <2>1
<1>4. QED
  BY <1>2, <1>3

LEMMA FreeLeavesNone == at' = Unlocked => AnswersLeft' = 0
<1>1. LeftIs'
  BY LeftCases, PTL
<1>2. QED
  BY <1>1 DEF LeftIs, Unlocked, Call

\* The reap has closed one of the listed sockets, or got the list.
LEMMA ReapLeaves ==
  ASSUME NEW todo \in SUBSET Ids, at' = ReapCall(todo)
  PROVE  AnswersLeft' = Cardinality(todo)
<1>1. CASE todo = {}
  BY <1>1, FreeLeavesNone, FS_EmptySet DEF ReapCall
<1>2. CASE todo # {}
  <2>1. at'.pc = "reap" /\ at'.todo = todo
    BY <1>2 DEF ReapCall, Call
  <2>2. LeftIs'
    BY LeftCases, PTL
  <2>3. QED
    BY <2>1, <2>2 DEF LeftIs
<1>3. QED
  BY <1>1, <1>2

\* Each answer and each round, from where the call stands.
LEMMA AnswerShortens ==
  ASSUME TypeInv, TypeInv', Answer
  PROVE  AnswersLeft' \in 0 .. (AnswersLeft - 1)
<1>0. LeftIs /\ LeftIs'
  BY LeftCases, PTL
<1>1. AnswersLeft \in Nat /\ MaxSockets \in Nat
  BY LeftIsNatural, MaxSocketsAssumption
<1>2. ASSUME at.pc \in {"create", "connect", "close"}, at' = Unlocked
      PROVE  AnswersLeft' \in 0 .. (AnswersLeft - 1)
  <2>1. AnswersLeft \in {1, 2, 3} /\ AnswersLeft' = 0
    BY <1>0, <1>2, FreeLeavesNone DEF LeftIs
  <2>2. QED
    BY <2>1
<1>3. CASE CreateDone
  <2>1. PICK id \in Ids : at' = IF at.why = "connect"
                                THEN Call("connect", at.slot, id, "connect") ELSE Unlocked
    BY <1>3 DEF CreateDone
  <2>2. at.pc = "create"
    BY <1>3 DEF CreateDone, Answered
  <2>3. CASE at.why = "connect"
    <3>1. at'.pc = "connect"
      BY <2>1, <2>3, CallFields
    <3>2. AnswersLeft = 2 /\ AnswersLeft' = 1
      BY <1>0, <2>2, <3>1 DEF LeftIs
    <3>3. QED
      BY <3>2
  <2>4. CASE at.why # "connect"
    BY <1>2, <2>1, <2>2, <2>4
  <2>5. QED
    BY <2>3, <2>4
<1>4. CASE CreateFails \/ ConnectDone
  BY <1>2, <1>4 DEF CreateFails, ConnectDone, Answered
<1>5. CASE CloseDone
  <2>1. at.pc = "close"
    BY <1>5 DEF CloseDone, Answered
  <2>2. CASE at' = Call("create", at.slot, NoId, "reopen")
    <3>1. at'.pc = "create"
      BY <2>2, CallFields
    <3>2. AnswersLeft = 3 /\ AnswersLeft' = 2
      BY <1>0, <2>1, <3>1 DEF LeftIs
    <3>3. QED
      BY <3>2
  <2>3. QED
    BY <1>2, <1>5, <2>1, <2>2 DEF CloseDone, AfterClose
<1>6. CASE SweepNext
  <2>1. at.pc = "sweep" /\ at.id \in 0 .. MaxSockets
    BY <1>6 DEF SweepNext, TypeInv, CallOK
  <2>2. AnswersLeft = 1 + 2 * (MaxSockets - at.id)
    BY <1>0, <2>1 DEF LeftIs
  <2>3. CASE at' = Unlocked
    BY <1>1, <2>1, <2>2, <2>3, FreeLeavesNone
  <2>4. CASE at.id # MaxSockets /\ at' = [at EXCEPT !.id = @ + 1]
    <3>1. at'.pc = "sweep" /\ at'.id = at.id + 1
      BY <2>1, <2>4 DEF TypeInv, TypeOK, CallType
    <3>2. AnswersLeft' = 1 + 2 * (MaxSockets - (at.id + 1))
      BY <1>0, <3>1 DEF LeftIs
    <3>3. QED
      BY <1>1, <2>1, <2>2, <2>4, <3>2
  <2>5. CASE at.id # MaxSockets /\ at' = [at EXCEPT !.pc = "sweeping"]
    <3>1. at'.pc = "sweeping" /\ at'.id = at.id
      BY <2>1, <2>5 DEF TypeInv, TypeOK, CallType
    <3>2. AnswersLeft' = 2 * (MaxSockets - at.id)
      BY <1>0, <3>1 DEF LeftIs
    <3>3. QED
      BY <1>1, <2>1, <2>2, <2>5, <3>2
  <2>6. QED
    BY <1>6, <2>3, <2>4, <2>5 DEF SweepNext
<1>7. CASE SweepDone
  <2>1. at.pc = "sweeping" /\ at.id \in 0 .. MaxSockets - 1
    BY <1>7 DEF SweepDone, Answered, TypeInv, CallOK, Ids
  <2>2. at'.pc = "sweep" /\ at'.id = at.id + 1
    BY <1>7 DEF SweepDone, TypeInv, TypeOK, CallType
  <2>3. /\ AnswersLeft = 2 * (MaxSockets - at.id)
        /\ AnswersLeft' = 1 + 2 * (MaxSockets - (at.id + 1))
    BY <1>0, <2>1, <2>2 DEF LeftIs
  <2>4. QED
    BY <1>1, <2>1, <2>3
<1>8. CASE ReapList
  <2>1. PICK todo \in SUBSET Ids : at' = ReapCall(todo)
    BY <1>8 DEF ReapList, LiveIds
  <2>2. AnswersLeft' = Cardinality(todo) /\ Cardinality(todo) \in 0 .. MaxSockets
    BY <2>1, ReapLeaves, TodoFinite
  <2>3. AnswersLeft = 1 + MaxSockets
    BY <1>0, <1>8 DEF ReapList, Answered, LeftIs
  <2>4. QED
    BY <1>1, <2>2, <2>3
<1>9. CASE ReapClose
  <2>1. PICK id \in at.todo : at' = ReapCall(at.todo \ {id})
    BY <1>9 DEF ReapClose
  <2>2. at.todo \in SUBSET Ids /\ at.todo \ {id} \in SUBSET Ids
    BY DEF TypeInv, TypeOK, CallType
  <2>3. AnswersLeft' = Cardinality(at.todo \ {id}) /\ Cardinality(at.todo \ {id}) \in Nat
    BY <2>1, <2>2, ReapLeaves, TodoFinite
  <2>4. Cardinality(at.todo \ {id}) = Cardinality(at.todo) - 1
    BY <2>1, <2>2, TodoFinite, FS_RemoveElement
  <2>5. AnswersLeft = Cardinality(at.todo)
    BY <1>0, <1>9 DEF ReapClose, Answered, LeftIs
  <2>6. QED
    BY <1>1, <2>3, <2>4, <2>5
<1>10. QED
  BY <1>3, <1>4, <1>5, <1>6, <1>7, <1>8, <1>9 DEF Answer

LEMMA HoldShorter ==
  ASSUME TypeInv, [Next]_vars, at.pc # "free", crashes' = crashes
  PROVE  AnswersLeft' \in 0 .. AnswersLeft /\ (Answer => AnswersLeft' # AnswersLeft)
<1>1. AnswersLeft \in Nat
  BY LeftIsNatural
<1>2. CASE Answer
  <2>1. AnswersLeft' \in 0 .. (AnswersLeft - 1)
    BY <1>2, TypeStep, AnswerShortens
  <2>2. QED
    BY <1>1, <2>1
<1>3. CASE ~Answer
  <2>1. ~Crash
    BY BoundsAssumption DEF Crash, TypeInv, TypeOK
  <2>2. UNCHANGED at
    BY <1>3, <2>1 DEF Next, SlotCall, SocketOpen, OpenSession, OpenSlot, Connect, FirstRecv,
       Close, FirstSend, SendOtherFamily, Start, CloseSession, CloseAllSockets, Dispatch,
       RemoteClose, vars
  <2>3. AnswersLeft' = AnswersLeft
    BY <2>2 DEF AnswersLeft
  <2>4. QED
    BY <1>1, <1>3, <2>3
<1>4. QED
  BY <1>2, <1>3

\* No call keeps the AT lock for more than 3 answers, a sweep for more than two
\* steps per modem id, the reap of the constructor for more than one answer per
\* modem id after its list: a fault, a URC, a socket opened or a connection ended
\* meanwhile does not lengthen it (close_all_sockets, reap_orphan_sockets).
THEOREM HoldBounded == Spec => HoldShortens
<1>1. TypeInv /\ [Next]_vars =>
        [at.pc # "free" /\ crashes' = crashes =>
           AnswersLeft' \in 0 .. AnswersLeft /\ (Answer => AnswersLeft' # AnswersLeft)]_vars
  BY HoldShorter
<1>2. QED
  BY <1>1, TypeInvariant, PTL DEF Spec, HoldShortens
-----------------------------------------------------------------------------
(* What close_all_sockets() leaves open.  SweepLeavesNone does not hold;     *)
(* this is what does.                                                        *)

LEMMA LeastExists ==
  ASSUME NEW T, T \subseteq Nat, T # {}
  PROVE  \E x \in T : \A y \in T : x <= y
<1> DEFINE R == OpToRel(<, Nat)
<1>1. IsWellFoundedOn(R, Nat)
  BY NatLessThanWellFounded
<1>2. ASSUME NEW x \in Nat, NEW y \in Nat, y < x PROVE <<y, x>> \in R
  BY <1>2 DEF OpToRel
<1> HIDE DEF R
<1>3. PICK x \in T : \A y \in T : ~(<<y, x>> \in R)
  BY <1>1, WFMin
<1>4. ASSUME NEW y \in T PROVE x <= y
  <2>1. x \in Nat /\ y \in Nat
    OBVIOUS
  <2>2. ~(y < x)
    BY <1>2, <1>3, <2>1
  <2>3. QED
    BY <2>1, <2>2
<1>5. QED
  BY <1>4

\* find_socket() returns an entry with the id whenever there is one.
LEMMA FindSocketHolds ==
  ASSUME NEW id, Holders(id) # {}
  PROVE  FindSocket(id) \in Holders(id)
<1>1. Holders(id) \subseteq Nat
  BY SocketCountAssumption DEF Holders, Slots
<1>2. \E s \in Holders(id) : \A t \in Holders(id) : s <= t
  BY <1>1, LeastExists
<1>3. QED
  BY <1>2 DEF FindSocket

\* After a sweep whose commands were all answered, an open modem socket is one the
\* sweep could not see: the first table entry with its id is marked closed.
SweepLeavesOnlyHidden ==
  [][at.pc = "sweep" /\ at'.pc = "free" /\ faults = 0
       => \A id \in Ids : modem[id] = "open" => SkipsClose(id)]_vars

\* The ids a sweep has passed.
SweepInv ==
  at.pc \in {"sweep", "sweeping"} /\ faults = 0 =>
    \A id \in Ids : id < at.id /\ modem[id] = "open" => SkipsClose(id)

\* What is skipped stays so while the table keeps its ids and its marks.
LEMMA SkipsStays ==
  ASSUME NEW id, SkipsClose(id), Holders(id)' = Holders(id),
         \A s \in Slots : sock[s].used /\ sock[s].closed => sock'[s].closed
  PROVE  SkipsClose(id)'
<1>1. FindSocket(id) \in Holders(id) /\ sock[FindSocket(id)].closed
  BY FindSocketHolds DEF SkipsClose
<1>2. FindSocket(id)' = FindSocket(id)
  BY DEF FindSocket
<1>3. FindSocket(id) \in Slots /\ sock[FindSocket(id)].used
  BY <1>1 DEF Holders
<1>4. sock'[FindSocket(id)].closed
  BY <1>1, <1>3
<1>5. QED
  BY <1>2, <1>4 DEF SkipsClose

\* Neither a socket that is opened nor a mark disturbs a sweep.
LEMMA OpenSlotKeeps ==
  ASSUME TypeOK, NEW s \in Slots, NEW p, NEW u, ~sock[s].used,
         sock' = [sock EXCEPT ![s] = Socket(p, u)]
  PROVE  /\ \A id \in Ids : Holders(id)' = Holders(id)
         /\ \A t \in Slots : sock[t].used /\ sock[t].closed => sock'[t].closed
<1>1. sock'[s].id = NoId /\ \A t \in Slots : t # s => sock'[t] = sock[t]
  BY DEF TypeOK, Socket
<1>2. ASSUME NEW id \in Ids PROVE Holders(id)' = Holders(id)
  BY <1>1, IdNotSpecial DEF Holders
<1>3. QED
  BY <1>1, <1>2

LEMMA MarkKeeps ==
  ASSUME TypeOK, NEW i, sock' = [sock EXCEPT ![i].closed = TRUE] \/ sock' = sock
  PROVE  /\ \A id \in Ids : Holders(id)' = Holders(id)
         /\ \A t \in Slots : sock[t].used /\ sock[t].closed => sock'[t].closed
<1>1. \A t \in Slots : sock'[t].used = sock[t].used /\ sock'[t].id = sock[t].id
  BY DEF TypeOK, SocketType
<1>2. \A t \in Slots : sock[t].closed => sock'[t].closed
  BY DEF TypeOK, SocketType
<1>3. QED
  BY <1>1, <1>2 DEF Holders

\* A step that leaves the sweep where it is and opens nothing.
LEMMA SweepQuiet ==
  ASSUME TypeOK, SweepInv, UNCHANGED <<at, faults>>,
         \A id \in Ids : modem'[id] = "open" => modem[id] = "open",
         \A id \in Ids : Holders(id)' = Holders(id),
         \A t \in Slots : sock[t].used /\ sock[t].closed => sock'[t].closed
  PROVE  SweepInv'
<1> SUFFICES ASSUME at.pc \in {"sweep", "sweeping"}, faults = 0, NEW id \in Ids,
                    id < at.id, modem'[id] = "open"
             PROVE  SkipsClose(id)'
  BY DEF SweepInv
<1>1. SkipsClose(id)
  BY DEF SweepInv
<1>2. QED
  BY <1>1, SkipsStays

LEMMA SweepAdvances ==
  ASSUME TypeInv, SweepInv, SweepNext
  PROVE  /\ SweepInv'
         /\ at'.pc = "free" /\ faults = 0 => \A id \in Ids : modem[id] = "open" => SkipsClose(id)
<1>1. at.pc = "sweep" /\ at.id \in 0 .. MaxSockets /\ UNCHANGED <<sock, modem, faults>>
  BY DEF SweepNext, TypeInv, CallOK
<1>2. \A id \in Ids : SkipsClose(id)' = SkipsClose(id)
  BY <1>1 DEF SkipsClose, FindSocket, Holders
<1>3. CASE at.id = MaxSockets
  <2>1. at'.pc = "free"
    BY <1>3 DEF SweepNext, Unlocked, Call
  <2>2. \A id \in Ids : id < at.id
    BY <1>3, MaxSocketsAssumption DEF Ids
  <2>3. QED
    BY <1>1, <2>1, <2>2 DEF SweepInv
<1>4. CASE at.id # MaxSockets /\ SkipsClose(at.id)
  <2>1. at' = [at EXCEPT !.id = @ + 1]
    BY <1>4 DEF SweepNext
  <2>2. at'.pc = "sweep" /\ at'.id = at.id + 1
    BY <1>1, <2>1 DEF TypeInv, TypeOK, CallType
  <2>3. \A id \in Ids : id < at.id + 1 => id < at.id \/ id = at.id
    BY <1>1, MaxSocketsAssumption DEF Ids
  <2>4. QED
    BY <1>1, <1>2, <1>4, <2>2, <2>3 DEF SweepInv
<1>5. CASE at.id # MaxSockets /\ ~SkipsClose(at.id)
  <2>1. at' = [at EXCEPT !.pc = "sweeping"]
    BY <1>5 DEF SweepNext
  <2>2. at'.pc = "sweeping" /\ at'.id = at.id
    BY <2>1 DEF TypeInv, TypeOK, CallType
  <2>3. QED
    BY <1>1, <1>2, <2>2 DEF SweepInv
<1>6. QED
  BY <1>3, <1>4, <1>5

\* An answered close frees the id, or finds it free.
LEMMA SweepCloses == ASSUME TypeInv, SweepInv, SweepDone PROVE SweepInv'
<1>1. at.pc = "sweeping" /\ at.id \in Ids
  BY DEF SweepDone, Answered, TypeInv, CallOK
<1>2. PICK ok \in BOOLEAN :
        /\ ModemClose(at.id, ok)
        /\ \/ sock' = [sock EXCEPT ![FindSocket(at.id)].closed = TRUE]
           \/ sock' = sock
  BY DEF SweepDone
<1>3. at'.id = at.id + 1
  BY DEF SweepDone, TypeInv, TypeOK, CallType
<1> SUFFICES ASSUME faults' = 0, NEW id \in Ids, id < at.id + 1, modem'[id] = "open"
             PROVE  SkipsClose(id)'
  BY <1>3 DEF SweepInv
<1>4. faults = 0 /\ modem[id] = "open" /\ id # at.id
  BY <1>1, <1>2 DEF ModemClose, TypeInv, TypeOK
<1>5. id < at.id
  BY <1>1, <1>4, MaxSocketsAssumption DEF Ids
<1>6. SkipsClose(id)
  BY <1>1, <1>4, <1>5 DEF SweepInv
<1>7. /\ Holders(id)' = Holders(id)
      /\ \A t \in Slots : sock[t].used /\ sock[t].closed => sock'[t].closed
  BY <1>2, MarkKeeps DEF TypeInv
<1>8. QED
  BY <1>6, <1>7, SkipsStays

LEMMA SweepStep == TypeInv /\ SweepInv /\ [Next]_vars => SweepInv'
<1> SUFFICES ASSUME TypeInv, SweepInv, [Next]_vars PROVE SweepInv'
  OBVIOUS
<1> TypeOK
  BY DEF TypeInv
<1>1. ASSUME at'.pc \notin {"sweep", "sweeping"} PROVE SweepInv'
  BY <1>1 DEF SweepInv
<1>2. CASE \E s \in Slots : SlotCall(s)
  <2>1. PICK s \in Slots : SlotCall(s)
    BY <1>2
  <2>2. CASE (\E p \in Protocols : SocketOpen(s, p)) \/ OpenSession(s)
    <3>1. PICK p, u : ~sock[s].used /\ sock' = [sock EXCEPT ![s] = Socket(p, u)]
      BY <2>2 DEF SocketOpen, OpenSession, OpenSlot
    <3>2. UNCHANGED <<modem, at, faults>>
      BY <2>2 DEF SocketOpen, OpenSession, OpenSlot
    <3>3. QED
      BY <3>1, <3>2, OpenSlotKeeps, SweepQuiet
  <2>3. CASE Connect(s) \/ FirstRecv(s) \/ Close(s)
    BY <1>1, <2>3 DEF Connect, FirstRecv, Close, Start, Call
  <2>4. CASE \E f \in Families : FirstSend(s, f) \/ SendOtherFamily(s, f)
    BY <1>1, <2>4 DEF FirstSend, SendOtherFamily, Start, Call
  <2>5. QED
    BY <2>1, <2>2, <2>3, <2>4 DEF SlotCall
<1>3. CASE CloseSession
  BY <1>1, <1>3 DEF CloseSession, Call
<1>4. CASE CloseAllSockets
  <2>1. at'.id = 0
    BY <1>4 DEF CloseAllSockets, Start, Call
  <2>2. \A id \in Ids : ~(id < 0)
    BY MaxSocketsAssumption DEF Ids
  <2>3. QED
    BY <2>1, <2>2 DEF SweepInv
<1>5. CASE CreateDone \/ CreateFails \/ ConnectDone \/ CloseDone
  <2>1. \/ at' = Unlocked
        \/ \E id : at' = Call("connect", at.slot, id, "connect")
        \/ at' = Call("create", at.slot, NoId, "reopen")
    BY <1>5 DEF CreateDone, CreateFails, ConnectDone, CloseDone, AfterClose
  <2>2. at'.pc \notin {"sweep", "sweeping"}
    BY <2>1 DEF Unlocked, Call
  <2>3. QED
    BY <1>1, <2>2
<1>6. CASE SweepNext
  BY <1>6, SweepAdvances
<1>7. CASE SweepDone
  BY <1>7, SweepCloses
<1>8. CASE ReapList \/ ReapClose
  <2>1. PICK todo : at' = ReapCall(todo)
    BY <1>8 DEF ReapList, ReapClose
  <2>2. at'.pc \notin {"sweep", "sweeping"}
    BY <2>1 DEF ReapCall, Unlocked, Call
  <2>3. QED
    BY <1>1, <2>2
<1>9. CASE Dispatch
  <2>1. UNCHANGED <<modem, at, faults>>
        /\ (sock' = [sock EXCEPT ![FindSocket(Head(urcs))].closed = TRUE] \/ sock' = sock)
    BY <1>9 DEF Dispatch
  <2>2. QED
    BY <2>1, MarkKeeps, SweepQuiet
<1>10. CASE \E id \in Ids : RemoteClose(id)
  <2>1. PICK id \in Ids, m \in {"free", "shut"} :
          modem' = [modem EXCEPT ![id] = m] /\ UNCHANGED <<sock, at, faults>>
    BY <1>10 DEF RemoteClose
  <2>2. \A i \in Ids : modem'[i] = "open" => modem[i] = "open"
    BY <2>1 DEF TypeOK
  <2>3. \A i \in Ids : Holders(i)' = Holders(i)
    BY <2>1 DEF Holders
  <2>4. QED
    BY <2>1, <2>2, <2>3, SweepQuiet
<1>11. CASE Crash
  BY <1>1, <1>11 DEF Crash, Call
<1>12. CASE UNCHANGED vars
  BY <1>12, SweepQuiet DEF vars, Holders
<1>13. QED
  BY <1>2, <1>3, <1>4, <1>5, <1>6, <1>7, <1>8, <1>9, <1>10, <1>11, <1>12 DEF Next, Answer

\* Whatever was opened, closed by its peer or left behind by earlier sweeps before it,
\* and whatever happens during it: close_all_sockets() closes every modem socket but
\* those it takes for closed already, because an older table entry that kept the
\* same id is marked closed (close_all_sockets, find_socket).
THEOREM SweepClosesVisible == Spec => SweepLeavesOnlyHidden
<1>1. Init => SweepInv
  BY DEF Init, SweepInv, Call
<1>2. TypeInv /\ SweepInv /\ [Next]_vars =>
        [at.pc = "sweep" /\ at'.pc = "free" /\ faults = 0
           => \A id \in Ids : modem[id] = "open" => SkipsClose(id)]_vars
  <2>1. ASSUME TypeInv, Next, at.pc = "sweep", at'.pc = "free"
        PROVE  SweepNext
    BY <2>1 DEF Next, SlotCall, SocketOpen, OpenSession, OpenSlot, Connect, FirstRecv,
       Close, FirstSend, SendOtherFamily, Start, CloseSession, CloseAllSockets, Answer, Answered,
       CreateDone, CreateFails, ConnectDone, CloseDone, SweepDone, ReapList, ReapClose, Dispatch,
       RemoteClose, Crash, Call
  <2>2. QED
    BY <2>1, SweepAdvances
<1>3. QED
  BY <1>1, <1>2, SweepStep, TypeInvariant, PTL DEF Spec, SweepLeavesOnlyHidden
=============================================================================
