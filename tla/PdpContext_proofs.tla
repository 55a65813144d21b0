-------------------------- MODULE PdpContext_proofs --------------------------
(***************************************************************************)
(* For every set of contexts and every history of failed commands, attach  *)
(* and loss of contexts: the state stays within its types, the pass over   *)
(* the lines of +CGDCONT? has the best context, no active one is defined   *)
(* anew, _ip_configured is true of its context, and the stack follows.     *)
(***************************************************************************)
EXTENDS PdpContext, FiniteSetTheorems, TLAPS

\* The rank of c on its own line.
RankIn(found, def, c) ==
  IF c \in found THEN (IF c = 5 THEN 0 ELSE IF c = 6 THEN 1 ELSE 2)
  ELSE IF HasApn /\ def[c] = "own" THEN 3 ELSE 10

Seen == Listed \ conn.todo

\* The AT lock: creation of a socket and get_context() exclude each other.
LockInv == ~(Connecting /\ Creating) /\ (Creating => stack \in Cids)

\* What the pass over the lines has chosen so far.  A context that the modem
\* attached after the answer counts as seen; its rank is 10.
LineInv ==
  conn.pc = "line" =>
    /\ conn.todo \subseteq Listed
    /\ \A s \in Seen, t \in conn.todo : RankIn(conn.found, defined, s) = 10 \/ s < t
    /\ conn.cid = NoCid => \A s \in Seen : RankIn(conn.found, defined, s) = 10
    /\ conn.cid # NoCid =>
         /\ conn.cid \in Seen
         /\ RankIn(conn.found, defined, conn.cid) < 7
         /\ \A s \in Seen :
              \/ RankIn(conn.found, defined, conn.cid) < RankIn(conn.found, defined, s)
              \/ RankIn(conn.found, defined, conn.cid) = RankIn(conn.found, defined, s) /\ conn.cid <= s

\* What is active or named by a command is defined; without a failure CID 5 and 6
\* are looked at only if nothing was active.
FoundInv ==
  /\ active \subseteq Listed /\ conn.found \subseteq Listed
  /\ conn.pc \in {"reuse?", "cgdcont="} /\ faults = 0 => conn.found = {}
  /\ conn.pc \in {"active?", "cgdcont="} => conn.cid \in Listed
  /\ conn.pc = "cgact=" => cid \in Listed

IpInv == ipcfg.cid # NoCid => ipcfg.cid \in ip

\* Nothing is chosen before the first line.
CidInv == conn.pc \in {"off", "up", "cgact?", "cgdcont?"} => conn.cid = NoCid

Inv == TypeOK /\ LockInv /\ LineInv /\ FoundInv /\ IpInv /\ CidInv

-----------------------------------------------------------------------------
LEMMA RankValues ==
  \A c, l \in Cids :
    /\ Rank(c, c) = RankIn(conn.found, defined, c)
    /\ RankIn(conn.found, defined, c) \in {0, 1, 2, 3, 10}
    /\ c \in conn.found => Rank(c, l) = RankIn(conn.found, defined, c)
    /\ c \in conn.found => RankIn(conn.found, defined, c) < 3
    /\ c \notin conn.found => Rank(c, l) = IF HasApn /\ defined[l] = "own" THEN 3 ELSE 10
BY DEF Rank, RankIn

LEMMA InitInv == Init => Inv
BY CidsAssumption, BoundsAssumption
   DEF Init, Inv, TypeOK, ModemTypeOK, ConnTypeOK, HostTypeOK, LockInv, LineInv, FoundInv, IpInv, CidInv, Idle, Cid, Connecting, Creating,
       Listed, NoCid, NoStack

\* The counters.
LEMMA CounterSteps ==
  ASSUME TypeOK, [Next]_vars PROVE events' \in 0 .. MaxEvents /\ faults' \in 0 .. MaxFaults
<1>1. events' = events \/ (events < MaxEvents /\ events' = events + 1)
  BY DEF Next, ContextStep, StackStep, Attach, Drop, GetContext, ActiveListed, ContextsListed,
     LineRead, LinesEnd, ReuseListed, BaseGetContext, Reconfigured, Selected, Activated,
     Deactivated, Disconnect, GetStack, StackGot, CreateSocket, IpQueried, AddressQueried,
     IpSet, vars
<1>2. Ok \/ Fault
  BY DEF Next, ContextStep, StackStep, Attach, Drop, GetContext, ActiveListed, ContextsListed,
     LineRead, LinesEnd, ReuseListed, BaseGetContext, Reconfigured, Selected, Chosen, Activated,
     Deactivated, Disconnect, GetStack, StackGot, CreateSocket, IpQueried, AddressQueried,
     IpSet, vars, Ok
<1>3. QED
  BY <1>1, <1>2, BoundsAssumption DEF Ok, Fault, TypeOK

\* The modem's contexts.
LEMMA ModemSteps == ASSUME TypeOK, LockInv, [Next]_vars PROVE ModemTypeOK'
<1> USE DEF TypeOK, ModemTypeOK
<1>1. CASE UNCHANGED modem
  BY <1>1 DEF modem
<1>2. ASSUME NEW c \in AutoCids, Attach(c) PROVE ModemTypeOK'
  <2>1. c \in Cids /\ active' = active \cup {c} /\ ip' \in {ip, ip \cup {c}}
    BY <1>2, CidsAssumption DEF Attach
  <2>2. defined' \in [Cids -> {"none", "own", "other"}]
    BY <1>2, <2>1 DEF Attach
  <2>3. QED
    BY <2>1, <2>2
<1>3. ASSUME NEW C \in SUBSET active, Drop(C) PROVE ModemTypeOK'
  BY <1>3 DEF Drop, GoDown
<1>4. CASE BaseGetContext
  BY <1>4 DEF BaseGetContext, Define, Own
<1>5. CASE Reconfigured
  BY <1>5 DEF Reconfigured, Own, ConnTypeOK
<1>6. CASE Activated
  BY <1>6 DEF Activated, HostTypeOK
<1>7. CASE Deactivated
  BY <1>7 DEF Deactivated, GoDown
<1>8. CASE IpSet
  BY <1>8 DEF IpSet, HostTypeOK
<1>9. CASE \/ GetContext \/ ActiveListed \/ ContextsListed \/ LineRead \/ LinesEnd
           \/ ReuseListed \/ Selected \/ Disconnect \/ UNCHANGED vars
  BY <1>9, <1>1 DEF GetContext, ActiveListed, ContextsListed, LineRead, LinesEnd, ReuseListed,
     Selected, Disconnect, vars
<1>10. CASE GetStack \/ StackGot \/ CreateSocket \/ IpQueried \/ AddressQueried
  BY <1>10, <1>1 DEF GetStack, StackGot, CreateSocket, IpQueried, AddressQueried
<1>11. QED
  BY <1>2, <1>3, <1>4, <1>5, <1>6, <1>7, <1>8, <1>9, <1>10 DEF Next, ContextStep, StackStep

LEMMA LineType ==
  ASSUME ConnTypeOK, conn.pc = "line", NEW c, NEW d \in Cid,
         conn' = [conn EXCEPT !.todo = @ \ {c}, !.cid = d]
  PROVE  ConnTypeOK'
<1>1. conn.todo \ {c} \in SUBSET Cids
  BY DEF ConnTypeOK
<1>2. conn'.pc = "line"
  BY DEF ConnTypeOK
<1>3. QED
  BY <1>1, <1>2 DEF ConnTypeOK

\* connect().
LEMMA ConnSteps == ASSUME TypeOK, [Next]_vars PROVE ConnTypeOK'
<1> USE DEF TypeOK, ConnTypeOK, Return, Idle, Command, Reuse, Select, Cid
<1>1. CASE UNCHANGED conn
  BY <1>1
<1>2. CASE GetContext
  BY <1>2 DEF GetContext
<1>3. CASE ActiveListed
  BY <1>3 DEF ActiveListed, ModemTypeOK
<1>4. CASE ContextsListed
  BY <1>4 DEF ContextsListed, Listed
<1>5. CASE LineRead
  <2>1. PICK c \in conn.todo \cup {NoCid} : \/ conn' = [conn EXCEPT !.todo = @ \ {c}, !.cid = Choose(@, c)]
                                            \/ Reuse
    BY <1>5 DEF LineRead
  <2>2. Choose(conn.cid, c) \in Cid
    BY <2>1 DEF Choose
  <2>3. CASE conn' = [conn EXCEPT !.todo = @ \ {c}, !.cid = Choose(@, c)]
    BY <1>5, <2>2, <2>3, LineType DEF LineRead
  <2>4. CASE Reuse
    BY <2>4
  <2>5. QED
    BY <2>1, <2>3, <2>4
<1>6. CASE LinesEnd
  BY <1>6 DEF LinesEnd
<1>7. CASE ReuseListed
  <2>1. PICK c \in AutoCids : conn' = [conn EXCEPT !.pc = "cgdcont=", !.cid = c]
    BY <1>7 DEF ReuseListed, AutoCids
  <2>2. QED
    BY <2>1, CidsAssumption
<1>8. CASE BaseGetContext
  <2>1. CASE Return("off")
    BY <2>1
  <2>2. ASSUME NEW c \in Cids, conn' = [conn EXCEPT !.pc = "cgact=", !.cid = c]
        PROVE  ConnTypeOK'
    BY <2>2
  <2>3. QED
    BY <1>8, <2>1, <2>2 DEF BaseGetContext, Define, Select
<1>9. CASE Reconfigured
  BY <1>9 DEF Reconfigured
<1>10. CASE Selected
  BY <1>10 DEF Selected, Chosen
<1>11. CASE Activated \/ Disconnect \/ Deactivated
  BY <1>11 DEF Activated, Disconnect, Deactivated
<1>12. QED
  BY <1>1, <1>2, <1>3, <1>4, <1>5, <1>6, <1>7, <1>8, <1>9, <1>10, <1>11
  DEF Next, ContextStep, StackStep, Attach, Drop, GetStack, StackGot, CreateSocket, IpQueried,
     AddressQueried, IpSet, vars

\* The driver's own state.
LEMMA HostSteps == ASSUME TypeOK, LockInv, [Next]_vars PROVE HostTypeOK'
<1> USE DEF TypeOK, HostTypeOK, ConnTypeOK, Return, Idle, Command, Reuse, Select, Cid, host
<1>1. CASE UNCHANGED vars
  BY <1>1 DEF vars
<1>2. ASSUME NEW c \in AutoCids, Attach(c) PROVE HostTypeOK'
  BY <1>2 DEF Attach
<1>3. ASSUME NEW C \in SUBSET active, Drop(C) PROVE HostTypeOK'
  BY <1>3 DEF Drop, GoDown
<1>4. CASE GetContext \/ ActiveListed \/ ContextsListed
  BY <1>4 DEF GetContext, ActiveListed, ContextsListed
<1>5. CASE LineRead \/ LinesEnd
  BY <1>5 DEF LineRead, LinesEnd
<1>6. CASE ReuseListed \/ Reconfigured
  <2>1. conn'.pc \in {"cgdcont=", "active?", "off"}
    <3>1. CASE ReuseListed
      BY <3>1 DEF ReuseListed
    <3>2. CASE Reconfigured
      BY <3>2 DEF Reconfigured
    <3>3. QED
      BY <1>6, <3>1, <3>2
  <2>2. UNCHANGED <<cid, stack, ipcfg, user>>
    BY <1>6 DEF ReuseListed, Reconfigured
  <2>3. QED
    BY <2>1, <2>2
<1>7. CASE BaseGetContext
  <2>1. CASE Return("off") /\ UNCHANGED <<cid, stack>>
    BY <1>7, <2>1 DEF BaseGetContext
  <2>2. ASSUME NEW c \in Cids, cid' = c, SetCid(c) PROVE HostTypeOK'
    BY <1>7, <2>2 DEF BaseGetContext, SetCid
  <2>3. QED
    BY <1>7, <2>1, <2>2 DEF BaseGetContext, Define
<1>8. CASE Selected
  BY <1>8 DEF Selected, Chosen, SetCid
<1>9. CASE Activated \/ Disconnect
  BY <1>9 DEF Activated, Disconnect
<1>10. CASE Deactivated
  BY <1>10 DEF Deactivated, GoDown
<1>11. CASE GetStack \/ StackGot
  BY <1>11 DEF GetStack, StackGot
<1>12. CASE CreateSocket \/ AddressQueried
  BY <1>12 DEF CreateSocket, AddressQueried, UserGo
<1>13. CASE IpQueried
  <2>1. stack \in Cids /\ UNCHANGED <<cid, stack, conn>>
    BY <1>13 DEF IpQueried, LockInv, Creating
  <2>2. ipcfg' = ipcfg \/ ipcfg' = [set |-> TRUE, cid |-> stack]
    BY <1>13 DEF IpQueried, Configured
  <2>3. user' = [user EXCEPT !.pc = "idle"] \/ user' = [user EXCEPT !.pc = "cgpaddr"]
    BY <1>13 DEF IpQueried, Configured, UserGo
  <2>4. ipcfg' \in [set : BOOLEAN, cid : Cid]
    <3>1. stack \in Cids \cup {NoCid} /\ TRUE \in BOOLEAN
      BY <2>1
    <3>2. CASE ipcfg' = [set |-> TRUE, cid |-> stack]
      BY <3>1, <3>2, Zenon
    <3>3. CASE ipcfg' = ipcfg
      BY <3>3
    <3>4. QED
      BY <2>2, <3>2, <3>3
  <2>5. user' \in [pc : {"idle", "stack", "ipcfg?", "cgpaddr", "ipcfg="}, cid : Cid]
    BY <2>3
  <2>6. QED
    BY <2>1, <2>4, <2>5
<1>14. CASE IpSet
  <2>1. stack \in Cids /\ UNCHANGED <<cid, stack, conn>>
    BY <1>14 DEF IpSet, LockInv, Creating
  <2>2. ipcfg' = ipcfg \/ ipcfg' = [set |-> TRUE, cid |-> stack]
    BY <1>14 DEF IpSet, Configured
  <2>3. user' = [user EXCEPT !.pc = "idle"]
    BY <1>14 DEF IpSet, Configured, UserGo
  <2>4. ipcfg' \in [set : BOOLEAN, cid : Cid]
    <3>1. stack \in Cids \cup {NoCid} /\ TRUE \in BOOLEAN
      BY <2>1
    <3>2. CASE ipcfg' = [set |-> TRUE, cid |-> stack]
      BY <3>1, <3>2, Zenon
    <3>3. CASE ipcfg' = ipcfg
      BY <3>3
    <3>4. QED
      BY <2>2, <3>2, <3>3
  <2>5. user' \in [pc : {"idle", "stack", "ipcfg?", "cgpaddr", "ipcfg="}, cid : Cid]
    BY <2>3
  <2>6. QED
    BY <2>1, <2>4, <2>5
<1>15. QED
  BY <1>1, <1>2, <1>3, <1>4, <1>5, <1>6, <1>7, <1>8, <1>9, <1>10, <1>11, <1>12, <1>13, <1>14
  DEF Next, ContextStep, StackStep

-----------------------------------------------------------------------------
\* The AT lock keeps get_context() and the creation of a socket apart.
LEMMA LockSteps == ASSUME TypeOK, LockInv, [Next]_vars PROVE LockInv'
<1> USE DEF LockInv, Connecting, Creating, TypeOK, ConnTypeOK, HostTypeOK, Return, Idle, Command,
            Reuse, Select, host
<1>1. CASE UNCHANGED <<conn, user, stack>>
  BY <1>1
<1>2. CASE GetContext \/ Disconnect
  BY <1>2 DEF GetContext, Disconnect
<1>3. CASE ActiveListed \/ ContextsListed \/ LineRead \/ LinesEnd
  BY <1>3 DEF ActiveListed, ContextsListed, LineRead, LinesEnd
<1>4. CASE ReuseListed \/ Reconfigured
  BY <1>4 DEF ReuseListed, Reconfigured
<1>5. CASE BaseGetContext \/ Selected
  <2>1. conn.pc \in {"reuse?", "active?"} /\ UNCHANGED user
    BY <1>5 DEF BaseGetContext, Selected, Chosen
  <2>2. QED
    BY <2>1
<1>6. CASE Activated \/ Deactivated
  <2>1. conn.pc \in {"cgact=", "cgact=0"} /\ UNCHANGED user
    BY <1>6 DEF Activated, Deactivated
  <2>2. QED
    BY <2>1
<1>7. CASE GetStack \/ StackGot
  BY <1>7 DEF GetStack, StackGot
<1>8. CASE CreateSocket
  BY <1>8 DEF CreateSocket, UserGo
<1>9. CASE IpQueried \/ AddressQueried \/ IpSet
  <2>1. Creating /\ UNCHANGED <<conn, stack>>
    BY <1>9 DEF IpQueried, AddressQueried, IpSet
  <2>2. QED
    BY <2>1
<1>10. QED
  BY <1>1, <1>2, <1>3, <1>4, <1>5, <1>6, <1>7, <1>8, <1>9
  DEF Next, ContextStep, StackStep, Attach, Drop, vars

\* _ip_configured and the modem's IP stacks.
LEMMA IpSteps == ASSUME TypeOK, LockInv, IpInv, [Next]_vars PROVE IpInv'
<1> USE DEF IpInv
<1>1. CASE UNCHANGED <<ip, ipcfg>>
  BY <1>1
<1>2. ASSUME NEW c \in AutoCids, Attach(c) PROVE IpInv'
  BY <1>2 DEF Attach, host
<1>3. ASSUME NEW C, GoDown(C) PROVE IpInv'
  BY <1>3 DEF GoDown, TypeOK, HostTypeOK
<1>4. CASE IpQueried
  BY <1>4 DEF IpQueried, Configured, modem
<1>5. CASE IpSet
  BY <1>5 DEF IpSet, Configured
<1>6. QED
  BY <1>1, <1>2, <1>3, <1>4, <1>5 DEF Next, ContextStep, StackStep, Drop, GetContext,
     ActiveListed, ContextsListed, LineRead, LinesEnd, ReuseListed, BaseGetContext, Reconfigured,
     Selected, Activated, Deactivated, Disconnect, GetStack, StackGot, CreateSocket,
     AddressQueried, modem, host, vars

\* A step that leaves connect() alone, and keeps what is defined.
LEMMA FoundKept ==
  ASSUME FoundInv, Listed \subseteq Listed', active' \subseteq active \cup Listed',
         UNCHANGED <<conn, cid, faults>>
  PROVE  FoundInv'
BY DEF FoundInv

\* A failed command.
LEMMA FaultCounts == ASSUME TypeOK, Fault PROVE faults' # 0
BY BoundsAssumption DEF TypeOK, Fault

\* The answer of +CGACT? while it counts.
LEMMA FoundSteps == ASSUME Inv, [Next]_vars PROVE FoundInv'
<1> USE DEF Inv, FoundInv, modem, Command, Select, Return, Reuse, Idle
<1>0. TypeOK /\ conn = [conn EXCEPT !.pc = conn.pc] /\ active \subseteq Listed
  BY DEF TypeOK, ConnTypeOK
<1>1. CASE UNCHANGED <<defined, active, conn, cid, faults>>
  BY <1>1, FoundKept DEF Listed
<1>2. ASSUME NEW c \in AutoCids, Attach(c) PROVE FoundInv'
  <2>1. Listed \subseteq Listed' /\ c \in Listed'
    BY <1>2, CidsAssumption DEF Attach, Listed, TypeOK, ModemTypeOK
  <2>2. active' = active \cup {c} /\ UNCHANGED <<conn, cid, faults>>
    BY <1>2 DEF Attach, host
  <2>3. QED
    BY <2>1, <2>2, FoundKept
<1>3. ASSUME NEW C, GoDown(C), UNCHANGED <<defined, conn, cid, faults>> PROVE FoundInv'
  <2>1. active' \subseteq active /\ Listed' = Listed
    BY <1>3 DEF GoDown, Listed
  <2>2. QED
    BY <2>1, <1>3, FoundKept
<1>4. CASE GetContext \/ Disconnect
  <2>1. UNCHANGED <<defined, active, cid, faults>> /\ Listed' = Listed
    BY <1>4 DEF GetContext, Disconnect, Listed, host
  <2>2. conn'.pc \in {"cgact?", "cgact=0"} /\ conn'.found = conn.found
    BY <1>4 DEF GetContext, Disconnect, TypeOK, ConnTypeOK
  <2>3. QED
    BY <2>1, <2>2
<1>5. CASE ActiveListed \/ ContextsListed \/ LineRead
  <2>1. UNCHANGED <<defined, active, cid>> /\ Listed' = Listed
    BY <1>5 DEF ActiveListed, ContextsListed, LineRead, Listed, host
  <2>2. conn'.found \in {active, conn.found}
    BY <1>5 DEF ActiveListed, ContextsListed, LineRead, TypeOK, ConnTypeOK
  <2>3. conn'.pc \in {"cgdcont?", "line"} \/ (conn'.pc = "reuse?" /\ Fault)
    BY <1>5 DEF ActiveListed, ContextsListed, LineRead, TypeOK, ConnTypeOK
  <2>4. QED
    BY <1>0, <2>1, <2>2, <2>3, FaultCounts
<1>6. CASE LinesEnd
  <2>1. UNCHANGED <<defined, active, cid, faults>> /\ Listed' = Listed
    BY <1>6 DEF LinesEnd, Listed, host
  <2>2. Seen = Listed /\ conn'.found = conn.found /\ conn'.cid = conn.cid
    BY <1>6 DEF LinesEnd, Seen, TypeOK, ConnTypeOK
  <2>3. CASE conn.cid = NoCid
    <3>1. \A s \in Listed : RankIn(conn.found, defined, s) = 10
      BY <1>6, <2>2, <2>3 DEF LinesEnd, LineInv
    <3>2. conn.found = {}
      BY <3>1, RankValues DEF Listed
    <3>3. conn'.pc = "reuse?"
      BY <1>6, <2>3 DEF LinesEnd, TypeOK, ConnTypeOK
    <3>4. QED
      BY <2>1, <2>2, <3>2, <3>3
  <2>4. CASE conn.cid # NoCid
    <3>1. conn.cid \in Listed
      BY <1>6, <2>2, <2>4 DEF LinesEnd, LineInv
    <3>2. conn'.pc = "active?"
      BY <1>6, <2>4 DEF LinesEnd, TypeOK, ConnTypeOK
    <3>3. QED
      BY <2>1, <2>2, <3>1, <3>2
  <2>5. QED
    BY <2>3, <2>4
<1>7. CASE ReuseListed
  <2>1. UNCHANGED <<defined, active, cid>> /\ Listed' = Listed
    BY <1>7 DEF ReuseListed, Listed, host
  <2>2. conn'.pc = "cgdcont=" /\ conn'.found = conn.found /\ conn'.cid \in Listed
    <3>1. \E c \in Listed : Select("cgdcont=", c)
      BY <1>7 DEF ReuseListed, AutoCids
    <3>2. QED
      BY <3>1 DEF TypeOK, ConnTypeOK
  <2>3. faults' = 0 => faults = 0
    BY <1>7, FaultCounts DEF ReuseListed, Ok
  <2>4. QED
    BY <1>7, <2>1, <2>2, <2>3 DEF ReuseListed
<1>8. CASE BaseGetContext
  <2>1. CASE Return("off") /\ UNCHANGED <<defined, cid, stack>>
    BY <1>8, <2>1 DEF BaseGetContext, Listed
  <2>2. ASSUME NEW c \in Cids, defined' = [defined EXCEPT ![c] = Own], Select("cgact=", c),
               cid' = c
        PROVE  FoundInv'
    <3>1. Listed \subseteq Listed' /\ c \in Listed'
      BY <2>2 DEF Listed, Own, TypeOK, ModemTypeOK
    <3>2. conn'.pc = "cgact=" /\ conn'.found = conn.found /\ active' = active
      BY <1>8, <2>2 DEF BaseGetContext, TypeOK, ConnTypeOK
    <3>3. QED
      BY <2>2, <3>1, <3>2
  <2>3. QED
    BY <1>8, <2>1, <2>2 DEF BaseGetContext, Define
<1>9. CASE Reconfigured
  <2>1. Listed \subseteq Listed' /\ active' = active
    BY <1>9 DEF Reconfigured, Listed, Own, TypeOK, ModemTypeOK
  <2>2. \/ Command("active?") /\ conn.cid \in Listed
        \/ Return("off")
    BY <1>9 DEF Reconfigured
  <2>3. QED
    BY <2>1, <2>2 DEF TypeOK, ConnTypeOK
<1>10. CASE Selected
  <2>1. UNCHANGED <<defined, active>> /\ Listed' = Listed /\ cid' \in Listed
    BY <1>10 DEF Selected, Chosen, Listed
  <2>2. Return("up") \/ Command("cgact=")
    BY <1>10 DEF Selected, Chosen
  <2>3. QED
    BY <2>1, <2>2 DEF TypeOK, ConnTypeOK
<1>11. CASE Activated
  <2>1. Listed' = Listed /\ active' \subseteq active \cup {cid} /\ cid \in Listed
    BY <1>11 DEF Activated, Listed
  <2>2. conn' = Idle("up") \/ conn' = Idle("off")
    BY <1>11 DEF Activated
  <2>3. QED
    BY <2>1, <2>2
<1>12. CASE Deactivated
  <2>1. Listed' = Listed /\ active' \subseteq active
    BY <1>12 DEF Deactivated, Listed, GoDown
  <2>2. conn' = Idle("off")
    BY <1>12 DEF Deactivated
  <2>3. QED
    BY <2>1, <2>2
<1>13. CASE \/ GetStack \/ StackGot \/ CreateSocket \/ UNCHANGED vars
  BY <1>13, <1>1 DEF GetStack, StackGot, CreateSocket, host, vars
<1>14. CASE IpQueried \/ AddressQueried \/ IpSet
  <2>1. UNCHANGED <<defined, active, conn, cid>>
    BY <1>14 DEF IpQueried, AddressQueried, IpSet, host
  <2>2. faults' = 0 => faults = 0
    BY <1>14, <1>0, FaultCounts DEF IpQueried, AddressQueried, IpSet, Ok
  <2>3. conn.pc \notin {"reuse?", "cgdcont="} \/ faults' # 0 \/ faults = 0
    BY <2>2
  <2>4. QED
    BY <2>1, <2>2, <2>3 DEF Listed
<1>15. QED
  BY <1>2, <1>3, <1>4, <1>5, <1>6, <1>7, <1>8, <1>9, <1>10, <1>11, <1>12, <1>13, <1>14
  DEF Next, ContextStep, StackStep, Drop

-----------------------------------------------------------------------------
\* The rank of a chosen context on another line is that on its own, or is too
\* bad for that line to be better.
LEMMA ChooseBetter ==
  ASSUME NEW a \in Cids, NEW c \in Cids, RankIn(conn.found, defined, a) < 7
  PROVE  Choose(a, c) = IF RankIn(conn.found, defined, c) < RankIn(conn.found, defined, a)
                        THEN c ELSE a
<1>1. a # NoCid
  BY CidsAssumption DEF NoCid
<1>2. CASE a \in conn.found
  BY <1>1, <1>2, RankValues DEF Choose
<1>3. CASE a \notin conn.found
  BY <1>1, <1>3, RankValues DEF Choose, RankIn
<1>4. QED
  BY <1>2, <1>3

\* The pass is not disturbed by what others do meanwhile.
LEMMA LineKept ==
  ASSUME TypeOK, LineInv, UNCHANGED conn,
         \A c \in Listed : defined'[c] = defined[c], Listed \subseteq Listed',
         \A c \in Listed' \ Listed : c \notin conn.found /\ defined'[c] = "other"
  PROVE  LineInv'
<1> SUFFICES ASSUME conn.pc = "line" PROVE LineInv'
  BY DEF LineInv
<1>1. \A s \in Listed : RankIn(conn'.found, defined', s) = RankIn(conn.found, defined, s)
  BY DEF RankIn
<1>2. \A s \in Listed' \ Listed : RankIn(conn'.found, defined', s) = 10
  BY DEF RankIn
<1>3. Seen' = Seen \cup (Listed' \ Listed)
  BY DEF Seen, LineInv
<1>4. CASE conn.cid = NoCid
  BY <1>1, <1>2, <1>3, <1>4 DEF LineInv, Seen
<1>5. CASE conn.cid # NoCid
  <2>1. conn.cid \in Seen /\ conn.cid \in Listed
    BY <1>5 DEF LineInv, Seen
  <2>2. RankIn(conn.found, defined, conn.cid) < 10
    BY <1>5, <2>1, RankValues DEF LineInv, Listed
  <2>3. QED
    BY <1>1, <1>2, <1>3, <1>5, <2>1, <2>2 DEF LineInv, Seen
<1>6. QED
  BY <1>4, <1>5

\* One line more.
LEMMA LineMore == ASSUME TypeOK, LineInv, LineRead, conn'.pc = "line" PROVE LineInv'
<1> DEFINE R(s) == RankIn(conn.found, defined, s)
<1>1. PICK c \in conn.todo : /\ \A d \in conn.todo : c <= d
                             /\ conn' = [conn EXCEPT !.todo = @ \ {c}, !.cid = Choose(@, c)]
  BY DEF LineRead, Reuse, TypeOK, ConnTypeOK
<1>2. conn'.found = conn.found /\ conn'.todo = conn.todo \ {c} /\ conn'.cid = Choose(conn.cid, c)
  BY <1>1 DEF TypeOK, ConnTypeOK
<1>3. defined' = defined /\ Listed' = Listed
  BY DEF LineRead, modem, Listed
<1>4. conn.pc = "line" /\ c \in Listed /\ Listed \subseteq Cids /\ Listed \subseteq 1 .. 6
  BY <1>1, CidsAssumption DEF LineRead, LineInv, Listed
<1>5. \A s \in Listed : R(s) \in {0, 1, 2, 3, 10}
  BY <1>4, RankValues
<1>6. Seen' = Seen \cup {c} /\ conn'.todo \subseteq Listed'
  BY <1>2, <1>3, <1>4 DEF Seen, LineInv
<1>7. Seen \subseteq Listed /\ c # NoCid
  BY <1>4 DEF Seen, NoCid
<1> SUFFICES /\ \A s \in Seen \cup {c}, t \in conn.todo \ {c} : R(s) = 10 \/ s < t
             /\ conn'.cid = NoCid => \A s \in Seen \cup {c} : R(s) = 10
             /\ conn'.cid # NoCid =>
                  /\ conn'.cid \in Seen \cup {c}
                  /\ R(conn'.cid) < 7
                  /\ \A s \in Seen \cup {c} :
                       \/ R(conn'.cid) < R(s)
                       \/ R(conn'.cid) = R(s) /\ conn'.cid <= s
  BY <1>2, <1>3, <1>6 DEF LineInv
<1> HIDE DEF R
<1>8. \A s \in Seen \cup {c}, t \in conn.todo \ {c} : R(s) = 10 \/ s < t
  <2>1. \A t \in conn.todo \ {c} : c < t
    BY <1>1, <1>4 DEF LineInv
  <2>2. \A s \in Seen, t \in conn.todo \ {c} : R(s) = 10 \/ s < t
    BY <1>4 DEF LineInv, R
  <2>3. QED
    BY <2>1, <2>2
<1>9. CASE conn.cid = NoCid
  <2>1. \A s \in Seen : R(s) = 10
    BY <1>4, <1>9 DEF LineInv, R
  <2>2. conn'.cid = IF R(c) < 7 THEN c ELSE NoCid
    BY <1>2, <1>4, <1>9, RankValues DEF Choose, R
  <2>3. QED
    BY <1>4, <1>5, <1>7, <1>8, <2>1, <2>2
<1>10. CASE conn.cid # NoCid
  <2>1. PICK a \in Seen : a = conn.cid
    BY <1>4, <1>10 DEF LineInv
  <2>2. R(a) < 7 /\ \A s \in Seen : R(a) < R(s) \/ (R(a) = R(s) /\ a <= s)
    BY <1>4, <1>10, <2>1 DEF LineInv, R
  <2>3. a < c
    BY <1>1, <1>4, <2>1, <2>2 DEF LineInv, R
  <2>4. conn'.cid = IF R(c) < R(a) THEN c ELSE a
    BY <1>2, <1>4, <1>7, <2>1, <2>2, ChooseBetter DEF R
  <2>5. a \in Listed /\ R(a) \in 0 .. 10 /\ R(c) \in 0 .. 10 /\ a \in Int /\ c \in Int
    BY <1>4, <1>5, <1>7
  <2>6. CASE R(c) < R(a)
    BY <1>5, <1>7, <1>8, <2>2, <2>4, <2>5, <2>6
  <2>7. CASE ~(R(c) < R(a))
    BY <1>5, <1>7, <1>8, <1>10, <2>1, <2>2, <2>3, <2>4, <2>5, <2>7
  <2>8. QED
    BY <2>6, <2>7
<1>11. QED
  BY <1>9, <1>10

LEMMA LineSteps == ASSUME Inv, [Next]_vars PROVE LineInv'
<1> USE DEF Inv
<1>1. CASE UNCHANGED <<conn, defined>>
  BY <1>1, LineKept DEF Listed
<1>2. ASSUME NEW c \in AutoCids, Attach(c) PROVE LineInv'
  <2>1. c \in Cids /\ conn' = conn /\ c \notin active
    BY <1>2, CidsAssumption DEF Attach
  <2>2. \A d \in Listed : defined'[d] = defined[d]
    BY <1>2, <2>1 DEF Attach, TypeOK, ModemTypeOK, Listed
  <2>3. \A d \in Listed' \ Listed : d = c /\ defined'[d] = "other"
    BY <1>2, <2>1 DEF Attach, TypeOK, ModemTypeOK, Listed
  <2>4. Listed \subseteq Listed'
    BY <2>2 DEF Listed
  <2>5. \A d \in Listed' \ Listed : d \notin conn.found
    BY DEF FoundInv
  <2>6. QED
    BY <2>1, <2>2, <2>3, <2>4, <2>5, LineKept
<1>3. CASE LineRead
  <2>1. CASE conn'.pc = "line"
    BY <1>3, <2>1, LineMore
  <2>2. CASE conn'.pc # "line"
    BY <2>2 DEF LineInv
  <2>3. QED
    BY <2>1, <2>2
<1>4. CASE ContextsListed
  <2>1. defined' = defined /\ Listed' = Listed
    BY <1>4 DEF ContextsListed, modem, Listed
  <2>2. CASE conn' = [conn EXCEPT !.pc = "line", !.todo = Listed]
    <3>1. conn.cid = NoCid
      BY <1>4 DEF ContextsListed, CidInv
    <3>2. conn'.todo = Listed /\ conn'.cid = NoCid /\ Seen' = {}
      BY <2>1, <2>2, <3>1 DEF Seen, TypeOK, ConnTypeOK
    <3>3. QED
      BY <2>1, <3>2 DEF LineInv
  <2>3. CASE Reuse
    BY <2>3 DEF Reuse, LineInv, TypeOK, ConnTypeOK
  <2>4. QED
    BY <1>4, <2>2, <2>3 DEF ContextsListed
<1>5. CASE \/ GetContext \/ Disconnect \/ ActiveListed \/ LinesEnd \/ ReuseListed
           \/ BaseGetContext \/ Reconfigured \/ Selected \/ Activated \/ Deactivated
  <2> USE DEF Command, Select, Return, Reuse, Idle, TypeOK, ConnTypeOK
  <2>1. conn'.pc # "line"
    <3>1. CASE GetContext \/ Disconnect \/ ActiveListed \/ LinesEnd
      BY <3>1 DEF GetContext, Disconnect, ActiveListed, LinesEnd
    <3>2. CASE ReuseListed \/ Activated \/ Deactivated
      <4>1. CASE ReuseListed
        BY <4>1 DEF ReuseListed
      <4>2. CASE Activated \/ Deactivated
        BY <4>2 DEF Activated, Deactivated
      <4>3. QED
        BY <3>2, <4>1, <4>2
    <3>3. CASE BaseGetContext
      <4>1. conn'.pc = "cgact=" \/ conn' = Idle("off")
        BY <3>3 DEF BaseGetContext, Define
      <4>2. QED
        BY <4>1
    <3>4. CASE Reconfigured \/ Selected
      BY <3>4 DEF Reconfigured, Selected, Chosen
    <3>5. QED
      BY <1>5, <3>1, <3>2, <3>3, <3>4
  <2>2. QED
    BY <2>1 DEF LineInv
<1>6. QED
  BY <1>1, <1>2, <1>3, <1>4, <1>5 DEF Next, ContextStep, StackStep, Drop, GetStack, StackGot,
     CreateSocket, IpQueried, AddressQueried, IpSet, modem, vars

\* What connect() has chosen before the first line.
LEMMA CidSteps == ASSUME TypeOK, CidInv, [Next]_vars PROVE CidInv'
<1> USE DEF CidInv, TypeOK, ConnTypeOK, Command, Select, Return, Reuse, Idle
<1>1. CASE UNCHANGED conn
  BY <1>1
<1>2. CASE GetContext \/ ActiveListed
  BY <1>2 DEF GetContext, ActiveListed, Connecting
<1>3. CASE \/ ContextsListed \/ LineRead \/ LinesEnd
  BY <1>3 DEF ContextsListed, LineRead, LinesEnd
<1>4. CASE ReuseListed \/ BaseGetContext \/ Reconfigured \/ Selected
  <2>1. \/ conn'.pc \in {"cgdcont=", "active?", "cgact="}
        \/ conn' = Idle("off") \/ conn' = Idle("up")
    <3>1. CASE ReuseListed
      BY <3>1 DEF ReuseListed
    <3>2. CASE BaseGetContext
      BY <3>2 DEF BaseGetContext, Define
    <3>3. CASE Reconfigured \/ Selected
      BY <3>3 DEF Reconfigured, Selected, Chosen
    <3>4. QED
      BY <1>4, <3>1, <3>2, <3>3
  <2>2. QED
    BY <2>1
<1>5. CASE Activated \/ Deactivated \/ Disconnect
  BY <1>5 DEF Activated, Deactivated, Disconnect
<1>6. QED
  BY <1>1, <1>2, <1>3, <1>4, <1>5 DEF Next, ContextStep, StackStep, Attach, Drop, GetStack,
     StackGot, CreateSocket, IpQueried, AddressQueried, IpSet, vars

THEOREM Invariance == Spec => []Inv
<1>1. Inv /\ [Next]_vars => Inv'
  <2> SUFFICES ASSUME Inv, [Next]_vars PROVE Inv'
    OBVIOUS
  <2>1. TypeOK'
    BY CounterSteps, ModemSteps, ConnSteps, HostSteps DEF Inv, TypeOK
  <2>2. LockInv' /\ IpInv' /\ CidInv'
    BY LockSteps, IpSteps, CidSteps DEF Inv
  <2>3. FoundInv' /\ LineInv'
    BY FoundSteps, LineSteps
  <2>4. QED
    BY <2>1, <2>2, <2>3 DEF Inv
<1>2. QED
  BY InitInv, <1>1, PTL DEF Spec

\* The state of context and stack stays within its types, and every command that
\* names a context has one to name.
THEOREM ContextTypeCorrect == Spec => []TypeOK
<1>1. Inv => TypeOK
  BY DEF Inv
<1>2. QED
  BY Invariance, <1>1, PTL

\* The one pass over the lines finds the best context, and none only if there is
\* none, for every set of contexts and whatever the modem attaches meanwhile.
THEOREM SelectionCorrect == Spec => []SelectionIsBest
<1>1. Inv => SelectionIsBest
  <2> SUFFICES ASSUME Inv, conn.pc = "line"
               PROVE  IF Best(Seen) = {} THEN conn.cid = NoCid ELSE conn.cid \in Best(Seen)
    BY DEF SelectionIsBest, Seen
  <2>1. Seen \subseteq Cids /\ Seen \subseteq 1 .. 6
    BY CidsAssumption DEF Seen, Listed
  <2>2. CASE conn.cid = NoCid
    <3>1. \A s \in Seen : RankIn(conn.found, defined, s) = 10
      BY <2>2 DEF Inv, LineInv
    <3>2. \A s \in Seen : s \notin conn.found /\ ~(HasApn /\ defined[s] = "own")
      BY <2>1, <3>1 DEF RankIn
    <3>3. Best(Seen) = {}
      BY <3>2 DEF Best
    <3>4. QED
      BY <2>2, <3>3
  <2>3. CASE conn.cid # NoCid
    <3> DEFINE R(s) == RankIn(conn.found, defined, s)
    <3>1. PICK a \in Seen : a = conn.cid
      BY <2>3 DEF Inv, LineInv
    <3>2. R(a) < 7 /\ \A s \in Seen : R(a) < R(s) \/ (R(a) = R(s) /\ a <= s)
      BY <2>3, <3>1 DEF Inv, LineInv
    <3>3. \A s \in Seen : R(s) = IF s \in conn.found
                                 THEN (IF s = 5 THEN 0 ELSE IF s = 6 THEN 1 ELSE 2)
                                 ELSE IF HasApn /\ defined[s] = "own" THEN 3 ELSE 10
      BY DEF RankIn
    <3> HIDE DEF R
    <3>4. CASE a \in AutoCids /\ a \in conn.found
      <4>1. \A s \in Seen \cap conn.found \cap AutoCids : a <= s
        BY <2>1, <3>1, <3>2, <3>3, <3>4 DEF AutoCids
      <4>2. QED
        BY <3>1, <3>4, <4>1 DEF Best
    <3>5. CASE a \notin AutoCids /\ a \in conn.found
      <4>1. Seen \cap conn.found \cap AutoCids = {}
        BY <2>1, <3>1, <3>2, <3>3, <3>5 DEF AutoCids
      <4>2. \A s \in Seen \cap conn.found : a <= s
        BY <2>1, <3>1, <3>2, <3>3, <3>5, <4>1 DEF AutoCids
      <4>3. QED
        BY <3>1, <3>5, <4>1, <4>2 DEF Best
    <3>6. CASE a \notin conn.found
      <4>1. HasApn /\ defined[a] = "own" /\ R(a) = 3
        BY <3>1, <3>2, <3>3, <3>6
      <4>2. Seen \cap conn.found = {}
        BY <3>2, <3>3, <4>1
      <4>3. \A s \in Seen : HasApn /\ defined[s] = "own" => a <= s
        BY <3>2, <3>3, <4>1, <4>2
      <4>4. QED
        BY <3>1, <4>1, <4>2, <4>3 DEF Best
    <3>7. QED
      BY <3>4, <3>5, <3>6
  <2>4. QED
    BY <2>2, <2>3
<1>2. QED
  BY Invariance, <1>1, PTL

\* Without a failed command no context is defined anew that was active when it
\* was listed.
THEOREM ActiveKept == Spec => []NeverRedefinesActive
<1>1. Inv => NeverRedefinesActive
  BY DEF Inv, FoundInv, NeverRedefinesActive
<1>2. QED
  BY Invariance, <1>1, PTL

\* _ip_configured is true of the context it was set for.
THEOREM IpFlagTrue == Spec => []IpFlagHonest
<1>1. Inv => IpFlagHonest
  BY CidsAssumption DEF Inv, IpInv, IpFlagHonest, NoCid
<1>2. QED
  BY Invariance, <1>1, PTL

\* The stack is on the context's CID, but for a get_stack() that was overtaken.
THEOREM StackOnContext == Spec => StackFollowsContext
<1> DEFINE Follows == (stack \in {cid, NoStack} /\ stack' \notin {cid', NoStack}) =>
                        (StackGot /\ user.cid # cid)
<1>1. [Next]_vars => Follows
  <2> SUFFICES ASSUME [Next]_vars, stack \in {cid, NoStack}, stack' \notin {cid', NoStack}
               PROVE  StackGot /\ user.cid # cid
    OBVIOUS
  <2>1. CASE StackGot
    BY <2>1 DEF StackGot
  <2>2. CASE BaseGetContext \/ Selected
    BY <2>2 DEF BaseGetContext, Define, Selected, SetCid
  <2>3. CASE UNCHANGED <<stack, cid>>
    BY <2>3
  <2>4. QED
    BY <2>1, <2>2, <2>3 DEF Next, ContextStep, StackStep, Attach, Drop, GetContext, Disconnect,
       ActiveListed, ContextsListed, LineRead, LinesEnd, ReuseListed, Reconfigured, Activated,
       Deactivated, GetStack, CreateSocket, IpQueried, AddressQueried, IpSet, host, vars
<1>2. QED
  BY <1>1, PTL DEF Spec, StackFollowsContext

-----------------------------------------------------------------------------
(* How long connect() keeps the AT lock.                                     *)

LEMMA CidsFinite ==
  /\ IsFiniteSet(Cids) /\ Cardinality(Cids) \in Nat
  /\ \A S \in SUBSET Cids : IsFiniteSet(S) /\ Cardinality(S) \in 0 .. Cardinality(Cids)
<1>1. Cids \in SUBSET Nat /\ \A c \in Cids : c <= 6
  BY CidsAssumption
<1>2. IsFiniteSet(Cids)
  BY <1>1, FS_BoundedSetOfNaturals
<1>3. Cardinality(Cids) \in Nat
  BY <1>2, FS_CardinalityType
<1>4. ASSUME NEW S \in SUBSET Cids PROVE IsFiniteSet(S) /\ Cardinality(S) \in 0 .. Cardinality(Cids)
  <2>1. IsFiniteSet(S) /\ Cardinality(S) <= Cardinality(Cids)
    BY <1>2, FS_Subset
  <2>2. Cardinality(S) \in Nat
    BY <2>1, FS_CardinalityType
  <2>3. QED
    BY <1>3, <2>1, <2>2
<1>5. QED
  BY <1>2, <1>3, <1>4

\* The commands and lines of the model that connect() or disconnect() still has
\* before it: those of the base class's get_context() count as one.
CommandsLeft ==
  CASE conn.pc \in {"off", "up"}        -> 0
    [] conn.pc \in {"cgact=", "cgact=0"} -> 1
    [] conn.pc = "active?"              -> 2
    [] conn.pc = "cgdcont="             -> 3
    [] conn.pc = "reuse?"               -> 4
    [] conn.pc = "line"                 -> 5 + Cardinality(conn.todo)
    [] conn.pc = "cgdcont?"             -> 6 + Cardinality(Cids)
    [] conn.pc = "cgact?"               -> 7 + Cardinality(Cids)

\* connect() keeps the AT lock from its first command to its last; contexts that
\* come and go meanwhile do not send it back or make the hold longer.
ConnectShortens ==
  [][Connecting =>
       CommandsLeft' \in 0 .. CommandsLeft /\ (ContextStep => CommandsLeft' # CommandsLeft)]_vars

\* CommandsLeft, position by position.
LeftIs ==
  /\ conn.pc \in {"off", "up"} => CommandsLeft = 0
  /\ conn.pc \in {"cgact=", "cgact=0"} => CommandsLeft = 1
  /\ conn.pc = "active?"  => CommandsLeft = 2
  /\ conn.pc = "cgdcont=" => CommandsLeft = 3
  /\ conn.pc = "reuse?"   => CommandsLeft = 4
  /\ conn.pc = "line"     => CommandsLeft = 5 + Cardinality(conn.todo)
  /\ conn.pc = "cgdcont?" => CommandsLeft = 6 + Cardinality(Cids)
  /\ conn.pc = "cgact?"   => CommandsLeft = 7 + Cardinality(Cids)

LEMMA LeftCases == LeftIs
BY DEF LeftIs, CommandsLeft

LEMMA LeftIsNatural == ConnTypeOK => CommandsLeft \in Nat
<1> SUFFICES ASSUME ConnTypeOK PROVE CommandsLeft \in Nat
  OBVIOUS
<1>1. Cardinality(conn.todo) \in Nat /\ Cardinality(Cids) \in Nat
  BY CidsFinite DEF ConnTypeOK
<1>2. CommandsLeft \in {0, 1, 2, 3, 4, 5 + Cardinality(conn.todo), 6 + Cardinality(Cids),
                        7 + Cardinality(Cids)}
  BY LeftCases DEF LeftIs, ConnTypeOK
<1>3. QED
  BY <1>1, <1>2

\* Each command or line of the call, from where it stands.
LEMMA CommandShortens ==
  ASSUME ConnTypeOK, ConnTypeOK', ContextStep
  PROVE  CommandsLeft' \in 0 .. (CommandsLeft - 1)
<1>0. LeftIs /\ LeftIs'
  BY LeftCases, PTL
<1>1. /\ Cardinality(Cids) \in Nat /\ Cardinality(conn.todo) \in Nat
      /\ Cardinality(conn'.todo) \in 0 .. Cardinality(Cids)
  BY CidsFinite DEF ConnTypeOK
<1> USE DEF Command, Reuse, Select, Return, Idle
<1>2. CASE ActiveListed
  <2>1. conn.pc = "cgact?" /\ conn'.pc \in {"cgdcont?", "reuse?"}
    BY <1>2 DEF ActiveListed, ConnTypeOK
  <2>2. /\ CommandsLeft = 7 + Cardinality(Cids)
        /\ CommandsLeft' \in {4, 6 + Cardinality(Cids)}
    BY <1>0, <2>1 DEF LeftIs
  <2>3. QED
    BY <1>1, <2>2
<1>3. CASE ContextsListed
  <2>1. conn.pc = "cgdcont?" /\ conn'.pc \in {"line", "reuse?"}
    BY <1>3 DEF ContextsListed, ConnTypeOK
  <2>2. CommandsLeft = 6 + Cardinality(Cids)
    BY <1>0, <2>1 DEF LeftIs
  <2>3. PICK k \in 0 .. Cardinality(Cids) : CommandsLeft' \in {4, 5 + k}
    BY <1>0, <1>1, <2>1 DEF LeftIs
  <2>4. QED
    BY <1>1, <2>2, <2>3
<1>4. CASE LineRead
  <2>1. conn.pc = "line" /\ CommandsLeft = 5 + Cardinality(conn.todo)
    BY <1>0, <1>4 DEF LineRead, LeftIs
  <2>2. CASE Reuse
    <3>1. conn'.pc = "reuse?"
      BY <2>2 DEF ConnTypeOK
    <3>2. CommandsLeft' = 4
      BY <1>0, <3>1 DEF LeftIs
    <3>3. QED
      BY <1>1, <2>1, <3>2
  <2>3. ASSUME NEW c \in conn.todo, conn' = [conn EXCEPT !.todo = @ \ {c}, !.cid = Choose(@, c)]
        PROVE  CommandsLeft' \in 0 .. (CommandsLeft - 1)
    <3>1. conn'.pc = "line" /\ conn'.todo = conn.todo \ {c}
      BY <2>1, <2>3 DEF ConnTypeOK
    <3>2. CommandsLeft' = 5 + Cardinality(conn'.todo)
      BY <1>0, <3>1 DEF LeftIs
    <3>3. Cardinality(conn'.todo) = Cardinality(conn.todo) - 1
      <4>1. IsFiniteSet(conn.todo)
        BY CidsFinite DEF ConnTypeOK
      <4>2. QED
        BY <3>1, <4>1, FS_RemoveElement
    <3>4. QED
      BY <1>1, <2>1, <3>2, <3>3
  <2>4. QED
    BY <1>4, <2>2, <2>3 DEF LineRead
<1>5. CASE LinesEnd
  <2>1. conn.pc = "line" /\ conn'.pc \in {"reuse?", "active?"}
    BY <1>5 DEF LinesEnd, ConnTypeOK
  <2>2. CommandsLeft = 5 + Cardinality(conn.todo) /\ CommandsLeft' \in {2, 4}
    BY <1>0, <2>1 DEF LeftIs
  <2>3. QED
    BY <1>1, <2>2
<1>6. CASE ReuseListed
  <2>1. conn.pc = "reuse?" /\ conn'.pc = "cgdcont="
    BY <1>6 DEF ReuseListed, ConnTypeOK
  <2>2. CommandsLeft = 4 /\ CommandsLeft' = 3
    BY <1>0, <2>1 DEF LeftIs
  <2>3. QED
    BY <2>2
<1>7. CASE BaseGetContext
  <2>1. conn.pc = "reuse?" /\ conn'.pc \in {"cgact=", "off"}
    <3>1. conn.pc = "reuse?" /\ (Return("off") \/ \E c \in Cids : Define(c))
      BY <1>7 DEF BaseGetContext
    <3>2. ASSUME NEW c \in Cids, Define(c) PROVE conn'.pc = "cgact="
      BY <3>2 DEF Define, ConnTypeOK
    <3>3. Return("off") => conn'.pc = "off"
      OBVIOUS
    <3>4. QED
      BY <3>1, <3>2, <3>3
  <2>2. CommandsLeft = 4 /\ CommandsLeft' \in {0, 1}
    BY <1>0, <2>1 DEF LeftIs
  <2>3. QED
    BY <2>2
<1>8. CASE Reconfigured
  <2>1. conn.pc = "cgdcont=" /\ conn'.pc \in {"active?", "off"}
    BY <1>8 DEF Reconfigured, ConnTypeOK
  <2>2. CommandsLeft = 3 /\ CommandsLeft' \in {0, 2}
    BY <1>0, <2>1 DEF LeftIs
  <2>3. QED
    BY <2>2
<1>9. CASE Selected
  <2>1. conn.pc = "active?" /\ conn'.pc \in {"up", "cgact="}
    BY <1>9 DEF Selected, Chosen, ConnTypeOK
  <2>2. CommandsLeft = 2 /\ CommandsLeft' \in {0, 1}
    BY <1>0, <2>1 DEF LeftIs
  <2>3. QED
    BY <2>2
<1>10. CASE Activated \/ Deactivated
  <2>1. conn.pc \in {"cgact=", "cgact=0"} /\ conn'.pc \in {"up", "off"}
    BY <1>10 DEF Activated, Deactivated
  <2>2. CommandsLeft = 1 /\ CommandsLeft' = 0
    BY <1>0, <2>1 DEF LeftIs
  <2>3. QED
    BY <2>2
<1>11. QED
  BY <1>2, <1>3, <1>4, <1>5, <1>6, <1>7, <1>8, <1>9, <1>10 DEF ContextStep

LEMMA ConnectShorter ==
  ASSUME TypeOK, TypeOK', [Next]_vars, Connecting
  PROVE  CommandsLeft' \in 0 .. CommandsLeft /\ (ContextStep => CommandsLeft' # CommandsLeft)
<1>1. CommandsLeft \in Nat
  BY LeftIsNatural DEF TypeOK
<1>2. CASE ContextStep
  <2>1. CommandsLeft' \in 0 .. (CommandsLeft - 1)
    BY <1>2, CommandShortens DEF TypeOK
  <2>2. QED
    BY <1>1, <2>1
<1>3. CASE ~ContextStep
  <2>1. UNCHANGED conn
    BY <1>3 DEF Next, Connecting, GetContext, Disconnect, StackStep, Attach, Drop, GetStack,
       StackGot, CreateSocket, IpQueried, AddressQueried, IpSet, vars
  <2>2. CommandsLeft' = CommandsLeft
    BY <2>1 DEF CommandsLeft
  <2>3. QED
    BY <1>1, <1>3, <2>2
<1>4. QED
  BY <1>2, <1>3

\* connect() keeps the AT lock for at most 7 commands and lines of the model
\* more than there are contexts: whatever fails, it goes on to a later command or gives up, and
\* no context that comes or goes sends it back (ST87M01_CellularContext::get_context).
THEOREM ConnectBounded == Spec => ConnectShortens
<1>1. Inv => TypeOK
  BY DEF Inv
<1>2. TypeOK /\ TypeOK' /\ [Next]_vars =>
        [Connecting =>
           CommandsLeft' \in 0 .. CommandsLeft /\ (ContextStep => CommandsLeft' # CommandsLeft)]_vars
  BY ConnectShorter
<1>3. QED
  BY Invariance, <1>1, <1>2, PTL DEF Spec, ConnectShortens
=============================================================================
