-------------------------- MODULE DeviceBoot_proofs --------------------------
(***************************************************************************)
(* Proofs about DeviceBoot: what is on the modem when init() succeeds, and *)
(* when init() writes at all, for any set of builds and any number of      *)
(* faults, power losses and restarts.                                      *)
(***************************************************************************)
EXTENDS DeviceBoot, TLAPS

-----------------------------------------------------------------------------
(* Type correctness, part by part.                                          *)

\* The settings stay settings when one item changes.
LEMMA SettingsClosed ==
  ASSUME NEW s \in Settings, NEW i \in {"key", "ca", "dev"}
  PROVE  /\ [s EXCEPT !.bands = "new"] \in Settings
         /\ [s EXCEPT !.ip = "new"] \in Settings
         /\ [s EXCEPT !.key = "none"] \in Settings
         /\ [s EXCEPT !.key = "generated"] \in Settings
         /\ [s EXCEPT !.certs = @ \ {i}] \in Settings
         /\ i # "key" => [s EXCEPT !.certs = @ \cup {i}] \in Settings
BY DEF Settings

LEMMA InitTypeOK == Init => TypeOK
<1> SUFFICES ASSUME Init PROVE TypeOK
  OBVIOUS
<1>1. ModemOK
  BY DEF Init, ModemOK
<1>2. HostOK
  <2>1. polls \in 0 .. ReadyPolls
    BY PollsAssumption DEF Init
  <2>2. QED
    BY <2>1 DEF Init, HostOK
<1>3. HistoryOK
  <2>1. 0 \in 0 .. MaxFaults /\ 0 \in 0 .. MaxLosses /\ 0 \in 0 .. MaxCrashes
    BY BoundsAssumption
  <2>2. count \in [faults : 0 .. MaxFaults, losses : 0 .. MaxLosses, crashes : 0 .. MaxCrashes]
    BY <2>1 DEF Init
  <2>3. QED
    BY <2>2 DEF Init, HistoryOK
<1>4. QED
  BY <1>1, <1>2, <1>3 DEF TypeOK

\* Every command is acknowledged or not, and that is all the history it makes.
LEMMA StepAnswered == Step => UNCHANGED complete /\ (Acked \/ NotAcked)
BY DEF Step, Acked, past, Sync, WaitForAppReady, QueryBands, QueryIp, RadioOff, WriteBands,
   WriteIp, Write, SoftReset, Resync, AwaitReboot, ConfigureEnds, QueryCfun, RadioOn,
   CheckKey, CheckCert, DeleteKey, AddKey, FindDeviceKey, DeleteCert, AddCert, Save

\* What misleads init() is one of three things.
LEMMA MisledStep ==
  Next => misled' \in {misled, misled \cup {"query"}, misled \cup {"loss"}}
BY DEF Next, Call, BootDone, PowerLoss, Crash, Step, past, Sync, WaitForAppReady, QueryBands,
   QueryIp, RadioOff, WriteBands, WriteIp, Write, SoftReset, Resync, AwaitReboot,
   ConfigureEnds, QueryCfun, RadioOn, CheckKey, CheckCert, DeleteKey, AddKey,
   FindDeviceKey, DeleteCert, AddCert, Save

LEMMA HistoryStep == HistoryOK /\ Next => HistoryOK'
<1> SUFFICES ASSUME HistoryOK, Next PROVE HistoryOK'
  OBVIOUS
<1> DEFINE Counts == [faults : 0 .. MaxFaults, losses : 0 .. MaxLosses, crashes : 0 .. MaxCrashes]
<1>0. misled' \subseteq {"device", "query", "loss"}
  BY MisledStep DEF HistoryOK
<1>1. CASE Step
  <2>1. complete' \in BOOLEAN
    BY <1>1, StepAnswered DEF HistoryOK
  <2>2. CASE Acked
    BY <1>0, <2>1, <2>2 DEF Acked, HistoryOK
  <2>3. CASE NotAcked
    <3>1. since' \subseteq {"fault", "loss"}
      BY <2>3 DEF HistoryOK, NotAcked
    <3>2. count' \in Counts
      BY <2>3, BoundsAssumption DEF HistoryOK, NotAcked
    <3>3. QED
      BY <1>0, <2>1, <3>1, <3>2 DEF HistoryOK
  <2>4. QED
    BY <1>1, <2>2, <2>3, StepAnswered
<1>2. CASE Call
  BY <1>0, <1>2 DEF Call, HistoryOK, Incomplete
<1>3. CASE BootDone
  BY <1>0, <1>3 DEF BootDone, HistoryOK, past
<1>4. CASE PowerLoss
  <2>1. count' \in Counts
    BY <1>4, BoundsAssumption DEF PowerLoss, HistoryOK
  <2>2. complete' = complete /\ since' = since \cup {"loss"}
    BY <1>4 DEF PowerLoss
  <2>3. QED
    BY <1>0, <2>1, <2>2 DEF HistoryOK
<1>5. CASE Crash
  <2>1. count' \in Counts
    BY <1>5, BoundsAssumption DEF Crash, HistoryOK
  <2>2. complete' = complete /\ since' = since
    BY <1>5 DEF Crash, past
  <2>3. QED
    BY <1>0, <2>1, <2>2 DEF HistoryOK
<1>6. QED
  BY <1>1, <1>2, <1>3, <1>4, <1>5 DEF Next

LEMMA ModemStep == ModemOK /\ HostOK /\ Next => ModemOK'
<1> SUFFICES ASSUME ModemOK, HostOK, Next PROVE ModemOK'
  OBVIOUS
<1>1. ASSUME UNCHANGED modem PROVE ModemOK'
  BY <1>1 DEF modem, ModemOK
<1>2. ASSUME SaveAndReboot PROVE ModemOK'
  BY <1>2 DEF SaveAndReboot, ModemOK
<1>3. CASE Call \/ Crash \/ Sync \/ WaitForAppReady \/ QueryBands \/ QueryIp \/ Resync
           \/ AwaitReboot \/ ConfigureEnds \/ QueryCfun \/ CheckKey \/ CheckCert
           \/ FindDeviceKey
  BY <1>1, <1>3 DEF Call, Crash, Sync, WaitForAppReady, QueryBands, QueryIp, Resync,
     AwaitReboot, ConfigureEnds, QueryCfun, CheckKey, CheckCert, FindDeviceKey
<1>4. CASE SoftReset \/ Save
  BY <1>1, <1>2, <1>4 DEF SoftReset, Save
<1>5. CASE BootDone \/ PowerLoss
  BY <1>5 DEF BootDone, PowerLoss, ModemOK
<1>6. CASE RadioOff \/ RadioOn
  BY <1>6 DEF RadioOff, RadioOn, ModemOK
<1>7. CASE WriteBands \/ WriteIp
  BY <1>7, SettingsClosed DEF WriteBands, WriteIp, Write, ModemOK
<1>8. CASE DeleteKey \/ AddKey
  BY <1>8, SettingsClosed DEF DeleteKey, AddKey, ModemOK
<1>9. CASE DeleteCert
  BY <1>9, SettingsClosed DEF DeleteCert, ModemOK, HostOK
<1>10. CASE AddCert
  <2>1. item # "key" /\ item \in {"key", "ca", "dev"}
    BY <1>10 DEF AddCert, HostOK
  <2>2. [work EXCEPT !.certs = @ \cup {item}] \in Settings
    BY <2>1, SettingsClosed DEF ModemOK
  <2>3. QED
    BY <1>10, <2>2 DEF AddCert, ModemOK
<1>11. QED
  BY <1>3, <1>4, <1>5, <1>6, <1>7, <1>8, <1>9, <1>10 DEF Next, Step

LEMMA NoPollsYet == 0 \in 0 .. ReadyPolls /\ 0 < ReadyPolls
BY PollsAssumption

\* HostOK in two parts: the flags, and where the call stands.
FlagsOK ==
  /\ options \in OptionSets
  /\ configured \in BOOLEAN /\ bandsOk \in BOOLEAN /\ resetErr \in BOOLEAN
  /\ hasKey \in BOOLEAN /\ hasCert \in BOOLEAN /\ need \in BOOLEAN

PlaceOK ==
  /\ pc \in Commands \cup {"idle", "ok", "failed"}
  /\ polls \in 0 .. ReadyPolls
  /\ item \in {"key", "ca", "dev"}
  /\ pc \in {"sync", "app", "reboot"} => polls < ReadyPolls
  /\ pc \in {"cert del", "cert add"} => item # "key"
  /\ pc = "key list" => item = "dev"

LEMMA HostParts == HostOK <=> FlagsOK /\ PlaceOK
BY DEF HostOK, FlagsOK, PlaceOK

LEMMA HostPartsNext == HostOK' <=> FlagsOK' /\ PlaceOK'
BY DEF HostOK, FlagsOK, PlaceOK

LEMMA FlagsSame ==
  ASSUME FlagsOK, UNCHANGED <<options, configured, bandsOk, resetErr, hasKey, hasCert, need>>
  PROVE  FlagsOK'
BY DEF FlagsOK

LEMMA FlagsStep == ASSUME FlagsOK, Next PROVE FlagsOK'
<1>1. CASE Sync \/ WaitForAppReady \/ RadioOff \/ Resync \/ AwaitReboot
  BY <1>1, FlagsSame DEF Sync, WaitForAppReady, RadioOff, Resync, AwaitReboot, local
<1>2. CASE WriteBands \/ WriteIp \/ QueryCfun \/ RadioOn
  BY <1>2, FlagsSame DEF WriteBands, WriteIp, Write, QueryCfun, RadioOn, local
<1>3. CASE DeleteKey \/ FindDeviceKey \/ DeleteCert \/ Save \/ BootDone \/ PowerLoss
  BY <1>3, FlagsSame DEF DeleteKey, FindDeviceKey, DeleteCert, Save, BootDone, PowerLoss, local
<1>4. CASE Call \/ Crash
  BY <1>4 DEF Call, Crash, FlagsOK, local
<1>5. CASE QueryBands \/ SoftReset
  BY <1>5 DEF QueryBands, SoftReset, FlagsOK
<1>6. CASE QueryIp \/ ConfigureEnds
  <2>1. configured' = TRUE \/ configured' = configured
    BY <1>6 DEF QueryIp, ConfigureEnds
  <2>2. UNCHANGED <<options, bandsOk, resetErr, hasKey, hasCert, need>>
    BY <1>6 DEF QueryIp, ConfigureEnds, local
  <2>3. QED
    BY <2>1, <2>2 DEF FlagsOK
<1>7. CASE CheckKey \/ CheckCert
  BY <1>7 DEF CheckKey, CheckCert, FlagsOK
<1>8. CASE AddKey \/ AddCert
  <2>1. need' = TRUE \/ need' = need
    BY <1>8 DEF AddKey, AddCert
  <2>2. UNCHANGED <<options, configured, bandsOk, resetErr, hasKey, hasCert>>
    BY <1>8 DEF AddKey, AddCert
  <2>3. QED
    BY <2>1, <2>2 DEF FlagsOK
<1>9. QED
  BY <1>1, <1>2, <1>3, <1>4, <1>5, <1>6, <1>7, <1>8 DEF Next, Step

\* The places that ask nothing of polls and item.
Plain == {"idle", "ok", "failed", "bands?", "ip?", "cfun=0", "bands=", "ip=", "reset",
          "resync", "at", "cfun?", "cfun=1", "key?", "cert?", "key del", "key add", "save"}

LEMMA PlainPlace ==
  ASSUME polls' \in 0 .. ReadyPolls, item' \in {"key", "ca", "dev"}, pc' \in Plain
  PROVE  PlaceOK'
BY DEF PlaceOK, Plain, Commands

LEMMA PlainGoes == ASSUME PlaceOK, UNCHANGED <<polls, item>>, pc' \in Plain PROVE PlaceOK'
BY PlainPlace DEF PlaceOK

\* What follows a block of init_tls() is about the item it names.
LEMMA BlockPlaces ==
  ASSUME NEW key \in BOOLEAN, NEW cert \in BOOLEAN, NEW save \in BOOLEAN, NEW step,
         step \in {Finish(save), DeviceBlock(save), CaBlock(cert, save), KeyBlock(key, cert)}
  PROVE  \/ step[1] \in Plain /\ step[2] \in {"key", "ca", "dev"}
         \/ step[1] = "key list" /\ step[2] = "dev"
<1>1. \/ step = <<"save", "key">> \/ step = <<"ok", "key">> \/ step = <<"key list", "dev">>
      \/ step = <<"key del", "ca">> \/ step = <<"key del", "key">>
  BY DEF Finish, DeviceBlock, CaBlock, KeyBlock
<1>2. CASE step = <<"save", "key">>
  BY <1>2 DEF Plain
<1>3. CASE step = <<"ok", "key">>
  BY <1>3 DEF Plain
<1>4. CASE step = <<"key list", "dev">>
  BY <1>4 DEF Plain
<1>5. CASE step = <<"key del", "ca">>
  BY <1>5 DEF Plain
<1>6. CASE step = <<"key del", "key">>
  BY <1>6 DEF Plain
<1>7. QED
  BY <1>1, <1>2, <1>3, <1>4, <1>5, <1>6

LEMMA GoToPlace ==
  ASSUME PlaceOK, UNCHANGED polls, NEW step, GoTo(step),
         \/ step[1] \in Plain /\ step[2] \in {"key", "ca", "dev"}
         \/ step[1] = "key list" /\ step[2] = "dev"
  PROVE  PlaceOK'
<1>1. polls' \in 0 .. ReadyPolls
  BY DEF PlaceOK
<1>2. CASE pc' \in Plain /\ item' \in {"key", "ca", "dev"}
  BY <1>1, <1>2, PlainPlace
<1>3. CASE pc' = "key list" /\ item' = "dev"
  BY <1>1, <1>3 DEF PlaceOK, Commands
<1>4. QED
  BY <1>2, <1>3 DEF GoTo

LEMMA PlaceStep == ASSUME FlagsOK, PlaceOK, Next PROVE PlaceOK'
<1>1. CASE Call
  BY <1>1, NoPollsYet DEF Call, PlaceOK, Commands
<1>2. CASE BootDone \/ PowerLoss
  BY <1>2 DEF BootDone, PowerLoss, PlaceOK, local
<1>3. CASE Crash \/ QueryBands \/ RadioOff \/ ConfigureEnds \/ CheckKey
  BY <1>3, PlainGoes DEF Crash, QueryBands, RadioOff, ConfigureEnds, CheckKey, Plain, local
<1>4. CASE QueryIp \/ WriteBands \/ WriteIp \/ SoftReset
  BY <1>4, PlainGoes DEF QueryIp, WriteBands, WriteIp, Write, SoftReset, Plain, local
<1>5. CASE QueryCfun \/ RadioOn \/ DeleteKey \/ Save
  BY <1>5, PlainGoes DEF QueryCfun, RadioOn, AfterRadio, DeleteKey, Save, Plain, local
<1>6. CASE Sync
  <2>1. UNCHANGED <<polls, item>> /\ pc = "sync"
    BY <1>6 DEF Sync, local
  <2>2. pc' = "app" \/ pc' \in Plain
    BY <1>6 DEF Sync, Plain
  <2>3. CASE pc' = "app"
    BY <2>1, <2>3 DEF PlaceOK, Commands
  <2>4. QED
    BY <2>1, <2>2, <2>3, PlainGoes
<1>7. CASE WaitForAppReady
  <2>1. UNCHANGED item /\ polls < ReadyPolls /\ polls \in Nat
    BY <1>7, PollsAssumption DEF WaitForAppReady, PlaceOK
  <2>2. polls' = polls \/ polls' = polls + 1
    BY <1>7 DEF WaitForAppReady
  <2>3. polls' \in 0 .. ReadyPolls
    BY <2>1, <2>2, PollsAssumption
  <2>4. (pc' = "app" /\ polls' < ReadyPolls) \/ pc' \in Plain
    BY <1>7 DEF WaitForAppReady, Plain
  <2>5. CASE pc' = "app" /\ polls' < ReadyPolls
    BY <2>1, <2>3, <2>5 DEF PlaceOK, Commands
  <2>6. item \in {"key", "ca", "dev"}
    BY DEF PlaceOK
  <2>7. QED
    BY <2>1, <2>3, <2>4, <2>5, <2>6, PlainPlace
<1>8. CASE Resync \/ AwaitReboot
  <2>1. UNCHANGED item /\ polls \in 0 .. ReadyPolls /\ item \in {"key", "ca", "dev"}
    BY <1>8 DEF Resync, AwaitReboot, PlaceOK
  <2>2. polls' \in {0, polls, polls + 1} /\ (polls' = polls + 1 => polls + 1 < ReadyPolls)
    BY <1>8, <2>1, PollsAssumption DEF Resync, AwaitReboot
  <2>3. polls' \in 0 .. ReadyPolls
    BY <2>1, <2>2, PollsAssumption
  <2>4. (pc' = "reboot" /\ polls' < ReadyPolls) \/ pc' \in Plain
    BY <1>8, NoPollsYet DEF Resync, AwaitReboot, Plain
  <2>5. CASE pc' = "reboot" /\ polls' < ReadyPolls
    BY <2>1, <2>3, <2>5 DEF PlaceOK, Commands
  <2>6. QED
    BY <2>1, <2>3, <2>4, <2>5, PlainPlace
<1>9. CASE CheckCert
  <2>1. UNCHANGED polls /\ hasKey \in BOOLEAN /\ hasCert' \in BOOLEAN
    BY <1>9 DEF CheckCert, FlagsOK
  <2>2. GoTo(KeyBlock(hasKey, hasCert'))
    BY <1>9 DEF CheckCert
  <2>3. QED
    BY <2>1, <2>2, BlockPlaces, GoToPlace
<1>10. CASE AddKey
  <2>1. UNCHANGED polls /\ hasCert \in BOOLEAN
    BY <1>10 DEF AddKey, FlagsOK
  <2>2. \/ item = "key" /\ GoTo(CaBlock(hasCert, TRUE))
        \/ item # "key" /\ pc' = "cert del" /\ UNCHANGED item
        \/ pc' = "failed" /\ UNCHANGED item
    BY <1>10 DEF AddKey
  <2>3. CASE GoTo(CaBlock(hasCert, TRUE))
    BY <2>1, <2>3, BlockPlaces, GoToPlace
  <2>4. CASE item # "key" /\ pc' = "cert del" /\ UNCHANGED item
    BY <2>1, <2>4 DEF PlaceOK, Commands
  <2>5. CASE pc' = "failed" /\ UNCHANGED item
    BY <2>1, <2>5, PlainGoes DEF Plain
  <2>6. QED
    BY <2>2, <2>3, <2>4, <2>5
<1>11. CASE AddCert
  <2>1. UNCHANGED polls
    BY <1>11 DEF AddCert
  <2>2. \/ GoTo(DeviceBlock(TRUE))
        \/ GoTo(Finish(TRUE))
        \/ pc' = "failed" /\ UNCHANGED item
    BY <1>11 DEF AddCert
  <2>3. CASE GoTo(DeviceBlock(TRUE)) \/ GoTo(Finish(TRUE))
    BY <2>1, <2>3, BlockPlaces, GoToPlace
  <2>4. CASE pc' = "failed" /\ UNCHANGED item
    BY <2>1, <2>4, PlainGoes DEF Plain
  <2>5. QED
    BY <2>2, <2>3, <2>4
<1>12. CASE FindDeviceKey \/ DeleteCert
  <2>1. UNCHANGED <<polls, item>> /\ pc \in {"key list", "cert del"}
    BY <1>12 DEF FindDeviceKey, DeleteCert, local
  <2>2. pc' \in {"cert del", "cert add", "failed"}
    BY <1>12 DEF FindDeviceKey, DeleteCert
  <2>3. item # "key"
    BY <2>1 DEF PlaceOK
  <2>4. QED
    BY <2>1, <2>2, <2>3 DEF PlaceOK, Commands
<1>13. QED
  BY <1>1, <1>2, <1>3, <1>4, <1>5, <1>6, <1>7, <1>8, <1>9, <1>10, <1>11, <1>12 DEF Next, Step

LEMMA HostStep == HostOK /\ Next => HostOK'
BY HostParts, HostPartsNext, FlagsStep, PlaceStep

LEMMA TypeStep == TypeOK /\ [Next]_vars => TypeOK'
<1> SUFFICES ASSUME TypeOK, [Next]_vars PROVE TypeOK'
  OBVIOUS
<1>1. CASE Next
  BY <1>1, ModemStep, HostStep, HistoryStep DEF TypeOK
<1>2. CASE UNCHANGED vars
  <2>1. ModemOK /\ UNCHANGED vars => ModemOK'
    BY DEF vars, modem, ModemOK
  <2>2. HostOK /\ UNCHANGED vars => HostOK'
    BY DEF vars, local, HostOK
  <2>3. HistoryOK /\ UNCHANGED vars => HistoryOK'
    BY DEF vars, past, HistoryOK
  <2>4. QED
    BY <1>2, <2>1, <2>2, <2>3 DEF TypeOK
<1>3. QED
  BY <1>1, <1>2

\* Whatever fails, the modem's settings, the driver's flags and the position of
\* the call stay within their types, and the polls within their limit.
THEOREM BootTypeCorrect == Spec => []TypeOK
<1>1. QED
  BY InitTypeOK, TypeStep, PTL DEF Spec

-----------------------------------------------------------------------------
(* What configure() leaves behind.                                          *)

\* Where init() stands, what it has already seen or written.
BandsSet ==
  \/ pc = "ip="
  \/ bandsOk /\ pc \in {"ip?", "cfun=0"}
BothSet ==
  \/ configured
  \/ pc \in {"reset", "resync", "reboot", "at"}
ConfigureInv ==
  count.losses = 0 =>
    /\ BandsSet \/ BothSet => work.bands = "new"
    /\ BothSet => work.ip = "new"

\* The number of power losses only grows, and stays when there is none.
LEMMA LossesGrow ==
  TypeOK /\ Next =>
    /\ count'.losses = 0 => count.losses = 0
    /\ PowerLoss => count'.losses # 0
<1> SUFFICES ASSUME TypeOK, Next
    PROVE (count'.losses = 0 => count.losses = 0) /\ (PowerLoss => count'.losses # 0)
  OBVIOUS
<1>1. count \in [faults : 0 .. MaxFaults, losses : 0 .. MaxLosses, crashes : 0 .. MaxCrashes]
  BY DEF TypeOK, HistoryOK
<1>2. CASE Step
  <2>1. count'.losses = count.losses
    BY <1>1, <1>2, StepAnswered DEF Acked, NotAcked
  <2>2. ~PowerLoss \/ count'.losses = count.losses + 1
    BY <1>1 DEF PowerLoss
  <2>3. QED
    BY <1>1, <2>1, <2>2, BoundsAssumption
<1>3. CASE Call \/ BootDone
  BY <1>1, <1>3, BoundsAssumption DEF Call, BootDone, PowerLoss
<1>4. CASE PowerLoss
  BY <1>1, <1>4, BoundsAssumption DEF PowerLoss
<1>5. CASE Crash
  BY <1>1, <1>5, BoundsAssumption DEF Crash, PowerLoss
<1>6. QED
  BY <1>2, <1>3, <1>4, <1>5 DEF Next

LEMMA ConfigureStep == TypeOK /\ ConfigureInv /\ Next => ConfigureInv'
<1> SUFFICES ASSUME TypeOK, ConfigureInv, Next, count'.losses = 0 PROVE ConfigureInv'
  BY DEF ConfigureInv
<1>1. ~PowerLoss /\ count.losses = 0 /\ work \in Settings /\ HostOK
  BY LossesGrow DEF TypeOK, ModemOK
<1> USE <1>1 DEF ConfigureInv, BandsSet, BothSet
<1>2. CASE Call \/ BootDone \/ Crash
  <2>1. work' = work
    BY <1>2 DEF Call, BootDone, Crash, modem
  <2>2. CASE Call
    BY <2>1, <2>2 DEF Call
  <2>3. CASE BootDone
    BY <2>1, <2>3 DEF BootDone, local
  <2>4. CASE Crash
    BY <2>1, <2>4 DEF Crash, local
  <2>5. QED
    BY <1>2, <2>2, <2>3, <2>4
<1>3. CASE Sync \/ WaitForAppReady \/ Resync \/ AwaitReboot \/ ConfigureEnds
  BY <1>3 DEF Sync, WaitForAppReady, Resync, AwaitReboot, ConfigureEnds, modem, local
<1>4. CASE QueryBands
  BY <1>4 DEF QueryBands, modem
<1>5. CASE QueryIp
  BY <1>5 DEF QueryIp, Skip, modem, local, HostOK
<1>6. CASE RadioOff
  BY <1>6 DEF RadioOff, local
<1>7. CASE WriteBands \/ WriteIp
  BY <1>7 DEF WriteBands, WriteIp, Write, Settings, local
<1>8. CASE SoftReset
  BY <1>8 DEF SoftReset, SaveAndReboot, modem
<1>9. CASE QueryCfun \/ RadioOn
  BY <1>9 DEF QueryCfun, RadioOn, AfterRadio, modem, local
<1>10. CASE CheckKey \/ CheckCert
  BY <1>10 DEF CheckKey, CheckCert, GoTo, KeyBlock, CaBlock, DeviceBlock, Finish, modem
<1>11. CASE DeleteKey \/ DeleteCert \/ FindDeviceKey
  BY <1>11 DEF DeleteKey, DeleteCert, FindDeviceKey, Settings, modem, local
<1>12. CASE AddKey
  BY <1>12 DEF AddKey, GoTo, CaBlock, DeviceBlock, Finish, Settings
<1>13. CASE AddCert
  BY <1>13 DEF AddCert, GoTo, DeviceBlock, Finish, Settings
<1>14. CASE Save
  BY <1>14 DEF Save, SaveAndReboot, modem, local
<1>15. QED
  BY <1>1, <1>2, <1>3, <1>4, <1>5, <1>6, <1>7, <1>8, <1>9, <1>10, <1>11, <1>12,
     <1>13, <1>14 DEF Next, Step

\* _configured can be trusted: until the modem loses its power it works with
\* the bands and the IP preference of the build.
THEOREM ConfiguredStaysSet == Spec => []ConfiguredIsSet
<1>1. Init => ConfigureInv
  BY DEF Init, ConfigureInv, BandsSet, BothSet
<1>2. TypeOK /\ ConfigureInv /\ [Next]_vars => ConfigureInv'
  <2>1. TypeOK /\ ConfigureInv /\ UNCHANGED vars => ConfigureInv'
    BY DEF vars, modem, local, ConfigureInv, BandsSet, BothSet
  <2>2. QED
    BY <2>1, ConfigureStep
<1>3. ConfigureInv => ConfiguredIsSet
  BY DEF ConfigureInv, BothSet, ConfiguredIsSet
<1>4. QED
  BY <1>1, <1>2, <1>3, BootTypeCorrect, PTL DEF Spec

-----------------------------------------------------------------------------
(* What a successful init() leaves behind.                                  *)

Provisioning == {"key?", "cert?", "key del", "key add", "key list", "cert del", "cert add", "save"}

\* The key and the device certificate of the options are on the modem.
Provisioned == ~MissingKey(work) /\ ~MissingDev(work)

\* What is known of the modem at each command of init_tls(), as long as it
\* keeps its power.
StageInv ==
  "loss" \notin since =>
    /\ pc = "cert?" => (hasKey => work.key # "none")
    /\ pc = "key list" => ~MissingKey(work)
    /\ pc \in {"cert del", "cert add"} => work.key # "none"
    /\ pc = "save" \/ (pc = "ok" /\ "tls" \in options) => Provisioned

\* As long as nothing could mislead init(): a device certificate is never without
\* the CA certificate of the build, and where init() has come to says which there are.
CaInv ==
  misled = {} /\ "caCert" \in options =>
    /\ "dev" \in work.certs => "ca" \in work.certs
    /\ pc \in {"key del", "key add"} =>
         \/ hasCert /\ item = "key" /\ "ca" \in work.certs
         \/ ~hasCert /\ work.certs = {}
    /\ pc \in {"cert del", "cert add"} =>
         \/ item = "ca" /\ work.certs = {}
         \/ item # "ca" /\ "ca" \in work.certs
    /\ pc = "key list" => "ca" \in work.certs
    /\ pc = "save" \/ (pc = "ok" /\ "tls" \in options) => "ca" \in work.certs

\* The radio stays on from ensure_cfun1() to the reboot that saves.
RadioInv ==
  "loss" \notin since =>
    (pc \in Provisioning \/ (pc = "ok" /\ ~need) => cfun = 1)

\* Where the call stands among the blocks of init_tls().
BlockInv ==
  /\ pc \in {"key del", "key add"} => item \in {"key", "ca"}
  /\ pc \in {"cert del", "cert add"} => item \in {"ca", "dev"}
  /\ pc = "save" => need

TlsInv == BlockInv /\ StageInv /\ CaInv /\ RadioInv

\* A power loss is not forgotten before the next call.
LEMMA LossKnown ==
  ASSUME Step \/ BootDone, "loss" \notin since'
  PROVE  "loss" \notin since
<1>1. CASE Step
  BY <1>1, StepAnswered DEF Acked, NotAcked
<1>2. CASE BootDone
  BY <1>2 DEF BootDone
<1>3. QED
  BY <1>1, <1>2

LEMMA BlockStep == TypeOK /\ BlockInv /\ Next => BlockInv'
<1> SUFFICES ASSUME TypeOK, BlockInv, Next PROVE BlockInv'
  OBVIOUS
<1> USE DEF BlockInv, local
<1>1. CASE Call \/ BootDone \/ PowerLoss \/ Crash
  BY <1>1 DEF Call, BootDone, PowerLoss, Crash
<1>2. CASE Sync \/ WaitForAppReady \/ QueryBands \/ QueryIp \/ RadioOff
  BY <1>2 DEF Sync, WaitForAppReady, QueryBands, QueryIp, RadioOff
<1>3. CASE WriteBands \/ WriteIp \/ SoftReset \/ Resync \/ AwaitReboot \/ ConfigureEnds
  BY <1>3 DEF WriteBands, WriteIp, Write, SoftReset, Resync, AwaitReboot, ConfigureEnds
<1>4. CASE QueryCfun \/ RadioOn \/ CheckKey \/ Save
  BY <1>4 DEF QueryCfun, RadioOn, AfterRadio, CheckKey, Save
<1>5. CASE CheckCert
  BY <1>5 DEF CheckCert, GoTo, KeyBlock, CaBlock, DeviceBlock, Finish
<1>6. CASE DeleteKey \/ FindDeviceKey \/ DeleteCert
  BY <1>6 DEF DeleteKey, FindDeviceKey, DeleteCert, TypeOK, HostOK
<1>7. CASE AddKey
  BY <1>7 DEF AddKey, GoTo, CaBlock, DeviceBlock, Finish
<1>8. CASE AddCert
  BY <1>8 DEF AddCert, GoTo, DeviceBlock, Finish
<1>9. QED
  BY <1>1, <1>2, <1>3, <1>4, <1>5, <1>6, <1>7, <1>8 DEF Next, Step

LEMMA RadioStep == TypeOK /\ BlockInv /\ RadioInv /\ Next => RadioInv'
<1> SUFFICES ASSUME TypeOK, BlockInv, RadioInv, Next, "loss" \notin since' PROVE RadioInv'
  BY DEF RadioInv
<1> USE DEF RadioInv, Provisioning, local, modem
<1>1. CASE Call \/ Crash \/ PowerLoss
  BY <1>1 DEF Call, Crash, PowerLoss
<1>2. CASE BootDone
  BY <1>2 DEF BootDone
<1>3. CASE Sync \/ WaitForAppReady \/ QueryBands \/ QueryIp \/ RadioOff
  BY <1>3 DEF Sync, WaitForAppReady, QueryBands, QueryIp, RadioOff
<1>4. CASE WriteBands \/ WriteIp \/ SoftReset \/ Resync \/ AwaitReboot \/ ConfigureEnds
  BY <1>4 DEF WriteBands, WriteIp, Write, SoftReset, Resync, AwaitReboot, ConfigureEnds
<1>5. CASE QueryCfun \/ RadioOn
  BY <1>5 DEF QueryCfun, RadioOn, AfterRadio
<1>6. CASE CheckKey
  BY <1>6, LossKnown DEF CheckKey, Step
<1>7. CASE CheckCert
  BY <1>7, LossKnown DEF CheckCert, GoTo, KeyBlock, CaBlock, DeviceBlock, Finish, Step
<1>8. CASE DeleteKey \/ FindDeviceKey \/ DeleteCert
  BY <1>8, LossKnown DEF DeleteKey, FindDeviceKey, DeleteCert, Step
<1>9. CASE AddKey
  BY <1>9, LossKnown DEF AddKey, GoTo, CaBlock, DeviceBlock, Finish, Step
<1>10. CASE AddCert
  BY <1>10, LossKnown DEF AddCert, GoTo, DeviceBlock, Finish, Step
<1>11. CASE Save
  BY <1>11 DEF Save, BlockInv
<1>12. QED
  BY <1>1, <1>2, <1>3, <1>4, <1>5, <1>6, <1>7, <1>8, <1>9, <1>10, <1>11 DEF Next, Step

\* The build is given once.
LEMMA BuildStays == Next => options' = options
BY DEF Next, Call, BootDone, PowerLoss, Crash, Step, Sync, WaitForAppReady, QueryBands, QueryIp,
   RadioOff, WriteBands, WriteIp, Write, SoftReset, Resync, AwaitReboot, ConfigureEnds,
   QueryCfun, RadioOn, CheckKey, CheckCert, DeleteKey, AddKey, FindDeviceKey, DeleteCert,
   AddCert, Save

LEMMA StageStep == TypeOK /\ BlockInv /\ StageInv /\ Next => StageInv'
<1> SUFFICES ASSUME TypeOK, BlockInv, StageInv, Next, "loss" \notin since' PROVE StageInv'
  BY DEF StageInv
<1>1. work \in Settings /\ options' = options
  BY BuildStays DEF TypeOK, ModemOK
<1> USE <1>1 DEF StageInv, Provisioned, MissingKey, MissingDev
<1>2. CASE Call \/ Crash \/ PowerLoss
  BY <1>2 DEF Call, Crash, PowerLoss
<1>3. CASE BootDone
  BY <1>3 DEF BootDone, local
<1>4. CASE Sync \/ WaitForAppReady \/ QueryBands \/ QueryIp \/ RadioOff
  BY <1>4 DEF Sync, WaitForAppReady, QueryBands, QueryIp, RadioOff
<1>5. CASE WriteBands \/ WriteIp \/ SoftReset \/ Resync \/ AwaitReboot \/ ConfigureEnds
  BY <1>5 DEF WriteBands, WriteIp, Write, SoftReset, Resync, AwaitReboot, ConfigureEnds
<1>6. CASE QueryCfun \/ RadioOn
  BY <1>6 DEF QueryCfun, RadioOn, AfterRadio
<1>7. CASE CheckKey
  BY <1>7, LossKnown DEF CheckKey, Step, modem
<1>8. CASE CheckCert
  BY <1>8, LossKnown DEF CheckCert, GoTo, KeyBlock, CaBlock, DeviceBlock, Finish, Step, modem
<1>9. CASE DeleteKey
  BY <1>9, LossKnown DEF DeleteKey, Step, local, Settings
<1>10. CASE AddKey
  BY <1>10, LossKnown DEF AddKey, BlockInv, GoTo, CaBlock, DeviceBlock, Finish, Step, Settings
<1>11. CASE FindDeviceKey
  BY <1>11, LossKnown DEF FindDeviceKey, Step, local, modem
<1>12. CASE DeleteCert
  BY <1>12, LossKnown DEF DeleteCert, Step, local, Settings
<1>13. CASE AddCert
  <2>1. "loss" \notin since /\ work.key # "none" /\ item \in {"ca", "dev"}
    BY <1>13, LossKnown DEF AddCert, BlockInv, Step
  <2>2. \/ pc' = "failed"
        \/ /\ work' = [work EXCEPT !.certs = @ \cup {item}]
           /\ \/ pc' = "key list"
              \/ pc' = "save" /\ ("deviceCert" \in options => item = "dev")
    BY <1>13, <2>1 DEF AddCert, GoTo, DeviceBlock, Finish
  <2>3. CASE pc' = "failed"
    BY <2>3
  <2>4. CASE work' = [work EXCEPT !.certs = @ \cup {item}] /\ pc' \in {"key list", "save"}
    <3>1. work'.key # "none" /\ item \in work'.certs /\ work'.certs # {}
      BY <1>1, <2>1, <2>4 DEF Settings
    <3>2. pc' = "save" => ("deviceCert" \in options => "dev" \in work'.certs)
      BY <2>2, <2>4, <3>1
    <3>3. QED
      BY <1>1, <2>4, <3>1, <3>2
  <2>5. QED
    BY <2>2, <2>3, <2>4
<1>14. CASE Save
  BY <1>14, LossKnown DEF Save, SaveAndReboot, Step, local, modem
<1>15. QED
  BY <1>2, <1>3, <1>4, <1>5, <1>6, <1>7, <1>8, <1>9, <1>10, <1>11, <1>12, <1>13,
     <1>14 DEF Next, Step

\* Nothing misleads init() that did not do so before.
LEMMA MisledKnown == ASSUME Next, misled' = {} PROVE misled = {} /\ ~PowerLoss
BY MisledStep DEF PowerLoss

LEMMA CaStep == TypeOK /\ BlockInv /\ CaInv /\ Next => CaInv'
<1> SUFFICES ASSUME TypeOK, BlockInv, CaInv, Next, misled' = {}, "caCert" \in options'
             PROVE  CaInv'
  BY DEF CaInv
<1>1. /\ work \in Settings /\ work.certs \subseteq {"ca", "dev"} /\ item \in {"key", "ca", "dev"}
      /\ hasKey \in BOOLEAN /\ hasCert \in BOOLEAN
  BY DEF TypeOK, ModemOK, HostOK, Settings
<1>2. options' = options /\ "caCert" \in options /\ misled = {} /\ ~PowerLoss
  BY MisledKnown, BuildStays
<1>3. "dev" \in work.certs => "ca" \in work.certs
  BY <1>2 DEF CaInv
<1>4. ASSUME work' = work, pc' \notin {"key del", "key add", "cert del", "cert add", "key list",
                                     "save", "ok"}
      PROVE  CaInv'
  BY <1>3, <1>4 DEF CaInv
<1>5. CASE Call \/ Crash \/ Sync \/ WaitForAppReady \/ QueryBands \/ QueryIp \/ CheckKey
  BY <1>4, <1>5 DEF Call, Crash, Sync, WaitForAppReady, QueryBands, QueryIp, CheckKey, modem
<1>6. CASE BootDone
  BY <1>2, <1>6 DEF BootDone, CaInv, local
<1>7. CASE RadioOff \/ SoftReset \/ Resync \/ AwaitReboot \/ ConfigureEnds
  BY <1>4, <1>7 DEF RadioOff, SoftReset, SaveAndReboot, Resync, AwaitReboot, ConfigureEnds, modem
<1>8. CASE WriteBands \/ WriteIp
  <2>1. work' \in {work, [work EXCEPT !.bands = "new"], [work EXCEPT !.ip = "new"]}
        /\ pc' \in {"ip=", "reset", "failed"}
    BY <1>8 DEF WriteBands, WriteIp, Write
  <2>2. work'.certs = work.certs
    BY <1>1, <2>1 DEF Settings
  <2>3. QED
    BY <1>3, <2>1, <2>2 DEF CaInv
<1>9. CASE QueryCfun \/ RadioOn
  <2>1. work' = work /\ (pc' \in {"cfun=1", "key?", "failed"} \/ (pc' = "ok" /\ "tls" \notin options))
    BY <1>9 DEF QueryCfun, RadioOn, AfterRadio, modem
  <2>2. QED
    BY <1>2, <1>3, <2>1 DEF CaInv
<1>10. CASE CheckCert
  <2>1. work' = work /\ UNCHANGED hasKey /\ GoTo(KeyBlock(hasKey, hasCert'))
    BY <1>10 DEF CheckCert, modem
  <2>2. misled' = misled \/ "query" \in misled'
    BY <1>10 DEF CheckCert
  <2>3. hasCert' = (work.certs # {})
    BY <1>2, <1>10, <2>2 DEF CheckCert
  <2>4. CASE work.certs = {}
    <3>1. ~hasCert'
      BY <2>3, <2>4
    <3>2. pc' = "key del"
      BY <1>2, <2>1, <3>1 DEF GoTo, KeyBlock, CaBlock
    <3>3. QED
      BY <2>1, <2>4, <3>1, <3>2 DEF CaInv
  <2>5. CASE work.certs # {}
    <3>1. hasCert' /\ "ca" \in work.certs
      BY <1>1, <1>3, <2>3, <2>5
    <3>2. \/ pc' = "key del" /\ item' = "key"
          \/ pc' \in {"key list", "save", "ok"}
      BY <2>1, <3>1 DEF GoTo, KeyBlock, CaBlock, DeviceBlock, Finish
    <3>3. QED
      BY <2>1, <3>1, <3>2 DEF CaInv
  <2>6. QED
    BY <2>4, <2>5
<1>11. CASE DeleteKey
  <2>1. pc = "key del" /\ pc' = "key add" /\ item' = item /\ hasCert' = hasCert
    BY <1>11 DEF DeleteKey, local
  <2>2. work'.certs = work.certs
    BY <1>1, <1>11 DEF DeleteKey, Settings
  <2>3. QED
    BY <1>2, <2>1, <2>2 DEF CaInv
<1>12. CASE AddKey
  <2>1. work'.certs = work.certs
    BY <1>1, <1>12 DEF AddKey, Settings
  <2>2. IF hasCert THEN item = "key" /\ "ca" \in work.certs ELSE work.certs = {}
    BY <1>2, <1>12 DEF AddKey, CaInv
  <2>3. UNCHANGED hasCert /\ item \in {"key", "ca"}
    BY <1>12 DEF AddKey, BlockInv
  <2>4. \/ item = "key" /\ GoTo(CaBlock(hasCert, TRUE))
        \/ item # "key" /\ pc' = "cert del" /\ UNCHANGED item
        \/ pc' = "failed"
    BY <1>12 DEF AddKey
  <2>5. CASE item = "key" /\ GoTo(CaBlock(hasCert, TRUE))
    <3>1. \/ ~hasCert /\ pc' = "key del" /\ item' = "ca"
          \/ hasCert /\ pc' \in {"key list", "save"}
      BY <1>2, <2>5 DEF GoTo, CaBlock, DeviceBlock, Finish
    <3>2. QED
      BY <1>3, <2>1, <2>2, <2>3, <3>1 DEF CaInv
  <2>6. CASE item # "key" /\ pc' = "cert del" /\ UNCHANGED item
    BY <1>3, <2>1, <2>2, <2>3, <2>6 DEF CaInv
  <2>7. CASE pc' = "failed"
    BY <1>3, <2>1, <2>7 DEF CaInv
  <2>8. QED
    BY <2>4, <2>5, <2>6, <2>7
<1>13. CASE FindDeviceKey
  <2>1. work' = work /\ item' = item /\ pc = "key list" /\ pc' \in {"cert del", "failed"}
    BY <1>13 DEF FindDeviceKey, modem, local
  <2>2. item = "dev" /\ "ca" \in work.certs
    BY <1>2, <2>1 DEF CaInv, TypeOK, HostOK
  <2>3. QED
    BY <2>1, <2>2 DEF CaInv
<1>14. CASE DeleteCert
  <2>1. pc = "cert del" /\ pc' = "cert add" /\ item' = item /\ item \in {"ca", "dev"}
    BY <1>14 DEF DeleteCert, local, BlockInv
  <2>2. IF item = "ca" THEN work.certs = {} ELSE "ca" \in work.certs
    BY <1>2, <2>1 DEF CaInv
  <2>3. work'.certs \in {work.certs, work.certs \ {item}}
    BY <1>1, <1>14 DEF DeleteCert, Settings
  <2>4. QED
    BY <1>3, <2>1, <2>2, <2>3 DEF CaInv
<1>15. CASE AddCert
  <2>1. pc = "cert add" /\ item \in {"ca", "dev"}
    BY <1>15 DEF AddCert, BlockInv
  <2>2. IF item = "ca" THEN work.certs = {} ELSE "ca" \in work.certs
    BY <1>2, <2>1 DEF CaInv
  <2>3. \/ pc' = "failed"
        \/ work' = [work EXCEPT !.certs = @ \cup {item}] /\ pc' \in {"key list", "save"}
    BY <1>15, <2>1 DEF AddCert, GoTo, DeviceBlock, Finish
  <2>4. work'.certs \in {work.certs, work.certs \cup {item}}
    BY <1>1, <1>15 DEF AddCert, Settings
  <2>5. CASE pc' = "failed"
    BY <1>3, <2>1, <2>2, <2>4, <2>5 DEF CaInv
  <2>6. CASE work' = [work EXCEPT !.certs = @ \cup {item}] /\ pc' \in {"key list", "save"}
    <3>1. "ca" \in work'.certs
      BY <1>1, <2>1, <2>2, <2>6 DEF Settings
    <3>2. QED
      BY <2>6, <3>1 DEF CaInv
  <2>7. QED
    BY <2>3, <2>5, <2>6
<1>16. CASE Save
  <2>1. work' = work /\ pc = "save" /\ pc' \in {"ok", "failed"}
    BY <1>16 DEF Save, SaveAndReboot, modem
  <2>2. "ca" \in work.certs
    BY <1>2, <2>1 DEF CaInv
  <2>3. QED
    BY <2>1, <2>2 DEF CaInv
<1>17. QED
  BY <1>2, <1>5, <1>6, <1>7, <1>8, <1>9, <1>10, <1>11, <1>12, <1>13, <1>14, <1>15,
     <1>16 DEF Next, Step

LEMMA TlsInvariant == Spec => []TlsInv
<1>1. Init => TlsInv
  BY DEF Init, TlsInv, BlockInv, StageInv, CaInv, RadioInv, Provisioning, Settings
<1>2. TypeOK /\ TlsInv /\ [Next]_vars => TlsInv'
  <2>1. TlsInv /\ UNCHANGED vars => TlsInv'
    <3>1. BlockInv /\ UNCHANGED vars => BlockInv'
      <4>1. UNCHANGED vars => UNCHANGED <<pc, item>> /\ need' = need
        BY DEF vars, local
      <4>2. QED
        BY <4>1, Zenon DEF BlockInv
    <3>2. StageInv /\ UNCHANGED vars => StageInv'
      <4>1. UNCHANGED vars => UNCHANGED <<options, pc, item, work, since>>
                              /\ hasKey' = hasKey /\ hasCert' = hasCert
        BY DEF vars, modem, local
      <4>2. UNCHANGED <<options, work>> =>
              MissingKey(work)' = MissingKey(work) /\ Provisioned' = Provisioned
        BY DEF MissingKey, MissingDev, Provisioned
      <4>3. QED
        BY <4>1, <4>2 DEF StageInv
    <3>3. RadioInv /\ UNCHANGED vars => RadioInv'
      BY DEF vars, modem, local, RadioInv
    <3>4. CaInv /\ UNCHANGED vars => CaInv'
      <4>1. UNCHANGED vars => UNCHANGED <<options, pc, item, work, misled>> /\ hasCert' = hasCert
        BY DEF vars, modem, local, past
      <4>2. QED
        BY <4>1 DEF CaInv
    <3>5. QED
      BY <3>1, <3>2, <3>3, <3>4 DEF TlsInv
  <2>2. QED
    BY <2>1, BlockStep, RadioStep, StageStep, CaStep DEF TlsInv
<1>3. QED
  BY <1>1, <1>2, BootTypeCorrect, PTL DEF Spec

\* When init() succeeds on a modem that kept its power, the key and the device
\* certificate of the build are on it, whatever failed in this call and those
\* before it; and so is the CA certificate, unless a query for the certificates
\* failed in any call, the power was ever lost, or the modem came with a device
\* certificate alone (init_tls, check_profile, add_certificate).
THEOREM SuccessIsProvisioned == Spec => []ProvisionedWhenOk
<1>1. TlsInv => ProvisionedWhenOk
  BY DEF TlsInv, StageInv, CaInv, Provisioned, ProvisionedWhenOk, MissingCa
<1>2. QED
  BY <1>1, TlsInvariant, PTL

\* When init() succeeds on a modem that kept its power, without a reboot at its
\* end, the radio is on.
THEOREM SuccessIsOnline == Spec => []OnlineWhenOk
<1>1. TlsInv => OnlineWhenOk
  BY DEF TlsInv, RadioInv, OnlineWhenOk
<1>2. QED
  BY <1>1, TlsInvariant, PTL
-----------------------------------------------------------------------------
(* A modem that has everything is left alone.                               *)

\* Where a call can be that found nothing missing and was not disturbed.
Quiet == {"idle", "ok", "failed", "sync", "app", "bands?", "ip?", "cfun?",
          "cfun=1", "key?", "cert?"}

\* The strengthening: such a call has changed nothing, is at no command that
\* writes, and remembers the answers that keep it away from one.
LeftAlone ==
  complete /\ since = {} /\ "deviceCert" \notin options =>
    /\ ~Incomplete(work)
    /\ pc \in Quiet
    /\ pc = "ip?" => bandsOk
    /\ pc \in {"key?", "cert?"} => "tls" \in options
    /\ pc = "cert?" /\ "generateKey" \in options => hasKey

\* No command of an undisturbed call fails, and none has.
LEMMA UndisturbedStep ==
  ASSUME Step, since' = {}
  PROVE  since = {} /\ complete' = complete /\ Acked
BY StepAnswered DEF Acked, NotAcked

\* The commands that write are out of the reach of such a call.
LEMMA QuietStep ==
  ASSUME Step, pc \in Quiet
  PROVE  Sync \/ WaitForAppReady \/ QueryBands \/ QueryIp \/ QueryCfun \/ RadioOn
         \/ CheckKey \/ CheckCert
BY DEF Step, Quiet, Sync, WaitForAppReady, QueryBands, QueryIp, RadioOff, WriteBands,
   WriteIp, Write, SoftReset, Resync, AwaitReboot, ConfigureEnds, QueryCfun, RadioOn,
   CheckKey, CheckCert, DeleteKey, AddKey, FindDeviceKey, DeleteCert, AddCert, Save

\* A command that was acknowledged was not missed: the disjunct NotAcked is out.
LEMMA NoFault == since' = {} => ~NotAcked
BY DEF NotAcked

LEMMA LeftAloneStep == TypeOK /\ LeftAlone /\ Next => LeftAlone'
<1> SUFFICES ASSUME TypeOK, LeftAlone, Next, complete', since' = {},
                    "deviceCert" \notin options'
             PROVE  /\ ~Incomplete(work)'
                    /\ pc' \in Quiet
                    /\ pc' = "ip?" => bandsOk'
                    /\ pc' \in {"key?", "cert?"} => "tls" \in options'
                    /\ pc' = "cert?" /\ "generateKey" \in options' => hasKey'
  BY DEF LeftAlone
<1>0. "deviceCert" \notin options
  BY BuildStays
<1>1. CASE Call
  BY <1>1 DEF Call, modem, Quiet, Incomplete, MissingKey, MissingCa, MissingDev
<1>2. CASE BootDone
  BY <1>0, <1>2 DEF BootDone, local, past, LeftAlone, Incomplete, MissingKey, MissingCa, MissingDev
<1>3. CASE PowerLoss
  BY <1>3 DEF PowerLoss
<1>4. CASE Crash
  BY <1>0, <1>4 DEF Crash, modem, past, LeftAlone, Quiet, Incomplete, MissingKey, MissingCa, MissingDev
<1>5. CASE Step
  <2>1. complete /\ since = {} /\ ~NotAcked
    BY <1>5, UndisturbedStep, NoFault
  <2>2. /\ ~Incomplete(work) /\ pc \in Quiet
        /\ pc = "ip?" => bandsOk
        /\ pc \in {"key?", "cert?"} => "tls" \in options
        /\ pc = "cert?" /\ "generateKey" \in options => hasKey
    BY <1>0, <2>1 DEF LeftAlone
  <2>3. work.bands = "new" /\ work.ip = "new"
    BY <2>2 DEF TypeOK, ModemOK, Settings, Incomplete
  <2>4. "tls" \in options => ~MissingKey(work) /\ ~MissingCa(work)
    BY <2>2 DEF Incomplete
  <2>5. ASSUME UNCHANGED <<options, work>> PROVE ~Incomplete(work)'
    BY <2>2, <2>5 DEF Incomplete, MissingKey, MissingCa, MissingDev
  <2>6. AfterRadio \in {"key?", "ok"} /\ (AfterRadio = "key?" => "tls" \in options)
    BY DEF AfterRadio
  <2>7. CASE Sync
    BY <2>5, <2>1, <2>7 DEF Sync, Quiet, modem
  <2>8. CASE WaitForAppReady
    BY <2>5, <2>1, <2>8 DEF WaitForAppReady, Quiet, modem
  <2>9. CASE QueryBands
    BY <2>5, <2>1, <2>3, <2>9 DEF QueryBands, Quiet, modem
  <2>10. CASE QueryIp
    BY <2>5, <2>1, <2>2, <2>3, <2>10 DEF QueryIp, Skip, Quiet, modem
  <2>11. CASE QueryCfun
    BY <2>5, <2>1, <2>6, <2>11 DEF QueryCfun, Quiet, modem
  <2>12. CASE RadioOn
    BY <2>5, <2>1, <2>6, <2>12 DEF RadioOn, Quiet
  <2>13. CASE CheckKey
    BY <2>5, <2>1, <2>2, <2>4, <2>13 DEF CheckKey, Quiet, modem, MissingKey
  <2>14. CASE CheckCert
    <3>1. pc = "cert?" /\ hasCert' = (work.certs # {}) /\ UNCHANGED <<options, work>>
      BY <2>1, <2>14 DEF CheckCert, modem
    <3>2. "generateKey" \in options => hasKey
      BY <2>2, <3>1
    <3>3. /\ "caCert" \in options => hasCert'
          /\ "deviceCert" \notin options
      BY <1>0, <2>2, <2>4, <3>1 DEF MissingCa
    <3>4. pc' = "ok"
      BY <2>14, <3>2, <3>3 DEF CheckCert, GoTo, KeyBlock, CaBlock, DeviceBlock, Finish
    <3>5. QED
      BY <2>5, <3>1, <3>4 DEF Quiet
  <2>15. QED
    BY <1>5, <2>2, QuietStep, <2>7, <2>8, <2>9, <2>10, <2>11, <2>12, <2>13, <2>14
<1>6. QED
  BY <1>1, <1>2, <1>3, <1>4, <1>5 DEF Next

\* Without a device certificate in the build, a call that starts on a modem with
\* every setting and credential in place saves and reboots only after one of its
\* commands failed or the power did.
THEOREM SavedOnlyWhenNeeded == Spec => NoNeedlessSave
<1>1. Init => LeftAlone
  BY DEF Init, LeftAlone
<1>2. TypeOK /\ LeftAlone /\ [Next]_vars => LeftAlone'
  <2>1. UNCHANGED vars => UNCHANGED <<options, work, pc, complete, since>>
                          /\ bandsOk' = bandsOk /\ hasKey' = hasKey
    BY DEF vars, modem, local, past
  <2>2. UNCHANGED <<options, work>> => Incomplete(work)' = Incomplete(work)
    BY DEF Incomplete, MissingKey, MissingCa, MissingDev
  <2>3. LeftAlone /\ UNCHANGED vars => LeftAlone'
    BY <2>1, <2>2 DEF LeftAlone
  <2>4. QED
    BY <2>3, LeftAloneStep
<1>3. LeftAlone /\ [Next]_vars => [(SoftReset \/ Save) /\ complete /\ "deviceCert" \notin options => since # {}]_vars
  BY DEF LeftAlone, SoftReset, Save, Quiet
<1>4. QED
  BY <1>1, <1>2, <1>3, BootTypeCorrect, PTL DEF Spec, NoNeedlessSave

-----------------------------------------------------------------------------
(* What is saved, and whose key is kept.  CaCertSaved does not hold; this is *)
(* what does.                                                                *)

\* What this call added is saved: a call that provisioned something and succeeds
\* leaves the modem with nothing that a reset would take away.
SavedWhenProvisioned == pc = "ok" /\ need => nvm = work

\* A call that has provisioned something stands behind the first block.
SavedInv ==
  /\ SavedWhenProvisioned
  /\ need => pc \in {"key del", "key add", "key list", "cert del", "cert add", "save",
                     "ok", "failed", "idle"}

\* Before the first block there is nothing to save.
LEMMA SavedEarly ==
  ASSUME SavedInv, UNCHANGED need,
         pc \notin {"key del", "key add", "key list", "cert del", "cert add", "save",
                   "ok", "failed", "idle"}
  PROVE  SavedInv'
<1>1. ~need
  BY DEF SavedInv
<1>2. ~need'
  BY <1>1
<1>3. QED
  BY <1>2 DEF SavedInv, SavedWhenProvisioned

LEMMA SavedStep == TypeOK /\ SavedInv /\ Next => SavedInv'
<1> SUFFICES ASSUME TypeOK, SavedInv, Next PROVE SavedInv'
  OBVIOUS
<1> need \in BOOLEAN
  BY DEF TypeOK, HostOK
<1> USE DEF SavedInv, SavedWhenProvisioned
<1>1. CASE Call \/ Crash
  BY <1>1 DEF Call, Crash
<1>2. CASE BootDone \/ PowerLoss
  <2>1. UNCHANGED <<pc, need>> /\ (nvm' = work' \/ UNCHANGED <<work, nvm>>)
    BY <1>2 DEF BootDone, PowerLoss, local
  <2>2. QED
    BY <2>1
<1>3. CASE Sync \/ WaitForAppReady \/ QueryBands \/ QueryIp \/ RadioOff
  <2>1. UNCHANGED need /\ pc \in {"sync", "app", "bands?", "ip?", "cfun=0"}
    BY <1>3 DEF Sync, WaitForAppReady, QueryBands, QueryIp, RadioOff, local
  <2>2. QED
    BY <2>1, SavedEarly
<1>4. CASE WriteBands \/ WriteIp \/ SoftReset \/ Resync \/ AwaitReboot \/ ConfigureEnds
  <2>1. UNCHANGED need /\ pc \in {"bands=", "ip=", "reset", "resync", "reboot", "at"}
    BY <1>4 DEF WriteBands, WriteIp, Write, SoftReset, Resync, AwaitReboot, ConfigureEnds, local
  <2>2. QED
    BY <2>1, SavedEarly
<1>5. CASE QueryCfun \/ RadioOn \/ CheckKey \/ CheckCert
  <2>1. UNCHANGED need /\ pc \in {"cfun?", "cfun=1", "key?", "cert?"}
    BY <1>5 DEF QueryCfun, RadioOn, CheckKey, CheckCert, local
  <2>2. QED
    BY <2>1, SavedEarly
<1>6. CASE DeleteKey \/ FindDeviceKey \/ DeleteCert
  BY <1>6 DEF DeleteKey, FindDeviceKey, DeleteCert
<1>7. CASE AddKey
  <2>1. pc' \in {"key del", "key list", "save", "cert del", "failed"}
    BY <1>7 DEF AddKey, GoTo, CaBlock, DeviceBlock, Finish
  <2>2. QED
    BY <2>1
<1>8. CASE AddCert
  <2>1. pc' \in {"key list", "save", "failed"}
    BY <1>8 DEF AddCert, GoTo, DeviceBlock, Finish
  <2>2. QED
    BY <2>1
<1>9. CASE Save
  <2>1. \/ pc' = "ok" /\ nvm' = work /\ work' = work
        \/ pc' = "failed"
    BY <1>9 DEF Save, SaveAndReboot
  <2>2. QED
    BY <2>1
<1>10. QED
  BY <1>1, <1>2, <1>3, <1>4, <1>5, <1>6, <1>7, <1>8, <1>9 DEF Next, Step

\* A call of init() that added a key or a certificate and succeeds has saved all the
\* modem works with, whatever failed before and even if the power goes afterwards
\* (init_tls, save_to_nvm).  The certificates that CaCertSaved misses are therefore
\* always the work of an earlier call, which broke off.
THEOREM SuccessIsSaved == Spec => []SavedWhenProvisioned
<1>1. Init => SavedInv
  BY DEF Init, SavedInv, SavedWhenProvisioned
<1>2. SavedInv /\ UNCHANGED vars => SavedInv'
  <2>1. UNCHANGED vars => UNCHANGED <<pc, need, work, nvm>>
    BY DEF vars, modem, local
  <2>2. QED
    BY <2>1 DEF SavedInv, SavedWhenProvisioned
<1>3. SavedInv => SavedWhenProvisioned
  BY DEF SavedInv
<1>4. QED
  BY <1>1, <1>2, <1>3, SavedStep, BootTypeCorrect, PTL DEF Spec

\* A build that neither generates keys nor adds CA certificates is not at the
\* commands on keys, and its key is the saved one.
KeyInv == LeavesKeys => pc \notin {"key del", "key add"} /\ nvm.key = work.key

\* Such a build never gets to the commands on keys.
LEMMA KeyStep ==
  ASSUME TypeOK, KeyInv, LeavesKeys, Next
  PROVE  work'.key = work.key /\ nvm'.key = work.key /\ pc' \notin {"key del", "key add"}
<1>1. work \in Settings /\ pc \notin {"key del", "key add"} /\ nvm.key = work.key
  BY DEF TypeOK, ModemOK, KeyInv
<1>2. ASSUME work' = work, UNCHANGED nvm \/ nvm' = work
      PROVE  work'.key = work.key /\ nvm'.key = work.key
  BY <1>1, <1>2
<1>3. CASE Call \/ BootDone \/ Crash
  BY <1>1, <1>2, <1>3 DEF Call, BootDone, Crash, modem
<1>4. CASE PowerLoss
  BY <1>1, <1>4 DEF PowerLoss
<1>5. CASE Sync \/ WaitForAppReady \/ QueryBands \/ QueryIp \/ RadioOff
  BY <1>2, <1>5 DEF Sync, WaitForAppReady, QueryBands, QueryIp, RadioOff, modem
<1>6. CASE WriteBands \/ WriteIp
  <2>1. /\ UNCHANGED nvm /\ pc' \in {"ip=", "reset", "failed"}
        /\ work' \in {work, [work EXCEPT !.bands = "new"], [work EXCEPT !.ip = "new"]}
    BY <1>6 DEF WriteBands, WriteIp, Write
  <2>2. work'.key = work.key
    BY <1>1, <2>1 DEF Settings
  <2>3. QED
    BY <1>1, <2>1, <2>2
<1>7. CASE SoftReset \/ Save
  <2>1. work' = work /\ (UNCHANGED nvm \/ nvm' = work) /\ pc' \in {"resync", "ok", "failed"}
    BY <1>7 DEF SoftReset, Save, SaveAndReboot, modem
  <2>2. QED
    BY <1>2, <2>1
<1>8. CASE Resync \/ AwaitReboot \/ ConfigureEnds \/ QueryCfun \/ RadioOn \/ CheckKey
  BY <1>1, <1>2, <1>8 DEF Resync, AwaitReboot, ConfigureEnds, QueryCfun, RadioOn, AfterRadio,
     CheckKey, modem
<1>9. CASE CheckCert
  <2>1. pc' \in {"key list", "save", "ok"}
    BY <1>9 DEF CheckCert, GoTo, KeyBlock, CaBlock, DeviceBlock, Finish, LeavesKeys
  <2>2. UNCHANGED <<work, nvm>>
    BY <1>9 DEF CheckCert, modem
  <2>3. QED
    BY <1>2, <2>1, <2>2
<1>10. CASE DeleteKey \/ AddKey
  BY <1>1, <1>10 DEF DeleteKey, AddKey
<1>11. CASE FindDeviceKey
  BY <1>2, <1>11 DEF FindDeviceKey, modem
<1>12. CASE DeleteCert \/ AddCert
  <2>1. UNCHANGED nvm
        /\ work' \in {work, [work EXCEPT !.certs = @ \ {item}], [work EXCEPT !.certs = @ \cup {item}]}
    BY <1>12 DEF DeleteCert, AddCert
  <2>2. pc' \in {"cert add", "key list", "save", "failed"}
    BY <1>12 DEF DeleteCert, AddCert, GoTo, DeviceBlock, Finish
  <2>3. work'.key = work.key
    BY <1>1, <2>1 DEF Settings
  <2>4. QED
    BY <1>1, <2>1, <2>2, <2>3
<1>13. QED
  BY <1>3, <1>4, <1>5, <1>6, <1>7, <1>8, <1>9, <1>10, <1>11, <1>12 DEF Next, Step

\* In a build that neither generates a key nor adds a CA certificate, a
\* pre-provisioned key is left alone: no failure, power loss or restart makes init()
\* touch it (init_tls, generate_key).  It is the placeholder of
\* add_ca_certificate() alone that replaces such keys unasked.
THEOREM KeyKept == Spec => ProvisionedKeyKept
<1>1. Init => KeyInv
  BY DEF Init, KeyInv
<1>2. TypeOK /\ KeyInv /\ [Next]_vars => KeyInv'
  <2>1. KeyInv /\ UNCHANGED vars => KeyInv'
    BY DEF vars, modem, KeyInv, LeavesKeys
  <2>2. ASSUME TypeOK, KeyInv, Next PROVE KeyInv'
    BY <2>2, KeyStep, BuildStays DEF KeyInv, LeavesKeys
  <2>3. QED
    BY <2>1, <2>2
<1>3. TypeOK /\ KeyInv /\ [Next]_vars =>
        [work.key = "user" /\ LeavesKeys => work'.key = "user"]_vars
  BY KeyStep
<1>4. QED
  BY <1>1, <1>2, <1>3, BootTypeCorrect, PTL DEF Spec, ProvisionedKeyKept

-----------------------------------------------------------------------------
(* How long a call can get.                                                  *)

Ended == {"idle", "ok", "failed"}

\* CommandsLeft, position by position.
LeftIs ==
  /\ pc \in {"idle", "ok", "failed"} => CommandsLeft = 0
  /\ pc = "save"     => CommandsLeft = 1
  /\ pc = "cert add" => CommandsLeft = IF item = "ca" THEN 5 ELSE 2
  /\ pc = "cert del" => CommandsLeft = IF item = "ca" THEN 6 ELSE 3
  /\ pc = "key list" => CommandsLeft = 4
  /\ pc = "key add"  => CommandsLeft = IF item = "ca" THEN 7 ELSE 9
  /\ pc = "key del"  => CommandsLeft = IF item = "ca" THEN 8 ELSE 10
  /\ pc = "cert?"    => CommandsLeft = 11
  /\ pc = "key?"     => CommandsLeft = 12
  /\ pc = "cfun=1"   => CommandsLeft = 13
  /\ pc = "cfun?"    => CommandsLeft = 14
  /\ pc = "at"       => CommandsLeft = 15
  /\ pc = "reboot"   => CommandsLeft = 15 + (ReadyPolls - polls)
  /\ pc = "resync"   => CommandsLeft = 16 + ReadyPolls
  /\ pc = "reset"    => CommandsLeft = 17 + ReadyPolls
  /\ pc = "ip="      => CommandsLeft = 18 + ReadyPolls
  /\ pc = "bands="   => CommandsLeft = 19 + ReadyPolls
  /\ pc = "cfun=0"   => CommandsLeft = 20 + ReadyPolls
  /\ pc = "ip?"      => CommandsLeft = 21 + ReadyPolls
  /\ pc = "bands?"   => CommandsLeft = 22 + ReadyPolls
  /\ pc = "app"      => CommandsLeft = 22 + ReadyPolls + (ReadyPolls - polls)
  /\ pc = "sync"     => CommandsLeft = 23 + ReadyPolls + ReadyPolls

LEMMA LeftCases == LeftIs
<1>1. pc \in {"idle", "ok", "failed"} => CommandsLeft = 0
  BY DEF CommandsLeft
<1>2. ASSUME pc \notin {"idle", "ok", "failed"} PROVE LeftIs
  BY <1>2 DEF CommandsLeft, LeftIs
<1>3. QED
  BY <1>1, <1>2 DEF LeftIs

LEMMA LeftIsNatural ==
  ASSUME HostOK
  PROVE  CommandsLeft \in Nat /\ (pc \notin Ended => CommandsLeft > 0)
<1>1. polls \in 0 .. ReadyPolls /\ ReadyPolls \in Nat /\ (pc \in {"app", "reboot"} => polls < ReadyPolls)
  BY PollsAssumption DEF HostOK
<1>2. pc \in Commands \cup Ended
  BY DEF HostOK, Ended
<1>3. LeftIs
  BY LeftCases
<1>4. CASE pc \in {"save", "cert add", "cert del", "key list", "key add", "key del", "cert?",
                  "key?", "cfun=1", "cfun?", "at"}
  <2>1. CommandsLeft \in {1, 2, 3, 4, 5, 6, 7, 8, 9, 10, 11, 12, 13, 14, 15}
    BY <1>3, <1>4 DEF LeftIs
  <2>2. QED
    BY <2>1
<1>5. CASE pc \in {"resync", "reset", "ip=", "bands=", "cfun=0", "ip?", "bands?"}
  <2>1. CommandsLeft \in {16 + ReadyPolls, 17 + ReadyPolls, 18 + ReadyPolls, 19 + ReadyPolls,
                         20 + ReadyPolls, 21 + ReadyPolls, 22 + ReadyPolls}
    BY <1>3, <1>5 DEF LeftIs
  <2>2. QED
    BY <1>1, <2>1
<1>6. CASE pc \in {"reboot", "app", "sync"}
  <2>1. CommandsLeft \in {15 + (ReadyPolls - polls), 22 + ReadyPolls + (ReadyPolls - polls),
                         23 + ReadyPolls + ReadyPolls}
    BY <1>3, <1>6 DEF LeftIs
  <2>2. QED
    BY <1>1, <2>1
<1>7. CASE pc \in Ended
  <2>1. CommandsLeft = 0
    BY <1>3, <1>7 DEF LeftIs, Ended
  <2>2. QED
    BY <1>7, <2>1
<1>8. QED
  BY <1>2, <1>4, <1>5, <1>6, <1>7 DEF Commands

\* A command that ends the call leaves nothing.
LEMMA EndShortens ==
  ASSUME HostOK, pc \notin Ended, pc' \in Ended
  PROVE  CommandsLeft' \in 0 .. (CommandsLeft - 1)
<1>1. CommandsLeft' = 0
  <2>1. LeftIs'
    BY LeftCases, PTL
  <2>2. QED
    BY <2>1 DEF LeftIs, Ended
<1>2. QED
  BY <1>1, LeftIsNatural

LEMMA PollsToGo == ASSUME NEW n \in 0 .. ReadyPolls PROVE ReadyPolls - n \in 0 .. ReadyPolls
BY PollsAssumption

LEMMA ConfigureShortens ==
  ASSUME HostOK, HostOK',
         \/ Sync \/ WaitForAppReady \/ QueryBands \/ QueryIp \/ RadioOff \/ WriteBands
         \/ WriteIp \/ SoftReset \/ Resync \/ AwaitReboot \/ ConfigureEnds
  PROVE  CommandsLeft' \in 0 .. (CommandsLeft - 1)
<1>0. LeftIs /\ LeftIs'
  BY LeftCases, PTL
<1>1. /\ polls \in 0 .. ReadyPolls /\ polls' \in 0 .. ReadyPolls /\ ReadyPolls \in Nat
      /\ pc \in {"sync", "app", "reboot"} => polls < ReadyPolls
  BY PollsAssumption DEF HostOK
<1>2. CASE Sync
  <2>0. polls' \in 0 .. ReadyPolls /\ ReadyPolls \in Nat
    BY <1>1
  <2>1. pc = "sync" /\ pc' \in {"cfun?", "app", "failed"}
    BY <1>2 DEF Sync
  <2>2. /\ CommandsLeft = 23 + ReadyPolls + ReadyPolls
        /\ CommandsLeft' \in {0, 14, 22 + ReadyPolls + (ReadyPolls - polls')}
    BY <1>0, <2>1 DEF LeftIs
  <2>3. CASE CommandsLeft' = 0
    BY <2>0, <2>2, <2>3
  <2>4. CASE CommandsLeft' = 14
    BY <2>0, <2>2, <2>4
  <2>5. CASE CommandsLeft' = 22 + ReadyPolls + (ReadyPolls - polls')
    <3>1. CommandsLeft = 23 + ReadyPolls + ReadyPolls
      BY <2>2
    <3>2. ReadyPolls - polls' \in 0 .. ReadyPolls
      BY <2>0, PollsToGo
    <3>3. PICK k \in 0 .. ReadyPolls : CommandsLeft' = 22 + ReadyPolls + k
      BY <2>5, <3>2
    <3>4. QED
      BY <2>0, <3>1, <3>3
  <2>6. QED
    BY <2>2, <2>3, <2>4, <2>5
<1>3. CASE WaitForAppReady
  <2>1. /\ pc = "app"
        /\ \/ pc' \in {"bands?", "failed"}
           \/ pc' = "app" /\ polls' = polls + 1
    BY <1>3 DEF WaitForAppReady
  <2>2. /\ CommandsLeft = 22 + ReadyPolls + (ReadyPolls - polls)
        /\ \/ CommandsLeft' \in {0, 22 + ReadyPolls}
           \/ polls' = polls + 1 /\ CommandsLeft' = 22 + ReadyPolls + (ReadyPolls - polls')
    BY <1>0, <2>1 DEF LeftIs
  <2>3. QED
    BY <1>1, <2>1, <2>2
<1>4. CASE QueryBands
  <2>1. pc = "bands?" /\ pc' \in {"ip?", "failed"}
    BY <1>4 DEF QueryBands
  <2>2. /\ CommandsLeft = 22 + ReadyPolls
        /\ CommandsLeft' \in {0, 21 + ReadyPolls}
    BY <1>0, <2>1 DEF LeftIs
  <2>3. QED
    BY <1>1, <2>1, <2>2
<1>5. CASE QueryIp
  <2>1. pc = "ip?" /\ pc' \in {"cfun?", "cfun=0"}
    BY <1>5 DEF QueryIp
  <2>2. /\ CommandsLeft = 21 + ReadyPolls
        /\ CommandsLeft' \in {14, 20 + ReadyPolls}
    BY <1>0, <2>1 DEF LeftIs
  <2>3. QED
    BY <1>1, <2>1, <2>2
<1>6. CASE RadioOff
  <2>1. pc = "cfun=0" /\ pc' \in {"ip=", "bands=", "failed"}
    BY <1>6 DEF RadioOff
  <2>2. /\ CommandsLeft = 20 + ReadyPolls
        /\ CommandsLeft' \in {0, 18 + ReadyPolls, 19 + ReadyPolls}
    BY <1>0, <2>1 DEF LeftIs
  <2>3. QED
    BY <1>1, <2>1, <2>2
<1>7. CASE WriteBands
  <2>1. pc = "bands=" /\ pc' \in {"ip=", "failed"}
    BY <1>7 DEF WriteBands, Write
  <2>2. /\ CommandsLeft = 19 + ReadyPolls
        /\ CommandsLeft' \in {0, 18 + ReadyPolls}
    BY <1>0, <2>1 DEF LeftIs
  <2>3. QED
    BY <1>1, <2>1, <2>2
<1>8. CASE WriteIp
  <2>1. pc = "ip=" /\ pc' \in {"reset", "failed"}
    BY <1>8 DEF WriteIp, Write
  <2>2. /\ CommandsLeft = 18 + ReadyPolls
        /\ CommandsLeft' \in {0, 17 + ReadyPolls}
    BY <1>0, <2>1 DEF LeftIs
  <2>3. QED
    BY <1>1, <2>1, <2>2
<1>9. CASE SoftReset
  <2>1. pc = "reset" /\ pc' = "resync"
    BY <1>9 DEF SoftReset
  <2>2. /\ CommandsLeft = 17 + ReadyPolls
        /\ CommandsLeft' \in {16 + ReadyPolls}
    BY <1>0, <2>1 DEF LeftIs
  <2>3. QED
    BY <1>1, <2>1, <2>2
<1>10. CASE Resync
  <2>0. polls' \in 0 .. ReadyPolls /\ ReadyPolls \in Nat
    BY <1>1
  <2>1. pc = "resync" /\ ((pc' = "reboot" /\ polls' = 0) \/ pc' = "failed")
    BY <1>10 DEF Resync
  <2>2. /\ CommandsLeft = 16 + ReadyPolls
        /\ CommandsLeft' \in {0, 15 + (ReadyPolls - polls')}
    BY <1>0, <2>1 DEF LeftIs
  <2>3. CASE CommandsLeft' = 0
    BY <2>0, <2>2, <2>3
  <2>4. CASE CommandsLeft' = 15 + (ReadyPolls - polls')
    <3>1. CommandsLeft = 16 + ReadyPolls
      BY <2>2
    <3>2. ReadyPolls - polls' \in 0 .. ReadyPolls
      BY <2>0, PollsToGo
    <3>3. PICK k \in 0 .. ReadyPolls : CommandsLeft' = 15 + k
      BY <2>4, <3>2
    <3>4. QED
      BY <2>0, <3>1, <3>3
  <2>5. QED
    BY <2>2, <2>3, <2>4
<1>11. CASE AwaitReboot
  <2>1. /\ pc = "reboot"
        /\ \/ pc' \in {"at", "failed"}
           \/ pc' = "reboot" /\ polls' = polls + 1
    BY <1>11 DEF AwaitReboot
  <2>2. /\ CommandsLeft = 15 + (ReadyPolls - polls)
        /\ \/ CommandsLeft' \in {0, 15}
           \/ polls' = polls + 1 /\ CommandsLeft' = 15 + (ReadyPolls - polls')
    BY <1>0, <2>1 DEF LeftIs
  <2>3. QED
    BY <1>1, <2>1, <2>2
<1>12. CASE ConfigureEnds
  <2>1. pc = "at" /\ pc' \in {"cfun?", "failed"}
    BY <1>12 DEF ConfigureEnds
  <2>2. /\ CommandsLeft = 15
        /\ CommandsLeft' \in {0, 14}
    BY <1>0, <2>1 DEF LeftIs
  <2>3. QED
    BY <1>1, <2>1, <2>2
<1>13. QED
  BY <1>2, <1>3, <1>4, <1>5, <1>6, <1>7, <1>8, <1>9, <1>10, <1>11, <1>12

LEMMA TlsShortens ==
  ASSUME HostOK, HostOK',
         \/ QueryCfun \/ RadioOn \/ CheckKey \/ CheckCert \/ DeleteKey \/ AddKey
         \/ FindDeviceKey \/ DeleteCert \/ AddCert \/ Save
  PROVE  CommandsLeft' \in 0 .. (CommandsLeft - 1)
<1>0. LeftIs /\ LeftIs'
  BY LeftCases, PTL
<1>1. item \in {"key", "ca", "dev"} /\ hasKey \in BOOLEAN /\ hasCert \in BOOLEAN /\ hasCert' \in BOOLEAN
  BY DEF HostOK
<1>2. CASE QueryCfun
  <2>1. pc = "cfun?" /\ pc' \in {"key?", "ok", "cfun=1", "failed"}
    BY <1>2 DEF QueryCfun, AfterRadio
  <2>2. /\ CommandsLeft = 14
        /\ CommandsLeft' \in {0, 12, 13}
    BY <1>0, <2>1 DEF LeftIs
  <2>3. QED
    BY <1>1, <2>1, <2>2
<1>3. CASE RadioOn
  <2>1. pc = "cfun=1" /\ pc' \in {"key?", "ok", "failed"}
    BY <1>3 DEF RadioOn, AfterRadio
  <2>2. /\ CommandsLeft = 13
        /\ CommandsLeft' \in {0, 12}
    BY <1>0, <2>1 DEF LeftIs
  <2>3. QED
    BY <1>1, <2>1, <2>2
<1>4. CASE CheckKey
  <2>1. pc = "key?" /\ pc' = "cert?"
    BY <1>4 DEF CheckKey
  <2>2. CommandsLeft = 12 /\ CommandsLeft' = 11
    BY <1>0, <2>1 DEF LeftIs
  <2>3. QED
    BY <2>2
<1>5. CASE CheckCert
  <2>1. pc = "cert?"
    BY <1>5 DEF CheckCert
  <2>2. pc' \in {"key del", "key list", "save", "ok"}
    BY <1>5 DEF CheckCert, GoTo, KeyBlock, CaBlock, DeviceBlock, Finish
  <2>3. CommandsLeft = 11 /\ CommandsLeft' \in {0, 1, 4, 8, 10}
    BY <1>0, <2>1, <2>2 DEF LeftIs
  <2>4. QED
    BY <2>3
<1>6. CASE DeleteKey
  <2>1. pc = "key del" /\ pc' = "key add" /\ item' = item
    BY <1>6 DEF DeleteKey, local
  <2>2. CASE item = "ca"
    <3>1. CommandsLeft = 8 /\ CommandsLeft' = 7
      BY <1>0, <2>1, <2>2 DEF LeftIs
    <3>2. QED
      BY <3>1
  <2>3. CASE item # "ca"
    <3>1. CommandsLeft = 10 /\ CommandsLeft' = 9
      BY <1>0, <2>1, <2>3 DEF LeftIs
    <3>2. QED
      BY <3>1
  <2>4. QED
    BY <2>2, <2>3
<1>7. CASE AddKey
  <2>1. CASE item = "key" /\ GoTo(CaBlock(hasCert, TRUE))
    <3>1. pc' \in {"key del", "key list", "save", "ok"} /\ (pc' = "key del" => item' = "ca")
      BY <2>1 DEF GoTo, CaBlock, DeviceBlock, Finish
    <3>2. \/ pc' = "key del" /\ item' = "ca"
          \/ pc' \in {"key list", "save", "ok"}
      BY <3>1
    <3>3. pc = "key add"
      BY <1>7 DEF AddKey
    <3>4. CommandsLeft = 9
      BY <1>0, <2>1, <3>3 DEF LeftIs
    <3>5. CommandsLeft' \in {0, 1, 4, 8}
      BY <1>0, <3>2 DEF LeftIs
    <3>6. QED
      BY <3>4, <3>5
  <2>2. CASE pc' = "failed"
    <3>1. pc = "key add"
      BY <1>7 DEF AddKey
    <3>2. QED
      BY <2>2, <3>1, EndShortens DEF Ended
  <2>3. CASE item # "key" /\ pc' = "cert del" /\ item' = item
    <3>1. pc = "key add"
      BY <1>7 DEF AddKey
    <3>2. CASE item = "ca"
      <4>1. CommandsLeft = 7 /\ CommandsLeft' = 6
        BY <1>0, <2>3, <3>1, <3>2 DEF LeftIs
      <4>2. QED
        BY <4>1
    <3>3. CASE item # "ca"
      <4>1. CommandsLeft = 9 /\ CommandsLeft' = 3
        BY <1>0, <2>3, <3>1, <3>3 DEF LeftIs
      <4>2. QED
        BY <4>1
    <3>4. QED
      BY <3>2, <3>3
  <2>4. QED
    BY <1>7, <2>1, <2>2, <2>3 DEF AddKey
<1>8. CASE FindDeviceKey
  <2>1. pc = "key list" /\ pc' \in {"cert del", "failed"} /\ item' = item
    BY <1>8 DEF FindDeviceKey, local
  <2>2. CommandsLeft = 4
    BY <1>0, <2>1 DEF LeftIs
  <2>3. CommandsLeft' \in {0, 3}
    <3>1. item = "dev"
      BY <2>1 DEF HostOK
    <3>2. QED
      BY <1>0, <2>1, <3>1 DEF LeftIs
  <2>4. QED
    BY <2>2, <2>3
<1>9. CASE DeleteCert
  <2>1. pc = "cert del" /\ pc' = "cert add" /\ item' = item
    BY <1>9 DEF DeleteCert, local
  <2>2. CASE item = "ca"
    <3>1. CommandsLeft = 6 /\ CommandsLeft' = 5
      BY <1>0, <2>1, <2>2 DEF LeftIs
    <3>2. QED
      BY <3>1
  <2>3. CASE item # "ca"
    <3>1. CommandsLeft = 3 /\ CommandsLeft' = 2
      BY <1>0, <2>1, <2>3 DEF LeftIs
    <3>2. QED
      BY <3>1
  <2>4. QED
    BY <2>2, <2>3
<1>10. CASE AddCert
  <2>1. pc = "cert add"
    BY <1>10 DEF AddCert
  <2>2. CASE GoTo(IF item = "ca" THEN DeviceBlock(TRUE) ELSE Finish(TRUE)) /\ item = "ca"
    <3>1. pc' \in {"key list", "save"}
      BY <2>2 DEF GoTo, DeviceBlock, Finish
    <3>2. CommandsLeft = 5 /\ CommandsLeft' \in {1, 4}
      BY <1>0, <2>1, <2>2, <3>1 DEF LeftIs
    <3>3. QED
      BY <3>2
  <2>3. CASE GoTo(IF item = "ca" THEN DeviceBlock(TRUE) ELSE Finish(TRUE)) /\ item # "ca"
    <3>1. pc' = "save"
      BY <2>3 DEF GoTo, Finish
    <3>2. CommandsLeft = 2 /\ CommandsLeft' = 1
      BY <1>0, <2>1, <2>3, <3>1 DEF LeftIs
    <3>3. QED
      BY <3>2
  <2>4. CASE pc' = "failed"
    BY <2>1, <2>4, EndShortens DEF Ended
  <2>5. QED
    BY <1>10, <2>2, <2>3, <2>4 DEF AddCert
<1>11. CASE Save
  <2>1. pc = "save" /\ pc' \in {"ok", "failed"}
    BY <1>11 DEF Save
  <2>2. /\ CommandsLeft = 1
        /\ CommandsLeft' \in {0}
    BY <1>0, <2>1 DEF LeftIs
  <2>3. QED
    BY <1>1, <2>1, <2>2
<1>12. QED
  BY <1>2, <1>3, <1>4, <1>5, <1>6, <1>7, <1>8, <1>9, <1>10, <1>11

LEMMA InitShorter ==
  ASSUME TypeOK, [Next]_vars, pc \notin Ended
  PROVE  CommandsLeft' \in 0 .. CommandsLeft /\ (Step => CommandsLeft' # CommandsLeft)
<1>1. HostOK /\ HostOK' /\ CommandsLeft \in Nat /\ CommandsLeft > 0
  BY TypeStep, LeftIsNatural DEF TypeOK
<1>2. CASE Step
  <2>1. CommandsLeft' \in 0 .. (CommandsLeft - 1)
    BY <1>1, <1>2, ConfigureShortens, TlsShortens DEF Step
  <2>2. QED
    BY <1>1, <2>1
<1>3. CASE ~Step /\ (BootDone \/ PowerLoss \/ UNCHANGED vars)
  <2>1. UNCHANGED <<pc, polls, item>>
    BY <1>3 DEF BootDone, PowerLoss, vars, local
  <2>2. CommandsLeft' = CommandsLeft
    BY <2>1 DEF CommandsLeft
  <2>3. QED
    BY <1>1, <1>3, <2>2
<1>4. CASE ~Step /\ Crash
  <2>1. pc' \in Ended
    BY <1>4 DEF Crash, Ended
  <2>2. QED
    BY <1>1, <1>4, <2>1, EndShortens
<1>5. QED
  BY <1>2, <1>3, <1>4 DEF Next, Call, Ended

\* A call of init() sends at most 23 + 2 * ReadyPolls of the model's commands (those
\* of the preamble count as one), on whatever modem it finds: each brings it nearer to its end, and neither a failure nor a power loss
\* takes it back to an earlier one (ST87M01::init, configure, init_tls).
THEOREM InitBounded == Spec => InitShortens
<1>1. TypeOK /\ [Next]_vars =>
        [pc \notin {"idle", "ok", "failed"} =>
           CommandsLeft' \in 0 .. CommandsLeft /\ (Step => CommandsLeft' # CommandsLeft)]_vars
  BY InitShorter DEF Ended
<1>2. QED
  BY <1>1, InitTypeOK, TypeStep, PTL DEF Spec, InitShortens
=============================================================================
