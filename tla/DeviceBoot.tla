----------------------------- MODULE DeviceBoot -----------------------------
(***************************************************************************)
(* ST87M01::init(): the sequence of AT commands that brings the modem to   *)
(* the settings and the TLS credentials of the build options, saves them   *)
(* in NVM and reboots.  The host calls it again after a failure and for    *)
(* every later connection; commands fail or stay unanswered, the modem     *)
(* loses power, the host restarts, each between any two commands.          *)
(***************************************************************************)
EXTENDS Integers

CONSTANTS
  OptionSets,   \* the builds: subsets of {"tls", "generateKey", "caCert", "deviceCert"}
  ReadyPolls,   \* AT#SIMST polls while the application processor boots
  MaxFaults,    \* commands that fail on a modem that has booted
  MaxLosses,    \* power losses of the modem
  MaxCrashes    \* restarts of the host

ASSUME OptionsAssumption ==
  OptionSets \subseteq SUBSET {"tls", "generateKey", "caCert", "deviceCert"}
ASSUME PollsAssumption  == ReadyPolls \in Nat \ {0}
ASSUME BoundsAssumption == MaxFaults \in Nat /\ MaxLosses \in Nat /\ MaxCrashes \in Nat

VARIABLES
  options,      \* the build options; never change
  work,         \* the settings and credentials the modem works with
  nvm,          \* those it boots with
  cfun,         \* 1 when the radio is on
  booting,      \* the application processor answers CME 1120
  configured,   \* ST87M01::_configured
  pc,           \* the next command of init(); "idle", "ok" and "failed" between calls
  polls,
  bandsOk,      \* bands_match
  resetErr,     \* soft_reset(): AT#RESET=1 was not acknowledged
  hasKey, hasCert, need,    \* init_tls(): has_key, has_cert, need_save
  item,         \* what is being provisioned: "key", "ca" or "dev"
  complete,     \* history: nothing was missing when this call began
  misled,       \* history: what could make init() miss that the CA certificate is gone
  since,        \* history: "fault", "loss" since this call began
  count         \* faults, losses and crashes so far

modem == <<work, nvm, cfun, booting>>
local == <<polls, bandsOk, resetErr, hasKey, hasCert, need, item>>
past  == <<complete, misled>>
vars  == <<options, modem, configured, pc, local, past, since, count>>

Settings == [bands : {"old", "new"}, ip : {"old", "new"},
             key : {"none", "user", "generated"}, certs : SUBSET {"ca", "dev"}]

\* What the build asks for and a modem in state s does not have.
MissingKey(s)  == "generateKey" \in options /\ s.key = "none"
MissingCa(s)   == "caCert" \in options /\ "ca" \notin s.certs
MissingDev(s)  == "deviceCert" \in options /\ ("dev" \notin s.certs \/ s.key = "none")
Incomplete(s) ==
  \/ s.bands = "old" \/ s.ip = "old"
  \/ "tls" \in options /\ (MissingKey(s) \/ MissingCa(s) \/ MissingDev(s))

Init ==
  /\ options \in OptionSets
  /\ nvm \in Settings /\ nvm.key # "generated"
  /\ work = nvm
  /\ cfun \in {0, 1} /\ booting \in BOOLEAN
  /\ configured = FALSE /\ pc = "idle"
  /\ polls = 0 /\ bandsOk = FALSE /\ resetErr = FALSE
  /\ hasKey = FALSE /\ hasCert = FALSE /\ need = FALSE /\ item = "key"
  /\ complete = FALSE /\ since = {}
  /\ misled = IF nvm.certs = {"dev"} THEN {"device"} ELSE {}
  /\ count = [faults |-> 0, losses |-> 0, crashes |-> 0]

-----------------------------------------------------------------------------
(* The modem and its environment.                                           *)

BootDone ==
  /\ booting /\ booting' = FALSE
  /\ UNCHANGED <<options, work, nvm, cfun, configured, pc, local, past, since, count>>

\* What was not saved may be lost, item by item; the rest was persistent.
PowerLoss ==
  /\ count.losses < MaxLosses
  /\ count' = [count EXCEPT !.losses = @ + 1]
  /\ \E s \in Settings :
       /\ s.bands \in {work.bands, nvm.bands} /\ s.ip \in {work.ip, nvm.ip}
       /\ s.key \in {work.key, nvm.key} /\ s.certs \in {work.certs, nvm.certs}
       /\ work' = s /\ nvm' = s
  /\ cfun' \in {0, 1} /\ booting' = TRUE
  /\ since' = since \cup {"loss"} /\ misled' = misled \cup {"loss"}
  /\ UNCHANGED <<options, configured, pc, local, complete>>

\* The host restarts; the modem keeps running.
Crash ==
  /\ count.crashes < MaxCrashes
  /\ count' = [count EXCEPT !.crashes = @ + 1]
  /\ pc' = "idle" /\ configured' = FALSE
  /\ UNCHANGED <<options, modem, local, past, since>>

\* A command is acknowledged, or it is not: refused by a modem that boots, or
\* lost on the way there or back.
Acked == UNCHANGED <<since, count>>
NotAcked ==
  /\ since' = since \cup {"fault"}
  /\ \/ booting /\ UNCHANGED count
     \/ ~booting /\ count.faults < MaxFaults /\ count' = [count EXCEPT !.faults = @ + 1]

\* AT#RESET=1 saves the working settings and reboots.
SaveAndReboot ==
  /\ nvm' = work /\ booting' = TRUE /\ cfun' \in {0, 1}
  /\ UNCHANGED work

-----------------------------------------------------------------------------
(* init(), up to configure().                                               *)

Call ==
  /\ pc \in {"idle", "ok", "failed"}
  /\ pc' = "sync"
  /\ complete' = ~Incomplete(work) /\ since' = {}
  /\ polls' = 0 /\ bandsOk' = FALSE /\ resetErr' = FALSE
  /\ hasKey' = FALSE /\ hasCert' = FALSE /\ need' = FALSE /\ item' = "key"
  /\ UNCHANGED <<options, modem, configured, misled, count>>

\* AT and ATE0; the rest of the preamble may fail.
Sync ==
  /\ pc = "sync"
  /\ \/ Acked /\ pc' = IF configured THEN "cfun?" ELSE "app"
     \/ NotAcked /\ pc' = "failed"
  /\ UNCHANGED <<options, modem, configured, local, past>>

-----------------------------------------------------------------------------
(* configure().                                                             *)

\* A bug: no limit to the polls.
WaitForAppReadyForever ==
  /\ pc = "app" /\ polls' = polls + 1 /\ Acked
  /\ pc' = IF booting THEN "app" ELSE "bands?"
  /\ UNCHANGED <<options, modem, configured, bandsOk, resetErr, hasKey, hasCert, need, item, past>>

\* CME 1120 is asked again, any other error is not.
WaitForAppReady ==
  /\ pc = "app"
  /\ \/ ~booting /\ Acked /\ pc' = "bands?" /\ UNCHANGED polls
     \/ ~booting /\ NotAcked /\ pc' = "failed" /\ UNCHANGED polls
     \/ /\ booting /\ UNCHANGED <<since, count>>
        /\ polls' = polls + 1
        /\ pc' = IF polls' < ReadyPolls THEN "app" ELSE "failed"
  /\ UNCHANGED <<options, modem, configured, bandsOk, resetErr, hasKey, hasCert, need, item, past>>

QueryBands ==
  /\ pc = "bands?"
  /\ \/ Acked /\ bandsOk' = (work.bands = "new") /\ pc' = "ip?"
     \/ NotAcked /\ pc' = "failed" /\ UNCHANGED bandsOk
  /\ UNCHANGED <<options, modem, configured, polls, resetErr, hasKey, hasCert, need, item, past>>

\* A bug: one match is enough to skip the cold start.
SkipEither(bands, ip) == bands \/ ip
Skip(bands, ip) == bands /\ ip

\* A query that fails counts as a mismatch.
QueryIp ==
  /\ pc = "ip?"
  /\ \E match \in BOOLEAN :
       /\ \/ Acked /\ match = (work.ip = "new")
          \/ NotAcked /\ ~match
       /\ IF Skip(bandsOk, match)
          THEN pc' = "cfun?" /\ configured' = TRUE
          ELSE pc' = "cfun=0" /\ UNCHANGED configured
  /\ UNCHANGED <<options, modem, local, past>>

RadioOff ==
  /\ pc = "cfun=0"
  /\ \/ Acked /\ cfun' = 0 /\ pc' = IF bandsOk THEN "ip=" ELSE "bands="
     \/ NotAcked /\ cfun' \in {cfun, 0} /\ pc' = "failed"
  /\ UNCHANGED <<options, work, nvm, booting, configured, local, past>>

\* Both settings are only writable while the radio is off.
Write(s, next) ==
  /\ \/ cfun = 0 /\ Acked /\ work' = s /\ pc' = next
     \/ cfun = 0 /\ NotAcked /\ work' \in {work, s} /\ pc' = "failed"
     \/ cfun = 1 /\ UNCHANGED <<work, since, count>> /\ pc' = "failed"
  /\ UNCHANGED <<options, nvm, cfun, booting, configured, local, past>>

WriteBands == pc = "bands=" /\ Write([work EXCEPT !.bands = "new"], "ip=")

WriteIp == pc = "ip=" /\ Write([work EXCEPT !.ip = "new"], "reset")

\* soft_reset(): the result of AT#RESET=1 is kept while the reboot is awaited.
SoftReset ==
  /\ pc = "reset" /\ pc' = "resync"
  /\ \/ Acked /\ SaveAndReboot /\ resetErr' = FALSE
     \/ NotAcked /\ (SaveAndReboot \/ UNCHANGED modem) /\ resetErr' = TRUE
  /\ UNCHANGED <<options, configured, polls, bandsOk, hasKey, hasCert, need, item, past>>

Resync ==
  /\ pc = "resync"
  /\ \/ Acked /\ pc' = "reboot" /\ polls' = 0
     \/ NotAcked /\ pc' = "failed" /\ UNCHANGED polls
  /\ UNCHANGED <<options, modem, configured, bandsOk, resetErr, hasKey, hasCert, need, item, past>>

\* Any answer but CME 1120 ends the wait, and so does the last poll.
AwaitReboot ==
  /\ pc = "reboot"
  /\ \/ booting /\ polls + 1 < ReadyPolls /\ polls' = polls + 1 /\ Acked /\ UNCHANGED pc
     \/ /\ ~booting \/ polls + 1 = ReadyPolls
        /\ Acked \/ NotAcked
        /\ pc' = IF resetErr THEN "failed" ELSE "at"
        /\ UNCHANGED polls
  /\ UNCHANGED <<options, modem, configured, bandsOk, resetErr, hasKey, hasCert, need, item, past>>

ConfigureEnds ==
  /\ pc = "at"
  /\ \/ Acked /\ pc' = "cfun?" /\ configured' = TRUE
     \/ NotAcked /\ pc' = "failed" /\ UNCHANGED configured
  /\ UNCHANGED <<options, modem, local, past>>

-----------------------------------------------------------------------------
(* ensure_cfun1().                                                          *)

AfterRadio == IF "tls" \in options THEN "key?" ELSE "ok"

\* A bug: any answer counts as "on".
QueryCfunLax ==
  /\ pc = "cfun?"
  /\ \/ Acked /\ pc' = AfterRadio
     \/ NotAcked /\ pc' = "failed"
  /\ UNCHANGED <<options, modem, configured, local, past>>

QueryCfun ==
  /\ pc = "cfun?"
  /\ \/ Acked /\ pc' = IF cfun = 1 THEN AfterRadio ELSE "cfun=1"
     \/ NotAcked /\ pc' = "failed"
  /\ UNCHANGED <<options, modem, configured, local, past>>

\* A radio that is on already refuses (CME 98).
RadioOn ==
  /\ pc = "cfun=1"
  /\ \/ cfun = 0 /\ Acked /\ cfun' = 1 /\ pc' = AfterRadio
     \/ NotAcked /\ cfun' \in {cfun, 1} /\ pc' = "failed"
     \/ cfun = 1 /\ UNCHANGED <<cfun, since, count>> /\ pc' = "failed"
  /\ UNCHANGED <<options, work, nvm, booting, configured, local, past>>

-----------------------------------------------------------------------------
(* init_tls().                                                              *)

\* check_profile(): an error of AT#TLSKEYLIST, of any kind, means no key.
CheckKey ==
  /\ pc = "key?" /\ pc' = "cert?"
  /\ \/ Acked /\ hasKey' = (work.key # "none")
     \/ NotAcked /\ hasKey' = FALSE
  /\ UNCHANGED <<options, modem, configured, polls, bandsOk, resetErr, hasCert, need, item, past>>

\* The order of the three blocks of init_tls(): <<next command, item>>.
Finish(save) == IF save THEN <<"save", "key">> ELSE <<"ok", "key">>
DeviceBlock(save) ==
  IF "deviceCert" \in options THEN <<"key list", "dev">> ELSE Finish(save)
CaBlock(cert, save) ==
  IF ~cert /\ "caCert" \in options THEN <<"key del", "ca">> ELSE DeviceBlock(save)
\* A bug: a key that was not found is generated, asked for or not.
KeyBlockAlways(key, cert) ==
  IF ~key THEN <<"key del", "key">> ELSE CaBlock(cert, FALSE)
KeyBlock(key, cert) ==
  IF ~key /\ "generateKey" \in options THEN <<"key del", "key">> ELSE CaBlock(cert, FALSE)
GoTo(step) == pc' = step[1] /\ item' = step[2]

\* A bug: only the key decides.
CheckCertByKey ==
  /\ pc = "cert?"
  /\ Acked \/ NotAcked
  /\ hasCert' = hasKey
  /\ GoTo(KeyBlock(hasKey, hasCert'))
  /\ UNCHANGED <<options, modem, configured, polls, bandsOk, resetErr, hasKey, need, past>>

\* AT#TLSCERTLIST succeeds when the profile holds a certificate of either type.
CheckCert ==
  /\ pc = "cert?"
  /\ \/ Acked /\ hasCert' = (work.certs # {}) /\ UNCHANGED misled
     \/ NotAcked /\ hasCert' = FALSE /\ misled' = misled \cup {"query"}
  /\ GoTo(KeyBlock(hasKey, hasCert'))
  /\ UNCHANGED <<options, modem, configured, polls, bandsOk, resetErr, hasKey, need, complete>>

\* A bug: the key in place is not deleted first.
DeleteKeyNot ==
  /\ pc = "key del" /\ pc' = "key add"
  /\ Acked
  /\ UNCHANGED <<options, modem, configured, local, past>>

\* generate_key(): whatever key there is goes first; the result is ignored.
DeleteKey ==
  /\ pc = "key del" /\ pc' = "key add"
  /\ LET gone == [work EXCEPT !.key = "none"] IN
       \/ Acked /\ work' = gone
       \/ NotAcked /\ work' \in {work, gone}
  /\ UNCHANGED <<options, nvm, cfun, booting, configured, local, past>>

\* AT#TLSKEYADD, of init_tls() or for the placeholder of add_ca_certificate();
\* refused when a key is in place.
AddKey ==
  /\ pc = "key add"
  /\ LET added == [work EXCEPT !.key = "generated"] IN
       \/ /\ work.key = "none" /\ Acked /\ work' = added
          /\ IF item = "key" THEN need' = TRUE /\ GoTo(CaBlock(hasCert, TRUE))
             ELSE pc' = "cert del" /\ UNCHANGED <<need, item>>
       \/ work.key = "none" /\ NotAcked /\ work' \in {work, added}
          /\ pc' = "failed" /\ UNCHANGED <<need, item>>
       \/ work.key # "none" /\ pc' = "failed" /\ UNCHANGED <<work, since, count, need, item>>
  /\ UNCHANGED <<options, nvm, cfun, booting, configured, polls, bandsOk, resetErr, hasKey, hasCert, past>>

\* add_device_certificate() asks for a key; any error means there is none.
FindDeviceKey ==
  /\ pc = "key list"
  /\ \/ work.key # "none" /\ Acked /\ pc' = "cert del"
     \/ work.key = "none" /\ UNCHANGED <<since, count>> /\ pc' = "failed"
     \/ NotAcked /\ pc' = "failed"
  /\ UNCHANGED <<options, modem, configured, local, past>>

\* A certificate of the same type goes first; the result is ignored.
DeleteCert ==
  /\ pc = "cert del" /\ pc' = "cert add"
  /\ LET gone == [work EXCEPT !.certs = @ \ {item}] IN
       \/ Acked /\ work' = gone
       \/ NotAcked /\ work' \in {work, gone}
  /\ UNCHANGED <<options, nvm, cfun, booting, configured, local, past>>

\* A bug: the answer to AT#TLSCERTADD is not looked at.
AddCertUnchecked ==
  /\ pc = "cert add"
  /\ LET added == [work EXCEPT !.certs = @ \cup {item}] IN
       \/ Acked /\ work' = added
       \/ NotAcked /\ work' \in {work, added}
  /\ need' = TRUE /\ GoTo(IF item = "ca" THEN DeviceBlock(TRUE) ELSE Finish(TRUE))
  /\ UNCHANGED <<options, nvm, cfun, booting, configured, polls, bandsOk, resetErr, hasKey, hasCert, past>>

\* AT#TLSCERTADD, refused without a key or over a certificate of the same type.
AddCert ==
  /\ pc = "cert add"
  /\ LET added == [work EXCEPT !.certs = @ \cup {item}]
         accepted == work.key # "none" /\ item \notin work.certs IN
       \/ /\ accepted /\ Acked /\ work' = added /\ need' = TRUE
          /\ GoTo(IF item = "ca" THEN DeviceBlock(TRUE) ELSE Finish(TRUE))
       \/ accepted /\ NotAcked /\ work' \in {work, added}
          /\ pc' = "failed" /\ UNCHANGED <<need, item>>
       \/ ~accepted /\ pc' = "failed" /\ UNCHANGED <<work, since, count, need, item>>
  /\ UNCHANGED <<options, nvm, cfun, booting, configured, polls, bandsOk, resetErr, hasKey, hasCert, past>>

\* save_to_nvm().
Save ==
  /\ pc = "save"
  /\ \/ Acked /\ SaveAndReboot /\ pc' = "ok"
     \/ NotAcked /\ (SaveAndReboot \/ UNCHANGED modem) /\ pc' = "failed"
  /\ UNCHANGED <<options, configured, local, past>>

-----------------------------------------------------------------------------
Step ==
  \/ Sync \/ WaitForAppReady \/ QueryBands \/ QueryIp \/ RadioOff
  \/ WriteBands \/ WriteIp \/ SoftReset \/ Resync \/ AwaitReboot \/ ConfigureEnds
  \/ QueryCfun \/ RadioOn
  \/ CheckKey \/ CheckCert \/ DeleteKey \/ AddKey \/ FindDeviceKey
  \/ DeleteCert \/ AddCert \/ Save

Next == Call \/ Step \/ BootDone \/ PowerLoss \/ Crash

\* The host calls init() again, commands end, the modem finishes its boot.
Fairness == WF_vars(Call) /\ WF_vars(Step) /\ WF_vars(BootDone)

Spec == Init /\ [][Next]_vars /\ Fairness

-----------------------------------------------------------------------------
Commands == {"sync", "app", "bands?", "ip?", "cfun=0", "bands=", "ip=", "reset",
             "resync", "reboot", "at", "cfun?", "cfun=1", "key?", "cert?", "key del",
             "key add", "key list", "cert del", "cert add", "save"}

ModemOK ==
  /\ work \in Settings /\ nvm \in Settings
  /\ cfun \in {0, 1} /\ booting \in BOOLEAN

HostOK ==
  /\ options \in OptionSets
  /\ configured \in BOOLEAN /\ pc \in Commands \cup {"idle", "ok", "failed"}
  /\ polls \in 0 .. ReadyPolls
  /\ pc \in {"sync", "app", "reboot"} => polls < ReadyPolls
  /\ bandsOk \in BOOLEAN /\ resetErr \in BOOLEAN
  /\ hasKey \in BOOLEAN /\ hasCert \in BOOLEAN /\ need \in BOOLEAN
  /\ item \in {"key", "ca", "dev"}
  /\ pc \in {"cert del", "cert add"} => item # "key"
  /\ pc = "key list" => item = "dev"

HistoryOK ==
  /\ complete \in BOOLEAN /\ since \subseteq {"fault", "loss"}
  /\ misled \subseteq {"device", "query", "loss"}
  /\ count \in [faults : 0 .. MaxFaults, losses : 0 .. MaxLosses, crashes : 0 .. MaxCrashes]

TypeOK == ModemOK /\ HostOK /\ HistoryOK

\* When init() succeeds on a modem that kept its power, the key and the device
\* certificate of the build are there, however many commands of this call or of
\* the calls before it failed, and wherever the host restarted.  So is the CA
\* certificate, if no AT#TLSCERTLIST of any call failed, the modem never lost its
\* power and did not come with a device certificate alone: init() learns from
\* that command only that there is some certificate.
ProvisionedWhenOk ==
  pc = "ok" /\ "tls" \in options /\ "loss" \notin since =>
    /\ ~MissingKey(work) /\ ~MissingDev(work)
    /\ misled = {} => ~MissingCa(work)

\* The radio is on when init() succeeds, unless this call ended with a reboot
\* that nothing waits for (init_tls) or the modem lost its power.
OnlineWhenOk == pc = "ok" /\ ~need /\ "loss" \notin since => cfun = 1

\* A modem that has everything is neither rewritten nor rebooted, unless a
\* command fails or the power does, or the build has a device certificate.
NoNeedlessSave ==
  [][(SoftReset \/ Save) /\ complete /\ "deviceCert" \notin options => since # {}]_vars

\* As long as the driver skips configure(), the modem works with the bands
\* and the IP preference of the build, unless it has lost its power.
ConfiguredIsSet ==
  configured /\ count.losses = 0 => work.bands = "new" /\ work.ip = "new"

\* A pre-provisioned key is left alone by a build that neither generates a key nor
\* adds a CA certificate, whichever query or command fails (mbed_lib.json on
\* tls_generate_key: "expect pre-provisioned key (false)").
LeavesKeys == {"generateKey", "caCert"} \cap options = {}
ProvisionedKeyKept == [][work.key = "user" /\ LeavesKeys => work'.key = "user"]_vars

\* The commands a call of init() still sends, at most, from where it stands: those
\* of the preamble count as one, #BANDCFG and #SCAN, which change nothing here, as none.
CommandsLeft ==
  CASE pc \in {"idle", "ok", "failed"} -> 0
    [] pc = "save"     -> 1
    [] pc = "cert add" -> IF item = "ca" THEN 5 ELSE 2
    [] pc = "cert del" -> IF item = "ca" THEN 6 ELSE 3
    [] pc = "key list" -> 4
    [] pc = "key add"  -> IF item = "ca" THEN 7 ELSE 9
    [] pc = "key del"  -> IF item = "ca" THEN 8 ELSE 10
    [] pc = "cert?"    -> 11
    [] pc = "key?"     -> 12
    [] pc = "cfun=1"   -> 13
    [] pc = "cfun?"    -> 14
    [] pc = "at"       -> 15
    [] pc = "reboot"   -> 15 + (ReadyPolls - polls)
    [] pc = "resync"   -> 16 + ReadyPolls
    [] pc = "reset"    -> 17 + ReadyPolls
    [] pc = "ip="      -> 18 + ReadyPolls
    [] pc = "bands="   -> 19 + ReadyPolls
    [] pc = "cfun=0"   -> 20 + ReadyPolls
    [] pc = "ip?"      -> 21 + ReadyPolls
    [] pc = "bands?"   -> 22 + ReadyPolls
    [] pc = "app"      -> 22 + ReadyPolls + (ReadyPolls - polls)
    [] pc = "sync"     -> 23 + ReadyPolls + ReadyPolls

\* init() ends after a bounded number of commands: no failure sends it back to an
\* earlier one, a modem that never finishes its boot does not hold it, and a power
\* loss in the middle does not lengthen it.
InitShortens ==
  [][pc \notin {"idle", "ok", "failed"} =>
       CommandsLeft' \in 0 .. CommandsLeft /\ (Step => CommandsLeft' # CommandsLeft)]_vars

\* Once commands stop failing the host's retries succeed, again and again; no
\* chain of half-done calls leaves a modem that init() cannot bring up.  With a
\* device certificate this takes an option to generate its key.
InitSucceeds ==
  ("deviceCert" \in options => "generateKey" \in options) => []<>(pc = "ok")

-----------------------------------------------------------------------------
\* README.md: the credentials "are written to NVM on first boot and persist
\* across resets": when init() succeeds, a CA certificate the modem works with
\* is one it boots with.
CaCertSaved ==
  pc = "ok" /\ {"tls", "caCert"} \subseteq options /\ "ca" \in work.certs =>
    "ca" \in nvm.certs
=============================================================================
