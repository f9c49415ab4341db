-------------------------- MODULE WiFiPortalProofs --------------------------
(***************************************************************************)
(* Theorems about WiFiPortal, whatever the air, the user, the radio and    *)
(* the power do: the portal keeps every promise of the store it saves in,  *)
(* a unit that serves is a station or a portal, never both, and begin()    *)
(* tries the network of the last undisturbed choice.                       *)
(***************************************************************************)
EXTENDS WiFiPortal, ConfigStoreProofs, TLAPS

-----------------------------------------------------------------------------
(* The store under the portal.                                             *)

\* Every step of the portal is a step of the store, or leaves it alone.
LEMMA StoreStep == [PortalNext]_portalVars => [ConfigNext]_vars
<1> SUFFICES ASSUME [PortalNext]_portalVars PROVE [ConfigNext]_vars
  OBVIOUS
<1>1. CASE JoinSaved \/ Joined \/ OpenPortal \/ AirChanges \/ Associate \/ LoseLink
           \/ ScanDone \/ Poll
  BY <1>1 DEF JoinSaved, Joined, OpenPortal, AirChanges, Associate, LoseLink, ScanDone, Poll
<1>2. CASE Boot
  BY <1>2 DEF Boot, ConfigNext
<1>3. CASE LosePower
  BY <1>3 DEF LosePower, ConfigNext
<1>4. ASSUME NEW t \in Tasks, Handle(t) PROVE ConfigNext
  BY <1>4 DEF Handle, ConfigNext
<1>5. ASSUME NEW t \in Tasks, GoOn(t) PROVE ConfigNext
  BY <1>5 DEF GoOn, ConfigNext
<1>6. CASE UNCHANGED portalVars
  BY <1>6 DEF portalVars
<1> QED BY <1>1, <1>2, <1>3, <1>4, <1>5, <1>6 DEF PortalNext

\* The radio, the portal and its page leave the promises of the store as they
\* are: what is proved of ConfigSpec holds of a unit that is being set up
\* through its portal (WiFiConfigurator.cpp saves through the same saveConfig).
THEOREM PortalKeepsStore == PortalSpec => ConfigSpec
<1>1. PortalInit => ConfigInit
  BY DEF PortalInit
<1> QED BY <1>1, StoreStep, PTL DEF PortalSpec, ConfigSpec

\* In particular the choice that handleConnect answers is in flash before
\* the restart that is to apply it, if nothing disturbed its save.
THEOREM ChoiceStored == PortalSpec => []StoredWhenAnswered
  BY PortalKeepsStore, AnswerStores, PTL

-----------------------------------------------------------------------------
(* Station or portal.                                                      *)

\* A portal is open exactly in the mode of an access point, which calls no
\* network; only a station is linked, and a station has a name to call.
Radio ==
  /\ portalActive <=> mode = "ap"
  /\ link => mode = "sta"
  /\ mode = "sta" => joined # 0
  /\ mode = "ap" => joined = 0

\* begin() returns as a station or with the portal, and setup() goes on only
\* then.
Begun ==
  /\ begun => mode \in {"sta", "ap"}
  /\ stage \in {"serving", "running"} => begun

WayInv == Radio /\ Begun

-----------------------------------------------------------------------------
\* A step of the store that keeps the radio keeps what is said of it, unless
\* it is the one by which setup() goes on.
LEMMA SameRadio ==
  ASSUME WayInv, UNCHANGED wifi, stage' \in {"serving", "running"} => begun
  PROVE  WayInv'
  BY DEF WayInv, Radio, Begun, wifi

LEMMA RadioDown == ASSUME RadioOff, stage' = "off" PROVE WayInv'
  BY DEF RadioOff, WayInv, Radio, Begun

\* A step of a handler restarts the unit or leaves its stage alone, but for
\* the end of setup.
LEMMA WorkStage ==
  ASSUME Types, Flow, NEW t \in Tasks, Work(t)
  PROVE  stage' \in {stage, "off"} \/ (stage \in {"serving", "running"} /\ stage' = "running")
<1>1. CASE Done(t)
  <2>1. pc[t] = "fetch" /\ stage' \in {stage, "running"}
    BY <1>1 DEF Done
  <2> QED BY <2>1, BusyStage
<1> QED BY <1>1 DEF Work, Assign, Open, OpenFails, Write, Close, Answer, Stop, Fetch, Keep

LEMMA BeginStage ==
  ASSUME NEW t \in Tasks, NEW h, NEW w, Begin(t, h, w) PROVE stage' = stage
  BY DEF Begin

LEMMA BootStage ==
  ASSUME Boot, WayInv PROVE stage' \in {"serving", "running"} => begun
<1>1. CASE PowerOn
  BY <1>1 DEF PowerOn
<1>2. CASE begun /\ Serve
  BY <1>2
<1>3. CASE SetupPrefs
  BY <1>3 DEF SetupPrefs, WayInv, Begun
<1> QED BY <1>1, <1>2, <1>3 DEF Boot

LEMMA WayInit == PortalInit => WayInv
  BY DEF PortalInit, ConfigInit, WayInv, Radio, Begun

LEMMA WayStep == Inv /\ WayInv /\ [PortalNext]_portalVars => WayInv'
<1> SUFFICES ASSUME Inv, WayInv, [PortalNext]_portalVars PROVE WayInv'
  OBVIOUS
<1> USE DEF WayInv, Radio, Begun
<1>1. CASE JoinSaved
  BY <1>1 DEF JoinSaved, InBegin, vars
<1>2. CASE Joined
  BY <1>2 DEF Joined, InBegin, vars
<1>3. CASE OpenPortal
  BY <1>3 DEF OpenPortal, InBegin, vars
<1>4. CASE AirChanges
  BY <1>4 DEF AirChanges, wifi, vars
<1>5. CASE Associate
  BY <1>5 DEF Associate, vars
<1>6. CASE LoseLink
  BY <1>6 DEF LoseLink, vars
<1>7. CASE ScanDone
  BY <1>7 DEF ScanDone, vars
<1>8. CASE Poll
  BY <1>8 DEF Poll, vars
<1>9. CASE Boot
  BY <1>9, BootStage, SameRadio DEF Boot
<1>10. CASE LosePower
  BY <1>10, RadioDown DEF LosePower, PowerLoss, Stop
<1>11. ASSUME NEW t \in Tasks, Handle(t) PROVE WayInv'
  <2>1. UNCHANGED wifi
    BY <1>11 DEF Handle
  <2>2. stage' = stage
    BY <1>11, BeginStage DEF Handle
  <2> QED BY <2>1, <2>2, SameRadio
<1>12. ASSUME NEW t \in Tasks, GoOn(t) PROVE WayInv'
  <2>1. stage' \in {stage, "off"} \/ (stage \in {"serving", "running"} /\ stage' = "running")
    BY <1>12, WorkStage DEF GoOn, Inv
  <2>2. CASE stage' = "off"
    BY <1>12, <2>2, RadioDown DEF GoOn
  <2>3. CASE stage' # "off"
    BY <1>12, <2>1, <2>3, SameRadio DEF GoOn
  <2> QED BY <2>2, <2>3
<1>13. CASE UNCHANGED portalVars
  BY <1>13 DEF portalVars, wifi, vars
<1> QED BY <1>1, <1>2, <1>3, <1>4, <1>5, <1>6, <1>7, <1>8, <1>9, <1>10, <1>11, <1>12,
           <1>13 DEF PortalNext

-----------------------------------------------------------------------------
LEMMA StoreKept == PortalSpec => []Inv
  BY PortalKeepsStore, Invariance, PTL

\* A unit whose web server answers is a station that calls a named network,
\* linked or not, or has its portal open and calls none, never both and never
\* neither (WiFiConfigurator.cpp, begin and startSoftAP), for every document,
\* air and number of restarts: main.cpp's announcement that the unit goes on
\* connecting beside its access point is never true.
THEOREM OneAtATime == PortalSpec => []StationOrPortal
<1>1. WayInv => StationOrPortal
  BY DEF WayInv, Radio, Begun, StationOrPortal
<1> QED BY <1>1, WayInit, WayStep, StoreKept, PTL DEF PortalSpec

-----------------------------------------------------------------------------
(* The choice survives.                                                    *)

\* What a setting that was chosen may read as, in memory, in flash and in a
\* file being written: the choice, the default, or nothing at all.
Near == {chosen, 0, Missing}

\* No copy of the document names another network than the chosen one, no
\* handler is still to name one, and begin() has not tried another.
Kept ==
  chosen # Unknown =>
    /\ config["ssid"] \in Near /\ flash["ssid"] \in Near
    /\ \A t \in Tasks : image[t]["ssid"] \in Near /\ (Names(job[t]) => pc[t] = "answer")
    /\ stage = "setup" /\ mode = "sta" => joined = chosen

\* The radio is down with the unit, only a name is posted, and a task that
\* is in no handler has no file open.
Posted ==
  /\ stage = "off" => mode = "off"
  /\ \A t \in Tasks : Names(job[t]) => job[t]["ssid"] # 0
  /\ \A t \in Tasks : pc[t] \notin Handling => image[t] = Nothing

ChoiceInv == Kept /\ Posted /\ PortalTypeOK

LEMMA SsidSetting ==
  "ssid" \in Keys /\ "ssid" \notin LocoKeys /\ Unknown \notin Values /\ 0 \in Values
  /\ Nothing["ssid"] = Missing /\ ~Names(NoJob)
<1>1. MaxValue \in Nat /\ "ssid" \in Keys
  BY ConfigAssumption, PortalAssumption
<1> QED BY <1>1 DEF LocoKeys, Missing, Unknown, Values, Nothing, Names, NoJob

\* A document read from flash is as near to the choice as the file was.
LEMMA SeededNear == Seeded(flash)["ssid"] \in {flash["ssid"], 0}
  BY SsidSetting DEF Seeded

LEMMA ChoiceInit == PortalInit => ChoiceInv
<1> SUFFICES ASSUME PortalInit PROVE ChoiceInv
  OBVIOUS
<1>1. \A t \in Tasks : job[t] = NoJob /\ image[t] = Nothing
  BY DEF PortalInit, ConfigInit, IdleJob, IdleImage
<1>2. Posted
  BY <1>1, SsidSetting DEF PortalInit, ConfigInit, Posted
<1>3. PortalTypeOK
  <2>1. changes \in 0..MaxChanges
    BY PortalAssumption DEF PortalInit
  <2> QED BY <2>1, SsidSetting DEF PortalInit, PortalTypeOK
<1> QED BY <1>2, <1>3 DEF PortalInit, ChoiceInv, Kept

\* A step that leaves the store and the choice alone.
LEMMA RadioChoice ==
  ASSUME Kept, Posted, UNCHANGED <<vars, chosen>>, stage = "off" => mode' = mode,
         stage = "setup" /\ mode' = "sta" /\ chosen # Unknown => joined' = chosen
  PROVE  Kept' /\ Posted'
  BY DEF Kept, Posted, Near, vars, work

LEMMA RadioStep ==
  ASSUME ChoiceInv, Types, Flow,
         JoinSaved \/ Joined \/ OpenPortal \/ AirChanges \/ Associate \/ LoseLink
           \/ ScanDone \/ Poll
  PROVE  ChoiceInv'
<1>1. Kept /\ Posted /\ PortalTypeOK
  BY DEF ChoiceInv
<1>2. CASE JoinSaved
  <2>1. /\ UNCHANGED <<vars, chosen>> /\ stage = "setup" /\ mode' = "sta"
        /\ joined' = config["ssid"] /\ config["ssid"] # 0
    BY <1>2 DEF JoinSaved, InBegin
  <2>2. config["ssid"] \in Values
    BY <2>1, SsidSetting DEF Flow, Staged, Whole
  <2>3. chosen # Unknown => joined' = chosen
    BY <1>1, <2>1, <2>2, Settings DEF Kept, Near
  <2>4. Kept' /\ Posted'
    BY <1>1, <2>1, <2>3, RadioChoice
  <2>5. PortalTypeOK'
    BY <1>1, <1>2, <2>1, <2>2 DEF JoinSaved, PortalTypeOK
  <2> QED BY <2>4, <2>5 DEF ChoiceInv
<1>3. CASE Joined \/ AirChanges \/ Associate \/ LoseLink \/ ScanDone \/ Poll
  <2>1. UNCHANGED <<vars, chosen, mode, joined>>
    BY <1>3 DEF Joined, AirChanges, Associate, LoseLink, ScanDone, Poll, wifi
  <2>2. Kept' /\ Posted'
    BY <1>1, <2>1, RadioChoice DEF Kept
  <2>3. PortalTypeOK'
    <3>1. CASE AirChanges
      BY <1>1, <3>1, PortalAssumption DEF AirChanges, wifi, PortalTypeOK
    <3>2. CASE ~AirChanges
      BY <1>1, <1>3, <3>2 DEF Joined, Associate, LoseLink, ScanDone, Poll, PortalTypeOK
    <3> QED BY <3>1, <3>2
  <2> QED BY <2>2, <2>3 DEF ChoiceInv
<1>4. CASE OpenPortal
  <2>1. /\ UNCHANGED <<vars, chosen>> /\ stage = "setup" /\ mode' = "ap" /\ joined' = 0
    BY <1>4 DEF OpenPortal, InBegin
  <2>2. Kept' /\ Posted'
    BY <1>1, <2>1, RadioChoice
  <2>3. PortalTypeOK'
    BY <1>1, <1>4, <2>1, SsidSetting DEF OpenPortal, PortalTypeOK
  <2> QED BY <2>2, <2>3 DEF ChoiceInv
<1> QED BY <1>2, <1>3, <1>4

\* The store comes up: what is missing gets its default, which is no choice.
LEMMA BootChoice ==
  ASSUME ChoiceInv, Types, Flow, Boot
  PROVE  ChoiceInv'
<1>1. Kept /\ Posted /\ PortalTypeOK /\ UNCHANGED <<wifi, air, changes, chosen>>
  BY DEF ChoiceInv, Boot
<1>2. PortalTypeOK'
  BY <1>1 DEF PortalTypeOK, wifi
<1>3. CASE PowerOn
  <2>1. /\ stage = "off" /\ stage' = "setup" /\ UNCHANGED <<flash, job, image>>
        /\ config' = Seeded(flash) /\ mode' = "off"
    BY <1>1, <1>3 DEF PowerOn, Posted, wifi
  <2>2. \A t \in Tasks : pc[t] \notin Handling /\ ~Names(job[t])
    BY <2>1, SsidSetting DEF Flow, Staged, Carried, Quiet, Handling, Writing
  <2>3. \A t \in Tasks : pc'[t] \notin Handling => pc[t] \notin Handling
    BY <2>2
  <2>4. config'["ssid"] \in {flash["ssid"], 0}
    BY <2>1, SeededNear
  <2>5. Kept'
    BY <1>1, <2>1, <2>2, <2>4 DEF Kept, Near, wifi
  <2>6. Posted'
    BY <1>1, <2>1, <2>2, <2>3 DEF Posted
  <2> QED BY <1>2, <2>5, <2>6 DEF ChoiceInv
<1>4. CASE (begun /\ Serve) \/ SetupPrefs
  <2>1. stage' \in {"serving", "running"} /\ UNCHANGED <<config, flash, job, image>>
    BY <1>4 DEF Serve, SetupPrefs, work
  <2>2. ASSUME NEW t \in Tasks
        PROVE  /\ pc[t] = "answer" => pc'[t] = "answer"
               /\ pc'[t] \notin Handling => pc[t] \notin Handling
    <3>1. pc' = pc \/ (pc["loop"] = "idle" /\ pc' = [pc EXCEPT !["loop"] = "fetch"])
      BY <1>4 DEF Serve, SetupPrefs, Reads, work
    <3>2. pc \in [Tasks -> Pcs]
      BY DEF Types
    <3> QED BY <3>1, <3>2 DEF Handling, Writing
  <2>3. Kept'
    BY <1>1, <2>1, <2>2 DEF Kept, Near
  <2>4. Posted'
    BY <1>1, <2>1, <2>2 DEF Posted
  <2> QED BY <1>2, <2>3, <2>4 DEF ChoiceInv
<1> QED BY <1>3, <1>4 DEF Boot

\* Everything but the file in flash is gone, and the radio with it.
LEMMA StopChoice ==
  ASSUME ChoiceInv, Stop, RadioOff, UNCHANGED <<air, changes, chosen>>
  PROVE  ChoiceInv'
<1>1. /\ flash' = flash /\ config'["ssid"] = Missing /\ stage' = "off" /\ mode' = "off"
      /\ \A t \in Tasks : job'[t] = NoJob /\ image'[t] = Nothing
  BY SsidSetting DEF Stop, RadioOff, IdleJob, IdleImage
<1>2. Kept'
  BY <1>1, SsidSetting DEF ChoiceInv, Kept, Near
<1>3. Posted'
  BY <1>1, SsidSetting DEF Posted
<1>4. PortalTypeOK'
  BY SsidSetting DEF RadioOff, ChoiceInv, PortalTypeOK
<1> QED BY <1>2, <1>3, <1>4 DEF ChoiceInv

\* A handler that names a network forgets the last choice until its own save
\* is closed; any other leaves the name alone.
LEMMA HandleChoice ==
  ASSUME ChoiceInv, Types, Flow, NEW t \in Tasks, Handle(t)
  PROVE  ChoiceInv'
<1>1. PICK h \in Active : \E w \in Wishes(h) :
        /\ Begin(t, h, w) /\ (Names(w) => w["ssid"] # 0)
        /\ chosen' = IF Names(w) THEN Unknown ELSE chosen
        /\ UNCHANGED <<wifi, air, changes>>
  BY DEF Handle
<1>2. PICK w \in Wishes(h) :
        /\ Begin(t, h, w) /\ (Names(w) => w["ssid"] # 0)
        /\ chosen' = IF Names(w) THEN Unknown ELSE chosen
        /\ UNCHANGED <<wifi, air, changes>>
  BY <1>1
<1>3. /\ pc' = [pc EXCEPT ![t] = "assign"] /\ job' = [job EXCEPT ![t] = w]
      /\ pc[t] = "idle" /\ UNCHANGED <<stage, config, flash, image>>
  BY <1>2 DEF Begin, StartRound
<1>4. pc \in [Tasks -> Pcs] /\ job \in [Tasks -> Jobs]
  BY DEF Types
<1>5. Kept'
  <2> SUFFICES ASSUME chosen' # Unknown PROVE Kept'
    BY DEF Kept
  <2>1. ~Names(w) /\ chosen' = chosen
    BY <1>2
  <2>2. \A u \in Tasks : Names(job'[u]) => u # t /\ Names(job[u]) /\ pc'[u] = pc[u]
    BY <1>3, <1>4, <2>1
  <2> QED BY <1>2, <1>3, <2>1, <2>2 DEF ChoiceInv, Kept, Near, wifi
<1>6. Posted'
  <2>1. \A u \in Tasks : Names(job'[u]) => job'[u]["ssid"] # 0
    BY <1>2, <1>3, <1>4 DEF ChoiceInv, Posted
  <2>2. \A u \in Tasks : pc'[u] \notin Handling => pc[u] \notin Handling
    BY <1>3, <1>4 DEF Handling, Writing
  <2> QED BY <1>2, <1>3, <2>1, <2>2 DEF ChoiceInv, Posted, wifi
<1>7. PortalTypeOK'
  BY <1>2 DEF ChoiceInv, PortalTypeOK, wifi
<1> QED BY <1>5, <1>6, <1>7 DEF ChoiceInv

\* While a choice is known, no handler is about to write the name: the one
\* that chose it has answered.
LEMMA NoneNames ==
  ASSUME Kept, chosen # Unknown, NEW t \in Tasks, pc[t] # "answer"
  PROVE  ~Names(job[t])
  BY DEF Kept

\* A step of a handler inside a save: memory, flash and files get at most
\* what one of the others held.
LEMMA WithinSave ==
  ASSUME ChoiceInv, Types, NEW t \in Tasks,
         UNCHANGED <<stage, wifi, job, air, changes, chosen>>,
         chosen # Unknown => /\ config'["ssid"] \in Near /\ flash'["ssid"] \in Near
                             /\ image'[t]["ssid"] \in Near,
         image' = [image EXCEPT ![t] = image'[t]],
         pc' = [pc EXCEPT ![t] = pc'[t]], pc'[t] \in Handling,
         chosen # Unknown => pc[t] # "answer"
  PROVE  ChoiceInv'
<1>1. pc \in [Tasks -> Pcs] /\ image \in [Tasks -> Docs]
  BY DEF Types
<1>2. \A u \in Tasks : u # t => pc'[u] = pc[u] /\ image'[u] = image[u]
  BY <1>1
<1>3. Kept'
  <2> SUFFICES ASSUME chosen # Unknown PROVE Kept'
    BY DEF Kept
  <2>1. ~Names(job[t])
    BY NoneNames DEF ChoiceInv
  <2> QED BY <1>2, <2>1 DEF ChoiceInv, Kept, Near, wifi
<1>4. Posted'
  BY <1>2 DEF ChoiceInv, Posted, wifi
<1>5. PortalTypeOK'
  BY DEF ChoiceInv, PortalTypeOK, wifi
<1> QED BY <1>3, <1>4, <1>5 DEF ChoiceInv

\* The close of the save that makes the choice known: nothing else is open,
\* and memory and flash both hold it.
LEMMA ChosenClose ==
  ASSUME ChoiceInv, Inv, NEW t \in Tasks, Close(t), UNCHANGED <<wifi, air, changes>>,
         Names(job[t]), pc'[t] = "answer", ~disturbed, chosen' = job[t]["ssid"]
  PROVE  ChoiceInv'
<1>0. Types /\ Flow /\ Alone /\ AloneAt(t) /\ Carried(t) /\ "ssid" \in Keys
  BY SsidSetting DEF Inv, Alone, Flow
<1>1. /\ pc[t] = "write" /\ todo[t] = {} /\ flash' = image[t] /\ Return(t)
      /\ UNCHANGED <<stage, config, job, image>>
  BY DEF Close
<1>2. /\ pc' = [pc EXCEPT ![t] = pc'[t]] /\ pc[t] \in Handling /\ HandlerOK(doing[t])
      /\ round[t] \in Nat /\ ~(round[t] < Len(doing[t].rounds))
  <2>1. pc[t] \in Handling
    BY <1>1 DEF Handling, Writing
  <2>2. HandlerOK(doing[t]) /\ round[t] \in Nat /\ Len(doing[t].rounds) \in Nat
    BY <1>0, <2>1, InHandler
  <2>3. doing' = doing
    BY DEF Close
  <2>4. pc' = [pc EXCEPT ![t] = pc'[t]] /\ round[t] = Len(doing[t].rounds)
    BY <1>0, <1>1, <2>3, Returned
  <2> QED BY <2>1, <2>2, <2>4
<1>3. Awaits(t) = {}
  BY <1>1, <1>2, LaterEnd DEF Awaits
<1>4. config["ssid"] = job[t]["ssid"] /\ image[t]["ssid"] = config["ssid"]
  BY <1>0, <1>1, <1>2, <1>3 DEF AloneAt, Names
<1>5. \A u \in Tasks : u # t => /\ pc[u] \notin Handling /\ pc'[u] = pc[u]
                                /\ image[u] = Nothing /\ ~Names(job[u])
  <2>1. pc[Other(t)] \notin Handling
    BY <1>0, <1>2 DEF AloneAt
  <2>2. \A u \in Tasks : u # t => u = Other(t)
    BY Others
  <2>3. \A u \in Tasks : pc[u] \notin Handling => image[u] = Nothing /\ ~Names(job[u])
    BY <1>0, SsidSetting DEF ChoiceInv, Posted, Flow, Carried
  <2> QED BY <1>0, <1>2, <2>1, <2>2, <2>3 DEF Types
<1>6. stage # "setup"
  <2> SUFFICES ASSUME stage = "setup" PROVE FALSE
    OBVIOUS
  <2>1. t = "loop" /\ doing[t] \in {Seeding, NoHandler}
    BY <1>0, <1>1, BusyStage DEF Flow, Staged
  <2>2. DOMAIN job[t] = {}
    BY <1>0, <1>2, <2>1, InHandler, SeedingOK, LaterNone
  <2> QED BY <2>2 DEF Names
<1>7. Kept'
  BY <1>1, <1>4, <1>5, <1>6, SsidSetting DEF Kept, Near
<1>8. Posted'
  BY <1>1, <1>5 DEF ChoiceInv, Posted, wifi, Handling
<1>9. PortalTypeOK'
  <2>1. job[t]["ssid"] \in Networks
    BY <1>0, JobValue DEF ChoiceInv, Posted, Names, Networks
  <2> QED BY <2>1 DEF ChoiceInv, PortalTypeOK, wifi
<1> QED BY <1>7, <1>8, <1>9 DEF ChoiceInv

LEMMA GoOnChoice ==
  ASSUME ChoiceInv, Inv, NEW t \in Tasks, GoOn(t)
  PROVE  ChoiceInv'
<1>0. /\ Kept /\ Posted /\ PortalTypeOK /\ Types /\ Flow /\ UNCHANGED <<air, changes>>
      /\ Carried(t) /\ "ssid" \in Keys /\ Work(t)
  BY SsidSetting DEF ChoiceInv, Inv, Flow, GoOn
<1>1. CASE Answer(t) /\ Stop
  <2>1. RadioOff /\ chosen' = chosen
    BY <1>1 DEF GoOn, Answer, Stop
  <2> QED BY <1>0, <1>1, <2>1, StopChoice
<1> SUFFICES ASSUME ~(Answer(t) /\ Stop) PROVE ChoiceInv'
  BY <1>1
<1>2. /\ stage' # "off" /\ stage # "off" /\ UNCHANGED wifi
      /\ stage' = stage \/ (Done(t) /\ stage' = "running")
  <2>1. pc[t] # "idle"
    BY <1>0 DEF Work, Assign, Open, OpenFails, Write, Close, Answer, Fetch, Keep, Done
  <2>2. stage' = stage \/ (Done(t) /\ stage' = "running")
    BY <1>0 DEF Work, Assign, Open, OpenFails, Write, Close, Answer, Fetch, Keep, Done
  <2>3. stage # "off"
    BY <1>0, <2>1, BusyStage
  <2> QED BY <2>2, <2>3 DEF GoOn
<1>3. pc \in [Tasks -> Pcs] /\ image \in [Tasks -> Docs] /\ config \in Docs /\ job \in [Tasks -> Jobs]
  BY <1>0 DEF Types
<1>4. CASE Assign(t)
  <2>1. PICK k \in todo[t] :
          config' = [config EXCEPT ![k] =
             IF k \in doing[t].rounds[round[t]].run THEN prefs[k] ELSE job[t][k]]
    BY <1>4 DEF Assign
  <2>2. /\ pc[t] = "assign" /\ pc' = [pc EXCEPT ![t] = pc'[t]] /\ pc'[t] \in Handling
        /\ UNCHANGED <<stage, flash, job, image>> /\ chosen' = chosen
    BY <1>3, <1>4 DEF Assign, GoOn, Handling, Writing
  <2>3. ASSUME chosen # Unknown PROVE config'["ssid"] = config["ssid"]
    <3>1. ~Names(job[t])
      BY <1>0, <2>2, <2>3, NoneNames
    <3>2. k # "ssid"
      <4>1. /\ HandlerOK(doing[t]) /\ round[t] \in 1..Len(doing[t].rounds)
            /\ DOMAIN job[t] = Asked(doing[t])
        BY <1>0, <2>2, InHandler DEF Handling, Writing
      <4>2. /\ k \in Stores(doing[t].rounds[round[t]])
            /\ doing[t].rounds[round[t]].run \subseteq LocoKeys
            /\ doing[t].rounds[round[t]].given \subseteq Asked(doing[t])
        BY <1>0, <2>2, <4>1, AskedStored DEF Carried, HandlerOK
      <4> QED BY <3>1, <4>1, <4>2, SsidSetting DEF Stores, Names
    <3> QED BY <1>3, <2>1, <3>2 DEF Docs
  <2> QED BY <1>0, <1>2, <1>3, <2>2, <2>3, WithinSave DEF Kept
<1>5. CASE Open(t)
  <2>1. /\ pc[t] = "open" /\ pc' = [pc EXCEPT ![t] = pc'[t]] /\ pc'[t] \in Handling
        /\ image' = [image EXCEPT ![t] = Nothing] /\ flash' \in {flash, Nothing}
        /\ UNCHANGED <<stage, config, job>> /\ chosen' = chosen
    BY <1>3, <1>5 DEF Open, GoOn, Handling, Writing
  <2>2. image'[t] = Nothing
    BY <1>3, <2>1
  <2>3. chosen # Unknown => flash'["ssid"] \in Near /\ image'[t]["ssid"] \in Near
    BY <1>0, <2>1, <2>2, SsidSetting DEF Kept, Near
  <2> QED BY <1>0, <1>2, <2>1, <2>2, <2>3, WithinSave DEF Kept
<1>6. CASE OpenFails(t)
  <2>1. /\ pc[t] = "open" /\ Return(t) /\ UNCHANGED <<stage, config, flash, doing, job, image>>
        /\ chosen' = chosen
    BY <1>6 DEF OpenFails, GoOn
  <2>2. pc' = [pc EXCEPT ![t] = pc'[t]] /\ pc'[t] \in Handling
    BY <1>0, <2>1, Returned DEF Handling, Writing
  <2> QED BY <1>0, <1>2, <1>3, <2>1, <2>2, WithinSave DEF Kept
<1>7. CASE Write(t)
  <2> DEFINE k == First(todo[t])
  <2>1. /\ pc[t] = "write" /\ UNCHANGED <<stage, config, flash, job, pc>>
        /\ image' = [image EXCEPT ![t][k] = config[k]] /\ chosen' = chosen
    BY <1>3, <1>7 DEF Write, GoOn
  <2>2. image'[t]["ssid"] \in {image[t]["ssid"], config["ssid"]}
    BY <1>0, <1>3, <2>1 DEF Docs
  <2>3. image' = [image EXCEPT ![t] = image'[t]]
    BY <1>3, <2>1
  <2>4. chosen # Unknown => image'[t]["ssid"] \in Near
    BY <1>0, <2>2 DEF Kept
  <2>5. pc' = [pc EXCEPT ![t] = pc'[t]] /\ pc'[t] \in Handling
    BY <1>3, <2>1 DEF Handling, Writing
  <2> HIDE DEF k
  <2> QED BY <1>0, <1>2, <2>1, <2>3, <2>4, <2>5, WithinSave DEF Kept
<1>8. CASE Close(t)
  <2>1. /\ pc[t] = "write" /\ Return(t) /\ flash' = image[t]
        /\ UNCHANGED <<stage, config, doing, job, image>>
    BY <1>8 DEF Close
  <2>2. pc' = [pc EXCEPT ![t] = pc'[t]] /\ pc'[t] \in Handling
    BY <1>0, <2>1, Returned DEF Handling, Writing
  <2>3. CASE Names(job[t]) /\ pc'[t] = "answer" /\ ~disturbed
    <3>1. chosen' = job[t]["ssid"]
      BY <2>1, <2>3 DEF GoOn
    <3> QED BY <1>0, <1>2, <1>8, <2>3, <3>1, ChosenClose
  <2>4. CASE ~(Names(job[t]) /\ pc'[t] = "answer" /\ ~disturbed)
    <3>1. chosen' = chosen
      BY <2>4 DEF GoOn
    <3> QED BY <1>0, <1>2, <1>3, <2>1, <2>2, <3>1, WithinSave DEF Kept
  <2> QED BY <2>3, <2>4
<1>9. CASE Answer(t) /\ ~Stop
  <2>1. /\ pc' = [pc EXCEPT ![t] = pc'[t]] /\ pc'[t] \in {"idle", "fetch"}
        /\ job' = [job EXCEPT ![t] = NoJob] /\ image' = [image EXCEPT ![t] = Nothing]
        /\ UNCHANGED <<stage, config, flash>> /\ chosen' = chosen
    <3>1. Leave(t) /\ UNCHANGED <<stage, config, flash>> /\ pc[t] = "answer"
      BY <1>9 DEF Answer
    <3>2. pc' = [pc EXCEPT ![t] = "idle"] \/ pc' = [pc EXCEPT ![t] = "fetch"]
      BY <1>9 DEF Answer, Reads
    <3> QED BY <1>3, <3>1, <3>2 DEF GoOn, Leave
  <2>2. /\ job'[t] = NoJob /\ image'[t] = Nothing /\ ~Names(job'[t])
        /\ \A u \in Tasks : u # t => /\ pc'[u] = pc[u] /\ job'[u] = job[u]
                                     /\ image'[u] = image[u]
    BY <1>3, <2>1, SsidSetting
  <2>3. Kept'
    <3> SUFFICES ASSUME chosen # Unknown PROVE Kept'
      BY <2>1 DEF Kept
    <3>1. \A u \in Tasks : /\ image'[u]["ssid"] \in Near
                           /\ Names(job'[u]) => pc'[u] = "answer"
      BY <1>0, <2>2, SsidSetting DEF Kept, Near
    <3> QED BY <1>0, <1>2, <2>1, <3>1 DEF Kept, Near, wifi
  <2>4. Posted'
    BY <1>0, <1>2, <2>1, <2>2 DEF Posted, wifi
  <2>5. PortalTypeOK'
    BY <1>0, <1>2, <2>1 DEF PortalTypeOK, wifi
  <2> QED BY <2>3, <2>4, <2>5 DEF ChoiceInv
<1>10. CASE Fetch(t) \/ Keep(t) \/ Done(t)
  <2>1. /\ pc[t] \in Reading /\ pc' = [pc EXCEPT ![t] = pc'[t]]
        /\ pc'[t] \in Reading \union {"idle"}
        /\ UNCHANGED <<config, flash, job, image>> /\ chosen' = chosen
    BY <1>3, <1>10 DEF Fetch, Keep, Done, GoOn, Reading
  <2>2. \A u \in Tasks : pc'[u] = pc[u] \/ (pc[u] \notin Handling /\ pc'[u] \notin Handling)
    BY <1>3, <2>1 DEF Reading, Handling, Writing
  <2>3. \A u \in Tasks : pc[u] = "answer" => pc'[u] = "answer"
    BY <2>2 DEF Handling
  <2>4. Kept'
    BY <1>0, <1>2, <2>1, <2>3 DEF Kept, Near, wifi
  <2>5. Posted'
    BY <1>0, <1>2, <2>1, <2>2 DEF Posted, wifi
  <2>6. PortalTypeOK'
    BY <1>0, <1>2, <2>1 DEF PortalTypeOK, wifi
  <2> QED BY <2>4, <2>5, <2>6 DEF ChoiceInv
<1> QED BY <1>0, <1>4, <1>5, <1>6, <1>7, <1>8, <1>9, <1>10 DEF Work

LEMMA ChoiceStep == Inv /\ ChoiceInv /\ [PortalNext]_portalVars => ChoiceInv'
<1> SUFFICES ASSUME Inv, ChoiceInv, [PortalNext]_portalVars PROVE ChoiceInv'
  OBVIOUS
<1>0. Types /\ Flow
  BY DEF Inv
<1>1. CASE LosePower
  <2>1. Stop /\ RadioOff /\ UNCHANGED <<air, changes, chosen>>
    BY <1>1 DEF LosePower, PowerLoss
  <2> QED BY <2>1, StopChoice
<1>2. CASE UNCHANGED portalVars
  <2>1. UNCHANGED <<vars, wifi, air, changes, chosen>>
    BY <1>2 DEF portalVars
  <2> QED BY <2>1 DEF ChoiceInv, Kept, Near, Posted, PortalTypeOK, vars, work, wifi
<1> QED BY <1>0, <1>1, <1>2, RadioStep, BootChoice, HandleChoice, GoOnChoice DEF PortalNext

LEMMA ChoiceKept == PortalSpec => []ChoiceInv
  BY StoreKept, ChoiceInit, ChoiceStep, PTL DEF PortalSpec

\* However often the unit restarts or loses power after the user chose a
\* network, and whatever the other task saves meanwhile, begin() tries that
\* network and no other (handleConnect, connectToSavedHouseAP). It holds even
\* where opening the file empties it, and where an open may fail: a choice
\* that is lost then opens the portal, it does not call another network.
THEOREM ChoiceSurvives == PortalSpec => []JoinsChosen
<1>1. ChoiceInv => JoinsChosen
  BY DEF ChoiceInv, Kept, JoinsChosen
<1> QED BY <1>1, ChoiceKept, PTL

\* The radio, the portal and the choice keep their types: what is chosen is
\* always the name of a network, never the empty one.
THEOREM PortalTypes == PortalSpec => []PortalTypeOK
<1>1. ChoiceInv => PortalTypeOK
  BY DEF ChoiceInv
<1> QED BY <1>1, ChoiceKept, PTL
=============================================================================
