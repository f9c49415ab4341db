---------------------------- MODULE ConfigStore ----------------------------
(***************************************************************************)
(* The settings of one unit: the JSON document `config` in memory, its     *)
(* file in flash, and the copies Throttle works with.  Two tasks write the *)
(* document and save it, without a lock: loop() (handlers of Throttle.cpp) *)
(* and the task of the web server (the forms of main.cpp and handleConnect *)
(* of WiFiConfigurator.cpp).  saveConfig opens the file, writes the        *)
(* document into it piece by piece and closes it; getLocoPrefs reads the   *)
(* document into the copies setting by setting, the value of one fetched   *)
(* first and stored then.                                                  *)
(*                                                                         *)
(* LittleFS is external: a handle has its own image of the file, and the   *)
(* last handle closed is the file that stays.  TruncatesAtOpen says        *)
(* whether opening for writing already empties the file in flash.          *)
(*                                                                         *)
(* Two history variables.  `disturbed`: an open failed, or a handler began *)
(* while the other task was not idle, and no handler has begun alone       *)
(* since.  `mixed`: the settings were read while the other task was in a   *)
(* handler, and have not been read alone, after an undisturbed save, since.*)
(***************************************************************************)
EXTENDS Integers, Sequences

CONSTANTS Active,           \* the handlers of this instance, of Handlers
          MaxValue,         \* a setting is 0 (its default) to MaxValue
          Choices,          \* per setting: the values a handler may store in it
          TruncatesAtOpen,  \* does open("w") empty the file in flash?
          OpenMayFail       \* may open("w") fail?

\* A handler saves in rounds.  In a round it sets copies of Throttle (`sets`),
\* stores settings in the document from those copies (`run`) or from what it
\* was asked (`given`), and calls saveConfig; `after` is the end of the handler.
Round(s, r, g) == [sets |-> s, run |-> r, given |-> g]
Handler(t, rs, rest) == [task |-> t, rounds |-> rs, after |-> rest]

Stores(r) == r.run \union r.given
Own(S) == Round(S, S, {})        \* set in Throttle and stored from there
Form(S) == Round({}, {}, S)      \* stored as received

\* What the handler was asked to store: all but what Throttle had already,
\* and the mileage, which is asked of Throttle when the handler begins.
Asked(h) == UNION {h.rounds[i].sets \union h.rounds[i].given
                     \union (h.rounds[i].run \intersect {"odometer"}) : i \in DOMAIN h.rounds}

Handlers == {
  Handler("loop", <<Own({"mustate"})>>, "return"),     \* given up, disbanded, failsafe
  Handler("loop", <<Round({"mustate", "mureversed"}, {"mustate"}, {}), Own({"mustate"}),
                    Round({}, {"mureversed"}, {"mustate"})>>, "prefs"),  \* muSetState: a member to 0
  Handler("loop", <<Round({"mustate", "mureversed"}, {"mustate"}, {}),
                    Round({}, {"mureversed"}, {"mustate"})>>, "prefs"),  \* 0, 2 or 3
  Handler("loop", <<Round({"mureversed"}, {"mureversed"}, {"mustate"})>>, "prefs"),  \* 1
  Handler("loop", <<Own({"mustate"}),
                    Round({"consist"}, {"consist", "mustate"}, {})>>, "return"),  \* muSetPerformance: add
  Handler("loop", <<Round({"consist", "mustate"}, {"mustate"}, {}),
                    Round({}, {"consist", "mustate"}, {})>>, "return"),  \* remove the last
  Handler("loop", <<Round({"consist"}, {"consist", "mustate"}, {})>>, "return"),  \* remove another
  Handler("loop", <<Round({}, {"odometer"}, {})>>, "return"),  \* pmOnOff(false)
  Handler("loop", <<Form({"speed2"})>>, "prefs"),              \* calibrate
  Handler("web", <<Form({"dccaddress"})>>, "prefs"),           \* locoparmsParm
  Handler("web", <<Form({"speed2"})>>, "prefs"),               \* calibrationParm
  Handler("web", <<Form({"headlight", "horn"})>>, "return"),   \* FunctionsParm
  Handler("web", <<Form({"f0", "f1"})>>, "return"),            \* FunctionLabels
  Handler("web", <<Form({"erasessid"})>>, "restart"),          \* EraseParm
  Handler("web", <<Form({"ssid", "pass"})>>, "restart") }      \* handleConnect

\* enforceConfigDefaults saves once, with nothing to store but what it seeded.
Seeding == Handler("loop", <<Form({})>>, "return")
NoHandler == Handler("loop", <<>>, "return")

ASSUME ConfigAssumption ==
  /\ Active \subseteq Handlers
  /\ MaxValue \in Nat \ {0}
  /\ TruncatesAtOpen \in BOOLEAN /\ OpenMayFail \in BOOLEAN

Tasks == {"loop", "web"}
Keys == UNION {UNION {Stores(h.rounds[i]) : i \in DOMAIN h.rounds} : h \in Active}

\* What getLocoPrefs reads, and what only getFunctionPrefs does, in setup.
LocoKeys == Keys \intersect
  {"mustate", "mureversed", "odometer", "speed2", "dccaddress", "consist"}
FunctionKeys == Keys \intersect {"headlight", "horn"}
PrefKeys == LocoKeys \union FunctionKeys

Missing == -1
Values == 0..MaxValue
ASSUME ChoicesAssumption == Choices \in [Keys -> SUBSET Values]

Nothing == [k \in Keys |-> Missing]
Whole == [Keys -> Values]

\* Mutant of Seeded: one setting has no default.
SeededButOne(doc) == [k \in Keys |-> IF doc[k] = Missing /\ k # "mustate" THEN 0 ELSE doc[k]]

Seeded(doc) == [k \in Keys |-> IF doc[k] = Missing THEN 0 ELSE doc[k]]

VARIABLES stage,     \* "off", "setup", "serving" (the web server runs), "running"
          config, flash,
          prefs,     \* Throttle's copies of the settings
          pc,        \* per task: where it is in its handler
          doing,     \* per task: its handler
          job,       \* per task: the values its handler was asked to store
          round,     \* per task: the round of its handler
          todo,      \* per task: settings left to assign, to serialise or to read
          image,     \* per task: the file its handle will leave
          held,      \* per task: the value getLocoPrefs has fetched
          disturbed, mixed

work == <<pc, doing, job, round, todo, image, held>>
vars == <<stage, config, flash, prefs, work, disturbed, mixed>>

Other(t) == IF t = "loop" THEN "web" ELSE "loop"
Quiet == \A t \in Tasks : pc[t] = "idle"
NoJob == [k \in {} |-> 0]
NoPrefs == [k \in PrefKeys |-> 0]

IdlePc == [t \in Tasks |-> "idle"]
IdleDoing == [t \in Tasks |-> NoHandler]
IdleJob == [t \in Tasks |-> NoJob]
IdleRound == [t \in Tasks |-> 0]
IdleTodo == [t \in Tasks |-> {}]
IdleImage == [t \in Tasks |-> Nothing]
IdleHeld == [t \in Tasks |-> Missing]

-----------------------------------------------------------------------------
(* Starting and stopping.                                                  *)

ConfigInit ==
  /\ stage = "off" /\ config = Nothing /\ prefs = NoPrefs
  /\ flash \in {Nothing, Seeded(Nothing)}    \* a new unit, or one set up before
  /\ pc = IdlePc /\ doing = IdleDoing /\ job = IdleJob /\ round = IdleRound
  /\ todo = IdleTodo /\ image = IdleImage /\ held = IdleHeld
  /\ disturbed = FALSE /\ mixed = FALSE

\* Mutant of PowerOn: the defaults are not saved.
PowerOnUnsaved ==
  /\ stage = "off" /\ stage' = "setup"
  /\ config' = Seeded(flash)
  /\ UNCHANGED <<flash, prefs, work, disturbed, mixed>>

\* loadConfig, enforceConfigDefaults: what is missing is seeded and saved.
PowerOn ==
  /\ stage = "off" /\ stage' = "setup"
  /\ config' = Seeded(flash)
  /\ IF \E k \in Keys : flash[k] = Missing
       THEN /\ pc' = [pc EXCEPT !["loop"] = "open"]
            /\ doing' = [doing EXCEPT !["loop"] = Seeding]
            /\ round' = [round EXCEPT !["loop"] = 1]
       ELSE UNCHANGED <<pc, doing, round>>
  /\ UNCHANGED <<flash, prefs, job, todo, image, held, disturbed, mixed>>

\* server.begin: from here on the web task answers requests.
Serve ==
  /\ stage = "setup" /\ Quiet /\ stage' = "serving"
  /\ UNCHANGED <<config, flash, prefs, work, disturbed, mixed>>

\* Task t begins to read the document into the copies of S.
Reads(t, S) ==
  /\ pc' = [pc EXCEPT ![t] = "fetch"] /\ todo' = [todo EXCEPT ![t] = S]
  /\ mixed' = (pc[Other(t)] # "idle" \/ (mixed /\ disturbed))

\* Mutant of SetupPrefs: the mileage is not read.
SetupForgetsMileage ==
  /\ stage = "serving" /\ pc["loop"] = "idle"
  /\ Reads("loop", PrefKeys \ {"odometer"})
  /\ UNCHANGED <<stage, config, flash, prefs, doing, job, round, image, held, disturbed>>

\* The end of setup: getLocoPrefs and getFunctionPrefs, and loop() begins.
SetupPrefs ==
  /\ stage = "serving" /\ pc["loop"] = "idle"
  /\ Reads("loop", PrefKeys)
  /\ UNCHANGED <<stage, config, flash, prefs, doing, job, round, image, held, disturbed>>

Stop ==
  /\ stage' = "off" /\ config' = Nothing /\ prefs' = NoPrefs /\ UNCHANGED flash
  /\ pc' = IdlePc /\ doing' = IdleDoing /\ job' = IdleJob /\ round' = IdleRound
  /\ todo' = IdleTodo /\ image' = IdleImage /\ held' = IdleHeld
  /\ disturbed' = FALSE /\ mixed' = FALSE

PowerLoss == stage # "off" /\ Stop

-----------------------------------------------------------------------------
(* The handlers of the two tasks.                                          *)

Serving(t) == stage \in IF t = "loop" THEN {"running"} ELSE {"serving", "running"}

Wishes(h) ==
  {w \in [Asked(h) -> Values] :
     \A k \in DOMAIN w : IF k = "odometer" THEN w[k] = prefs[k] ELSE w[k] \in Choices[k]}

\* Round i of handler h, asked for w: its copies are set, its settings are
\* to be assigned.
StartRound(t, h, i, w) ==
  /\ pc' = [pc EXCEPT ![t] = "assign"] /\ round' = [round EXCEPT ![t] = i]
  /\ todo' = [todo EXCEPT ![t] = Stores(h.rounds[i])]
  /\ prefs' = [k \in PrefKeys |-> IF k \in h.rounds[i].sets THEN w[k] ELSE prefs[k]]

Begin(t, h, wish) ==
  /\ h.task = t /\ pc[t] = "idle" /\ Serving(t)
  /\ StartRound(t, h, 1, wish)
  /\ job' = [job EXCEPT ![t] = wish] /\ doing' = [doing EXCEPT ![t] = h]
  /\ disturbed' = (pc[Other(t)] # "idle")
  /\ mixed' = (mixed \/ pc[Other(t)] \in {"fetch", "keep"})
  /\ UNCHANGED <<stage, config, flash, image, held>>

Assign(t) ==
  /\ pc[t] = "assign"
  /\ \E k \in todo[t] :
       /\ config' = [config EXCEPT ![k] =
            IF k \in doing[t].rounds[round[t]].run THEN prefs[k] ELSE job[t][k]]
       /\ todo' = [todo EXCEPT ![t] = @ \ {k}]
       /\ pc' = [pc EXCEPT ![t] = IF todo[t] = {k} THEN "open" ELSE "assign"]
  /\ UNCHANGED <<stage, flash, prefs, doing, job, round, image, held, disturbed, mixed>>

\* Mutant of Return: the handler answers after its first save.
ReturnEarly(t) ==
  /\ pc' = [pc EXCEPT ![t] = "answer"] /\ todo' = [todo EXCEPT ![t] = {}]
  /\ UNCHANGED <<round, prefs>>

\* A save is over: the handler's next round, or its end.
Return(t) ==
  \/ /\ round[t] < Len(doing[t].rounds)
     /\ StartRound(t, doing[t], round[t] + 1, job[t])
  \/ /\ ~(round[t] < Len(doing[t].rounds))
     /\ pc' = [pc EXCEPT ![t] = "answer"] /\ todo' = [todo EXCEPT ![t] = {}]
     /\ UNCHANGED <<round, prefs>>

\* Mutant of Open: the old file is removed first.
OpenRemoves(t) ==
  /\ pc[t] = "open" /\ pc' = [pc EXCEPT ![t] = "write"]
  /\ todo' = [todo EXCEPT ![t] = Keys] /\ image' = [image EXCEPT ![t] = Nothing]
  /\ flash' = Nothing
  /\ UNCHANGED <<stage, config, prefs, doing, job, round, held, disturbed, mixed>>

Open(t) ==
  /\ pc[t] = "open" /\ pc' = [pc EXCEPT ![t] = "write"]
  /\ todo' = [todo EXCEPT ![t] = Keys] /\ image' = [image EXCEPT ![t] = Nothing]
  /\ flash' = IF TruncatesAtOpen THEN Nothing ELSE flash
  /\ UNCHANGED <<stage, config, prefs, doing, job, round, held, disturbed, mixed>>

\* A failed open is not reported: the handler goes on as if it had saved.
OpenFails(t) ==
  /\ OpenMayFail /\ pc[t] = "open" /\ Return(t) /\ disturbed' = TRUE
  /\ UNCHANGED <<stage, config, flash, doing, job, image, held, mixed>>

\* serializeJson, setting by setting in the order of the document.
First(S) == CHOOSE k \in S : TRUE
Write(t) ==
  /\ pc[t] = "write" /\ todo[t] # {}
  /\ image' = [image EXCEPT ![t][First(todo[t])] = config[First(todo[t])]]
  /\ todo' = [todo EXCEPT ![t] = @ \ {First(@)}]
  /\ UNCHANGED <<stage, config, flash, prefs, pc, doing, job, round, held, disturbed, mixed>>

Close(t) ==
  /\ pc[t] = "write" /\ todo[t] = {}
  /\ flash' = image[t] /\ Return(t)
  /\ UNCHANGED <<stage, config, doing, job, image, held, disturbed, mixed>>

\* The handler is over for its task.
Leave(t) ==
  /\ job' = [job EXCEPT ![t] = NoJob] /\ doing' = [doing EXCEPT ![t] = NoHandler]
  /\ round' = [round EXCEPT ![t] = 0] /\ image' = [image EXCEPT ![t] = Nothing]

\* Mutants of Answer: Throttle does not read its settings again; the unit
\* does not restart.
AnswerKeepsPrefs(t) ==
  /\ pc[t] = "answer" /\ Leave(t)
  /\ pc' = [pc EXCEPT ![t] = "idle"]
  /\ UNCHANGED <<stage, config, flash, prefs, todo, held, disturbed, mixed>>

AnswerStays(t) ==
  /\ pc[t] = "answer" /\ Leave(t)
  /\ \/ doing[t].after # "prefs" /\ pc' = [pc EXCEPT ![t] = "idle"] /\ UNCHANGED <<todo, mixed>>
     \/ doing[t].after = "prefs" /\ Reads(t, LocoKeys)
  /\ UNCHANGED <<stage, config, flash, prefs, held, disturbed>>

\* The end of the handler: the redirect, getLocoPrefs, or ESP.restart (after
\* delay(2000) in handleConnect: the other task goes on meanwhile).
Answer(t) ==
  /\ pc[t] = "answer"
  /\ \/ /\ doing[t].after = "return" /\ Leave(t)
        /\ pc' = [pc EXCEPT ![t] = "idle"]
        /\ UNCHANGED <<stage, config, flash, prefs, todo, held, disturbed, mixed>>
     \/ /\ doing[t].after = "prefs" /\ Leave(t)
        /\ Reads(t, LocoKeys)
        /\ UNCHANGED <<stage, config, flash, prefs, held, disturbed>>
     \/ doing[t].after = "restart" /\ Stop

\* getLocoPrefs, one setting: the value is fetched from the document ...
Fetch(t) ==
  /\ pc[t] = "fetch" /\ todo[t] # {}
  /\ held' = [held EXCEPT ![t] = config[First(todo[t])]]
  /\ pc' = [pc EXCEPT ![t] = "keep"]
  /\ UNCHANGED <<stage, config, flash, prefs, doing, job, round, todo, image, disturbed, mixed>>

\* ... and stored in Throttle's copy.
Keep(t) ==
  /\ pc[t] = "keep" /\ pc' = [pc EXCEPT ![t] = "fetch"]
  /\ prefs' = [prefs EXCEPT ![First(todo[t])] = held[t]]
  /\ todo' = [todo EXCEPT ![t] = @ \ {First(@)}]
  /\ held' = [held EXCEPT ![t] = Missing]
  /\ UNCHANGED <<stage, config, flash, doing, job, round, image, disturbed, mixed>>

\* All is read: the handler, or setup, returns.
Done(t) ==
  /\ pc[t] = "fetch" /\ todo[t] = {} /\ pc' = [pc EXCEPT ![t] = "idle"]
  /\ stage' = IF t = "loop" THEN "running" ELSE stage
  /\ UNCHANGED <<config, flash, prefs, doing, job, round, todo, image, held, disturbed, mixed>>

\* computeVelocity adds the distance of a second to the odometer.
Drive ==
  /\ stage = "running" /\ pc["loop"] = "idle"
  /\ "odometer" \in Keys /\ prefs["odometer"] < MaxValue
  /\ prefs' = [prefs EXCEPT !["odometer"] = @ + 1]
  /\ UNCHANGED <<stage, config, flash, work, disturbed, mixed>>

\* pmOnOff of a lead empties muDoc, its roster, and leaves the stored one.
ClearRoster ==
  /\ stage = "running" /\ pc["loop"] = "idle" /\ "consist" \in Keys
  /\ prefs' = [prefs EXCEPT !["consist"] = 0]
  /\ UNCHANGED <<stage, config, flash, work, disturbed, mixed>>

\* A step of the handler that task t is in.
Work(t) ==
  \/ Assign(t) \/ Open(t) \/ OpenFails(t) \/ Write(t) \/ Close(t) \/ Answer(t)
  \/ Fetch(t) \/ Keep(t) \/ Done(t)

ConfigNext ==
  \/ PowerOn \/ Serve \/ SetupPrefs \/ PowerLoss \/ Drive \/ ClearRoster
  \/ \E t \in Tasks :
       Work(t) \/ \E h \in Active : \E w \in Wishes(h) : Begin(t, h, w)

ConfigSpec == ConfigInit /\ [][ConfigNext]_vars

-----------------------------------------------------------------------------
(* Properties.                                                             *)

Pcs == {"idle", "assign", "open", "write", "answer", "fetch", "keep"}

\* Documents, images and copies hold settings in range, and a task that
\* assigns or saves is in a round of its handler.
ConfigTypeOK ==
  /\ stage \in {"off", "setup", "serving", "running"}
  /\ config \in [Keys -> Values \union {Missing}]
  /\ flash \in [Keys -> Values \union {Missing}]
  /\ prefs \in [PrefKeys -> Values]
  /\ pc \in [Tasks -> Pcs] /\ disturbed \in BOOLEAN /\ mixed \in BOOLEAN
  /\ \A t \in Tasks :
       /\ doing[t] \in Active \union {Seeding, NoHandler}
       /\ todo[t] \subseteq Keys /\ image[t] \in [Keys -> Values \union {Missing}]
       /\ DOMAIN job[t] \subseteq Keys /\ \A k \in DOMAIN job[t] : job[t][k] \in Values
       /\ held[t] \in Values \union {Missing}
       /\ pc[t] \in {"assign", "open", "write"} => round[t] \in DOMAIN doing[t].rounds

\* Once the web server runs no setting is missing from the document: what
\* setup announces as guaranteed (main.cpp, after enforceConfigDefaults).
SettingsExist == stage \in {"serving", "running"} => config \in Whole

\* When no handler is under way the file holds the document, unless a
\* save was disturbed and none has been made alone since: an update that two
\* overlapping saves lose is back with the next undisturbed one.
StoredWhenQuiet ==
  stage \in {"serving", "running"} /\ Quiet /\ ~disturbed => flash = config

\* When a handler answers (redirects, or waits to restart) what it was
\* asked to store is in flash, all of it, if nothing disturbed its saves.
StoredWhenAnswered ==
  \A t \in Tasks : pc[t] = "answer" /\ ~disturbed =>
    \A k \in DOMAIN job[t] : flash[k] = job[t][k]

\* The same without the condition: what the pages and log lines tell the
\* user ("Save the whole ledger to LittleFS in one clean transaction").
AnsweredIsStored ==
  \A t \in Tasks : pc[t] = "answer" /\ doing[t].after = "restart" =>
    \A k \in DOMAIN job[t] : flash[k] = job[t][k]

\* Throttle works with what getLocoPrefs reads of the document, only its
\* odometer runs ahead and its roster may be empty (pmOnOff clears it), until
\* a reading overlaps a handler of the other task; the next one alone, after
\* an undisturbed save, heals it.
PrefsAgree ==
  stage = "running" /\ Quiet /\ ~mixed =>
    /\ \A k \in LocoKeys \ {"odometer", "consist"} : prefs[k] = config[k]
    /\ "odometer" \in Keys => prefs["odometer"] >= config["odometer"]
    /\ "consist" \in Keys => prefs["consist"] \in {0, config["consist"]}

\* The same without the condition, and the same of the function numbers.
\* Neither holds: a value fetched before another task's form is stored after
\* it, and nothing reads the function numbers after setup.
PrefsAlwaysAgree ==
  stage = "running" /\ Quiet =>
    \A k \in LocoKeys \ {"odometer", "consist"} : prefs[k] = config[k]
FunctionsAgree ==
  stage = "running" /\ Quiet => \A k \in FunctionKeys : prefs[k] = config[k]

\* A file that holds every setting is never replaced by one that does not:
\* neither a power loss in the middle of a save nor two overlapping saves
\* leave a torn file.
FileStaysWhole == [][(flash \in Whole) => (flash' \in Whole)]_vars

\* The stored mileage never goes back, unless by a disturbed save or by a
\* copy that was read back while loop() stored a later one.
MileageGrows ==
  [][~disturbed /\ ~mixed /\ "odometer" \in Keys
       => flash'["odometer"] >= flash["odometer"]]_vars

\* What is promised of the settings, with tasks and handles left out.
Up == stage \in {"serving", "running"}
Ledger == INSTANCE SettingsLedger WITH
  Settings <- Keys, up <- Up, mem <- IF Up THEN config ELSE Nothing,
  disk <- flash, disturbed <- Up /\ disturbed
ImplementsLedger == Ledger!Spec
=============================================================================
