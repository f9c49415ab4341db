-------------------------- MODULE ConfigStoreProofs --------------------------
(***************************************************************************)
(* Theorems about ConfigStore, for every set of handlers, every range of   *)
(* values and every choice of them: what is stored when a handler answers, *)
(* what Throttle works with, and that the store implements SettingsLedger  *)
(* if opening a file for writing leaves the old one in place.              *)
(***************************************************************************)
EXTENDS ConfigStore, TLAPS

-----------------------------------------------------------------------------
(* The handlers.                                                           *)

Rests == {"return", "prefs", "restart"}
LocoNames == {"mustate", "mureversed", "odometer", "speed2", "dccaddress", "consist"}

\* What the proofs need of a round: the web sets and reads no copy, the
\* mileage is only ever stored from its copy, and a setting that Throttle has
\* a copy of is stored as received only by a handler that reads it back.
RoundOK(t, rest, r) ==
  /\ t = "web" => r.sets = {} /\ r.run = {}
  /\ r.sets \union r.run \subseteq LocoNames
  /\ "odometer" \notin r.sets \union r.given
  /\ "consist" \notin r.given
  /\ r.given \intersect LocoNames # {} => rest = "prefs"

\* And of a handler: what a round sets it or a later one stores, what a round
\* stores of the values asked for has been set by then.
ShapeOK(h) ==
  /\ h.task \in Tasks /\ h.after \in Rests
  /\ Len(h.rounds) \in Nat \ {0} /\ DOMAIN h.rounds = 1..Len(h.rounds)
  /\ \A i \in 1..Len(h.rounds) :
       /\ RoundOK(h.task, h.after, h.rounds[i])
       /\ \A k \in h.rounds[i].sets : \E j \in i..Len(h.rounds) : k \in Stores(h.rounds[j])
       /\ \A k \in h.rounds[i].run \intersect Asked(h) :
            k = "odometer" \/ \E j \in 1..i : k \in h.rounds[j].sets

LEMMA OneRound ==
  ASSUME NEW t \in Tasks, NEW rest \in Rests, NEW s, NEW r, NEW g,
         RoundOK(t, rest, Round(s, r, g)), s \subseteq r \union g,
         \A k \in r : k = "odometer" \/ k \in s \/ k \notin s \union g
  PROVE  ShapeOK(Handler(t, <<Round(s, r, g)>>, rest))
<1> DEFINE h == Handler(t, <<Round(s, r, g)>>, rest)
<1>1. h.task = t /\ h.after = rest /\ h.rounds = <<Round(s, r, g)>>
  BY DEF Handler
<1>2. Len(h.rounds) = 1 /\ DOMAIN h.rounds = 1..1 /\ h.rounds[1] = Round(s, r, g)
  BY <1>1
<1> HIDE DEF h
<1>3. Asked(h) = s \union g \union (r \intersect {"odometer"})
  BY <1>2 DEF Asked, Round
<1>4. \A k \in s : k \in Stores(h.rounds[1])
  BY <1>2 DEF Stores, Round
<1>5. \A k \in r \intersect Asked(h) : k = "odometer" \/ k \in s
  BY <1>3
<1>6. ShapeOK(h)
  BY <1>1, <1>2, <1>4, <1>5 DEF ShapeOK, Round
<1> QED BY <1>6 DEF h

LEMMA TwoRounds ==
  ASSUME NEW rest \in Rests, NEW s1, NEW r1, NEW g1, NEW s2, NEW r2, NEW g2,
         RoundOK("loop", rest, Round(s1, r1, g1)), RoundOK("loop", rest, Round(s2, r2, g2)),
         s1 \subseteq r1 \union g1 \union r2 \union g2, s2 \subseteq r2 \union g2,
         r1 \subseteq s1, r2 \subseteq s1 \union s2
  PROVE  ShapeOK(Handler("loop", <<Round(s1, r1, g1), Round(s2, r2, g2)>>, rest))
<1> DEFINE h == Handler("loop", <<Round(s1, r1, g1), Round(s2, r2, g2)>>, rest)
<1>1. h.task = "loop" /\ h.after = rest /\ h.rounds = <<Round(s1, r1, g1), Round(s2, r2, g2)>>
  BY DEF Handler
<1>2. /\ Len(h.rounds) = 2 /\ DOMAIN h.rounds = 1..2
      /\ h.rounds[1] = Round(s1, r1, g1) /\ h.rounds[2] = Round(s2, r2, g2)
  BY <1>1
<1> HIDE DEF h
<1>3. \A i \in 1..2 : \A k \in h.rounds[i].sets : \E j \in i..2 : k \in Stores(h.rounds[j])
  BY <1>2 DEF Stores, Round
<1>4. \A i \in 1..2 : \A k \in h.rounds[i].run : \E j \in 1..i : k \in h.rounds[j].sets
  BY <1>2 DEF Round
<1>5. \A i \in 1..2 : RoundOK("loop", rest, h.rounds[i])
  BY <1>2
<1>6. ShapeOK(h)
  BY <1>1, <1>2, <1>3, <1>4, <1>5 DEF ShapeOK, Tasks
<1> QED BY <1>6 DEF h

LEMMA ThreeRounds ==
  ASSUME NEW rest \in Rests, NEW s1, NEW r1, NEW g1, NEW s2, NEW r2, NEW g2,
         NEW s3, NEW r3, NEW g3,
         RoundOK("loop", rest, Round(s1, r1, g1)), RoundOK("loop", rest, Round(s2, r2, g2)),
         RoundOK("loop", rest, Round(s3, r3, g3)),
         s1 \subseteq r1 \union g1 \union r2 \union g2 \union r3 \union g3,
         s2 \subseteq r2 \union g2 \union r3 \union g3, s3 \subseteq r3 \union g3,
         r1 \subseteq s1, r2 \subseteq s1 \union s2, r3 \subseteq s1 \union s2 \union s3
  PROVE  ShapeOK(Handler("loop",
           <<Round(s1, r1, g1), Round(s2, r2, g2), Round(s3, r3, g3)>>, rest))
<1> DEFINE h == Handler("loop", <<Round(s1, r1, g1), Round(s2, r2, g2), Round(s3, r3, g3)>>, rest)
<1>1. /\ h.task = "loop" /\ h.after = rest
      /\ h.rounds = <<Round(s1, r1, g1), Round(s2, r2, g2), Round(s3, r3, g3)>>
  BY DEF Handler
<1>2. /\ Len(h.rounds) = 3 /\ DOMAIN h.rounds = 1..3
      /\ h.rounds[1] = Round(s1, r1, g1) /\ h.rounds[2] = Round(s2, r2, g2)
      /\ h.rounds[3] = Round(s3, r3, g3)
  BY <1>1
<1> HIDE DEF h
<1>3. \A i \in 1..3 : \A k \in h.rounds[i].sets : \E j \in i..3 : k \in Stores(h.rounds[j])
  BY <1>2 DEF Stores, Round
<1>4. \A i \in 1..3 : \A k \in h.rounds[i].run : \E j \in 1..i : k \in h.rounds[j].sets
  BY <1>2 DEF Round
<1>5. \A i \in 1..3 : RoundOK("loop", rest, h.rounds[i])
  BY <1>2
<1>6. ShapeOK(h)
  BY <1>1, <1>2, <1>3, <1>4, <1>5 DEF ShapeOK, Tasks
<1> QED BY <1>6 DEF h

LEMMA FormRound ==
  ASSUME NEW t \in Tasks, NEW S, NEW rest \in Rests, "odometer" \notin S, "consist" \notin S,
         S \intersect LocoNames # {} => rest = "prefs"
  PROVE  ShapeOK(Handler(t, <<Form(S)>>, rest))
<1>1. RoundOK(t, rest, Round({}, {}, S))
  BY DEF RoundOK, Round
<1> QED BY <1>1, OneRound DEF Form

LEMMA HandlerShape == ASSUME NEW h \in Handlers \union {Seeding} PROVE ShapeOK(h)
<1> USE DEF Tasks, Rests, LocoNames
<1>1. \/ h = Handler("loop", <<Form({})>>, "return")
      \/ h = Handler("loop", <<Form({"speed2"})>>, "prefs")
      \/ h = Handler("web", <<Form({"dccaddress"})>>, "prefs")
      \/ h = Handler("web", <<Form({"speed2"})>>, "prefs")
      \/ h = Handler("web", <<Form({"headlight", "horn"})>>, "return")
      \/ h = Handler("web", <<Form({"f0", "f1"})>>, "return")
      \/ h = Handler("web", <<Form({"erasessid"})>>, "restart")
      \/ h = Handler("web", <<Form({"ssid", "pass"})>>, "restart")
      => ShapeOK(h)
  <2>1. ShapeOK(Handler("loop", <<Form({})>>, "return"))
    BY FormRound
  <2>2. ShapeOK(Handler("loop", <<Form({"speed2"})>>, "prefs"))
    BY FormRound
  <2>3. ShapeOK(Handler("web", <<Form({"dccaddress"})>>, "prefs"))
    BY FormRound
  <2>4. ShapeOK(Handler("web", <<Form({"speed2"})>>, "prefs"))
    BY FormRound
  <2>5. ShapeOK(Handler("web", <<Form({"headlight", "horn"})>>, "return"))
    BY FormRound
  <2>6. ShapeOK(Handler("web", <<Form({"f0", "f1"})>>, "return"))
    BY FormRound
  <2>7. ShapeOK(Handler("web", <<Form({"erasessid"})>>, "restart"))
    BY FormRound
  <2>8. ShapeOK(Handler("web", <<Form({"ssid", "pass"})>>, "restart"))
    BY FormRound
  <2> QED BY <2>1, <2>2, <2>3, <2>4, <2>5, <2>6, <2>7, <2>8
<1>2. ASSUME NEW rest \in Rests
      PROVE  /\ RoundOK("loop", rest, Round({"mustate"}, {"mustate"}, {}))
             /\ RoundOK("loop", rest, Round({"mustate", "mureversed"}, {"mustate"}, {}))
             /\ RoundOK("loop", "prefs", Round({}, {"mureversed"}, {"mustate"}))
             /\ RoundOK("loop", "prefs", Round({"mureversed"}, {"mureversed"}, {"mustate"}))
             /\ RoundOK("loop", rest, Round({"consist"}, {"consist", "mustate"}, {}))
             /\ RoundOK("loop", rest, Round({"consist", "mustate"}, {"mustate"}, {}))
             /\ RoundOK("loop", rest, Round({}, {"consist", "mustate"}, {}))
             /\ RoundOK("loop", rest, Round({}, {"odometer"}, {}))
  BY DEF RoundOK, Round
<1>3. ShapeOK(Handler("loop", <<Own({"mustate"})>>, "return"))
  BY <1>2, OneRound DEF Own
<1>4. ShapeOK(Handler("loop", <<Round({"mustate", "mureversed"}, {"mustate"}, {}),
                Own({"mustate"}), Round({}, {"mureversed"}, {"mustate"})>>, "prefs"))
  BY <1>2, ThreeRounds DEF Own
<1>5. ShapeOK(Handler("loop", <<Round({"mustate", "mureversed"}, {"mustate"}, {}),
                Round({}, {"mureversed"}, {"mustate"})>>, "prefs"))
  BY <1>2, TwoRounds
<1>6. ShapeOK(Handler("loop", <<Round({"mureversed"}, {"mureversed"}, {"mustate"})>>, "prefs"))
  BY <1>2, OneRound
<1>7. ShapeOK(Handler("loop", <<Own({"mustate"}),
                Round({"consist"}, {"consist", "mustate"}, {})>>, "return"))
  BY <1>2, TwoRounds DEF Own
<1>8. ShapeOK(Handler("loop", <<Round({"consist", "mustate"}, {"mustate"}, {}),
                Round({}, {"consist", "mustate"}, {})>>, "return"))
  BY <1>2, TwoRounds
<1>9. ShapeOK(Handler("loop", <<Round({"consist"}, {"consist", "mustate"}, {})>>, "return"))
  BY <1>2, OneRound
<1>10. ShapeOK(Handler("loop", <<Round({}, {"odometer"}, {})>>, "return"))
  BY <1>2, OneRound
<1> QED BY <1>1, <1>3, <1>4, <1>5, <1>6, <1>7, <1>8, <1>9, <1>10 DEF Handlers, Seeding

\* The same for the handlers of an instance, whose settings are Keys.
HandlerOK(h) ==
  /\ ShapeOK(h)
  /\ \A i \in 1..Len(h.rounds) :
       /\ Stores(h.rounds[i]) \subseteq Keys
       /\ h.rounds[i].sets \union h.rounds[i].run \subseteq LocoKeys
  /\ Asked(h) \subseteq Keys

LEMMA ActiveHandlers == ASSUME NEW h \in Active \union {Seeding} PROVE HandlerOK(h)
<1>1. ShapeOK(h)
  BY ConfigAssumption, HandlerShape
<1>2. DOMAIN h.rounds = 1..Len(h.rounds)
  BY <1>1 DEF ShapeOK
<1>3. ASSUME NEW i \in 1..Len(h.rounds) PROVE Stores(h.rounds[i]) \subseteq Keys
  <2>1. CASE h \in Active
    BY <1>2, <2>1 DEF Keys
  <2>2. CASE h = Seeding
    <3>1. h.rounds = <<Round({}, {}, {})>>
      BY <2>2 DEF Seeding, Handler, Form
    <3>2. Len(h.rounds) = 1 /\ h.rounds[1] = Round({}, {}, {})
      BY <3>1
    <3>3. i = 1
      BY <3>2
    <3> QED BY <3>2, <3>3 DEF Stores, Round
  <2> QED BY <2>1, <2>2
<1>4. ASSUME NEW i \in 1..Len(h.rounds)
      PROVE  h.rounds[i].sets \union h.rounds[i].run \subseteq LocoKeys
  <2>1. h.rounds[i].sets \union h.rounds[i].run \subseteq LocoNames
    BY <1>1 DEF ShapeOK, RoundOK
  <2>2. h.rounds[i].run \subseteq Keys
    BY <1>3 DEF Stores
  <2>3. h.rounds[i].sets \subseteq Keys
    <3>1. \A j \in i..Len(h.rounds) : j \in 1..Len(h.rounds)
      BY <1>1 DEF ShapeOK
    <3> QED BY <1>1, <1>3, <3>1 DEF ShapeOK
  <2> QED BY <2>1, <2>2, <2>3 DEF LocoKeys, LocoNames
<1>5. Asked(h) \subseteq Keys
  BY <1>2, <1>3, <1>4 DEF Asked, LocoKeys, Stores
<1> QED BY <1>1, <1>3, <1>4, <1>5 DEF HandlerOK

\* What the rounds after the i-th store.
LaterOf(h, i) == UNION {Stores(h.rounds[j]) : j \in (i + 1)..Len(h.rounds)}

LEMMA LaterNext ==
  ASSUME NEW h, HandlerOK(h), NEW i \in Nat, i < Len(h.rounds)
  PROVE  /\ i + 1 \in 1..Len(h.rounds)
         /\ LaterOf(h, i) = Stores(h.rounds[i + 1]) \union LaterOf(h, i + 1)
<1>1. Len(h.rounds) \in Nat
  BY DEF HandlerOK, ShapeOK
<1>2. i + 1 \in 1..Len(h.rounds) /\ i + 1 \in (i + 1)..Len(h.rounds)
  BY <1>1
<1>3. \A j \in (i + 1)..Len(h.rounds) : j = i + 1 \/ j \in (i + 1 + 1)..Len(h.rounds)
  BY <1>1
<1>4. \A j \in (i + 1 + 1)..Len(h.rounds) : j \in (i + 1)..Len(h.rounds)
  BY <1>1
<1> QED BY <1>2, <1>3, <1>4 DEF LaterOf

LEMMA LaterEnd ==
  ASSUME NEW h, HandlerOK(h), NEW i \in Nat, ~(i < Len(h.rounds))
  PROVE  LaterOf(h, i) = {}
<1>1. (i + 1)..Len(h.rounds) = {}
  BY DEF HandlerOK, ShapeOK
<1> QED BY <1>1 DEF LaterOf

LEMMA LaterNone ==
  /\ LaterOf(NoHandler, 0) = {} /\ Len(NoHandler.rounds) = 0
  /\ Asked(NoHandler) = {} /\ NoHandler.after = "return"
<1>1. NoHandler.rounds = <<>> /\ NoHandler.after = "return"
  BY DEF NoHandler, Handler
<1>2. Len(NoHandler.rounds) = 0 /\ DOMAIN NoHandler.rounds = {}
  BY <1>1
<1>3. (0 + 1)..Len(NoHandler.rounds) = {}
  BY <1>2
<1>4. LaterOf(NoHandler, 0) = {}
  BY <1>3 DEF LaterOf
<1> QED BY <1>1, <1>2, <1>4 DEF Asked

LEMMA SeedingOK ==
  /\ Len(Seeding.rounds) = 1 /\ Asked(Seeding) = {} /\ Seeding.task = "loop"
  /\ Seeding.after = "return" /\ Seeding # NoHandler
<1>1. Seeding.rounds = <<Round({}, {}, {})>> /\ Seeding.task = "loop" /\ Seeding.after = "return"
  BY DEF Seeding, Handler, Form
<1>2. Len(Seeding.rounds) = 1 /\ DOMAIN Seeding.rounds = 1..1
      /\ Seeding.rounds[1] = Round({}, {}, {})
  BY <1>1
<1>3. Asked(Seeding) = {}
  BY <1>2 DEF Asked, Round
<1> QED BY <1>1, <1>2, <1>3, LaterNone

\* All that a handler was asked for is stored by one of its rounds; the web
\* is not asked for the mileage, and a setting that Throttle has a copy of
\* is stored as received only if it is read back.
LEMMA AskedStored ==
  ASSUME NEW h, HandlerOK(h)
  PROVE  /\ Asked(h) \subseteq LaterOf(h, 0)
         /\ \A i \in 1..Len(h.rounds) :
              /\ h.rounds[i].sets \subseteq Asked(h) /\ h.rounds[i].given \subseteq Asked(h)
              /\ h.rounds[i].sets \subseteq Stores(h.rounds[i]) \union LaterOf(h, i)
              /\ h.task = "web" => h.rounds[i].sets = {} /\ h.rounds[i].run = {}
              /\ "odometer" \notin h.rounds[i].sets \union h.rounds[i].given
              /\ h.rounds[i].given \intersect LocoKeys # {} => h.after = "prefs"
              /\ "odometer" \in h.rounds[i].run => "odometer" \in Asked(h)
         /\ h.task = "web" => "odometer" \notin Asked(h)
<1>1. /\ DOMAIN h.rounds = 1..Len(h.rounds) /\ Len(h.rounds) \in Nat
      /\ \A i \in 1..Len(h.rounds) : RoundOK(h.task, h.after, h.rounds[i])
  BY DEF HandlerOK, ShapeOK
<1>2. ASSUME NEW i \in 1..Len(h.rounds)
      PROVE  h.rounds[i].sets \subseteq Stores(h.rounds[i]) \union LaterOf(h, i)
  <2>1. \A k \in h.rounds[i].sets : \E j \in i..Len(h.rounds) : k \in Stores(h.rounds[j])
    BY DEF HandlerOK, ShapeOK
  <2>2. \A j \in i..Len(h.rounds) : j = i \/ j \in (i + 1)..Len(h.rounds)
    BY <1>1
  <2> QED BY <2>1, <2>2 DEF LaterOf
<1>3. \A i \in 1..Len(h.rounds) :
        /\ i \in (0 + 1)..Len(h.rounds)
        /\ \A j \in (i + 1)..Len(h.rounds) : j \in (0 + 1)..Len(h.rounds)
  BY <1>1
<1>4. \A i \in 1..Len(h.rounds) :
        Stores(h.rounds[i]) \subseteq LaterOf(h, 0) /\ LaterOf(h, i) \subseteq LaterOf(h, 0)
  BY <1>3 DEF LaterOf
<1>5. Asked(h) \subseteq LaterOf(h, 0)
  BY <1>1, <1>2, <1>4 DEF Asked, Stores
<1>6. \A i \in 1..Len(h.rounds) :
        /\ h.rounds[i].sets \subseteq Asked(h) /\ h.rounds[i].given \subseteq Asked(h)
        /\ "odometer" \in h.rounds[i].run => "odometer" \in Asked(h)
  BY <1>1 DEF Asked
<1>7. h.task = "web" => "odometer" \notin Asked(h)
  BY <1>1 DEF Asked, RoundOK
<1> QED BY <1>1, <1>2, <1>5, <1>6, <1>7 DEF RoundOK, LocoKeys, LocoNames

-----------------------------------------------------------------------------
(* The inductive invariant.                                                *)

Writing == {"assign", "open", "write"}
Handling == Writing \union {"answer"}
Reading == {"fetch", "keep"}

\* The settings a task has yet to assign: those of its later rounds, and the
\* rest of the present one.
Awaits(t) == LaterOf(doing[t], round[t]) \union IF pc[t] = "assign" THEN todo[t] ELSE {}

Jobs == UNION {[D -> Values] : D \in SUBSET Keys}
Docs == [Keys -> Values \union {Missing}]

Types ==
  /\ stage \in {"off", "setup", "serving", "running"}
  /\ config \in Docs
  /\ flash \in Docs
  /\ prefs \in [PrefKeys -> Values]
  /\ pc \in [Tasks -> Pcs]
  /\ disturbed \in BOOLEAN
  /\ mixed \in BOOLEAN
  /\ doing \in [Tasks -> Active \union {Seeding, NoHandler}]
  /\ round \in [Tasks -> Nat]
  /\ todo \in [Tasks -> SUBSET Keys]
  /\ image \in [Tasks -> Docs]
  /\ job \in [Tasks -> Jobs]
  /\ held \in [Tasks -> Values \union {Missing}]

\* Where the tasks can be in each stage, and what a task carries at each step
\* of a handler.
Staged ==
  /\ stage = "off" => Quiet /\ ~disturbed /\ ~mixed
  /\ stage = "setup" => /\ pc["web"] = "idle" /\ pc["loop"] \in {"idle", "open", "write", "answer"}
                        /\ doing["loop"] \in {Seeding, NoHandler}
  /\ stage = "serving" => pc["loop"] \in {"idle"} \union Reading
  /\ stage # "off" => config \in Whole

Carried(t) ==
  /\ pc[t] \in Handling =>
       /\ doing[t] \in Active \union {Seeding} /\ doing[t].task = t
       /\ DOMAIN job[t] = Asked(doing[t])
       /\ round[t] \in 1..Len(doing[t].rounds)
  /\ pc[t] \notin Handling => doing[t] = NoHandler /\ job[t] = NoJob /\ round[t] = 0
  /\ pc[t] = "assign" => todo[t] \subseteq Stores(doing[t].rounds[round[t]])
  /\ pc[t] = "answer" => round[t] = Len(doing[t].rounds)
  /\ pc[t] = "write" => \A k \in Keys \ todo[t] : image[t][k] \in Values
  /\ pc[t] \in Reading => todo[t] \subseteq PrefKeys
  /\ pc[t] = "keep" => todo[t] # {} /\ held[t] \in Values

Flow == Staged /\ \A t \in Tasks : Carried(t)

\* While nothing disturbs it, the task in a handler is the only one, what it
\* wrote of its file is what the document holds, and what it stored is what
\* it was asked for.
AloneAt(t) ==
  pc[t] \in Handling =>
    /\ pc[Other(t)] \notin Handling
    /\ t = "loop" => pc["web"] = "idle"
    /\ pc[t] = "write" => \A k \in Keys \ todo[t] : image[t][k] = config[k]
    /\ pc[t] = "answer" => flash = config
    /\ \A k \in DOMAIN job[t] \ Awaits(t) : config[k] = job[t][k]
    /\ \A i \in 1..round[t] : \A k \in doing[t].rounds[i].sets : prefs[k] = job[t][k]
    /\ "odometer" \in DOMAIN job[t] => prefs["odometer"] = job[t]["odometer"]

Alone ==
  ~disturbed =>
    /\ \A t \in Tasks : AloneAt(t)
    /\ stage # "off" /\ (\A t \in Tasks : pc[t] \notin Handling) => flash = config

\* Once the copies are being read, one that differs from the document is
\* about to be stored, or about to be read; only the mileage runs ahead, and
\* a roster may have been cleared.
Copying == stage = "running" \/ (stage = "serving" /\ pc["loop"] \in Reading)
Settled(k) == prefs[k] = config[k] \/ (k = "consist" /\ prefs[k] = 0)
ReadBack(k) == \E t \in Tasks : pc[t] \in Handling /\ doing[t].after = "prefs" /\ k \in DOMAIN job[t]
BeingRead(k) == \E t \in Tasks : pc[t] \in Reading /\ k \in todo[t]

Copied ==
  Copying /\ ~mixed =>
    /\ \A t \in Tasks : pc[t] \in Reading => pc[Other(t)] = "idle"
    /\ \A t \in Tasks : pc[t] = "keep" => held[t] = config[First(todo[t])]
    /\ \A k \in LocoKeys \ {"odometer"} :
         Settled(k) \/ k \in Awaits("loop") \/ ReadBack(k) \/ BeingRead(k)
    /\ "odometer" \in Keys => config["odometer"] <= prefs["odometer"] \/ BeingRead("odometer")

Mileage ==
  stage # "off" /\ "odometer" \in Keys /\ ~mixed =>
    /\ flash["odometer"] <= config["odometer"]
    /\ \A t \in Tasks : pc[t] = "write" => image[t]["odometer"] <= config["odometer"]

\* Setup saves the defaults, or has found nothing missing.
SetUp ==
  stage = "setup" =>
    /\ config = Seeded(flash)
    /\ pc["loop"] \in {"open", "write"} => ~disturbed /\ flash # Seeded(flash)
    /\ disturbed => flash # Seeded(flash)

-----------------------------------------------------------------------------
(* Types.                                                                  *)

LEMMA Settings ==
  /\ LocoKeys \subseteq PrefKeys /\ PrefKeys \subseteq Keys
  /\ "odometer" \in Keys => "odometer" \in LocoKeys
  /\ "consist" \in Keys => "consist" \in LocoKeys
  /\ Missing \notin Values /\ 0 \in Values /\ Values \subseteq Int
  /\ \A v \in Values : 0 <= v
  /\ \A v \in Values \union {Missing} : v <= 0 \/ v \in Values
  /\ Whole \subseteq Docs /\ Nothing \in Docs /\ NoPrefs \in [PrefKeys -> Values]
<1>1. MaxValue \in Nat \ {0}
  BY ConfigAssumption
<1> QED BY <1>1
    DEF LocoKeys, FunctionKeys, PrefKeys, Missing, Values, Whole, Docs, Nothing, NoPrefs

LEMMA IntValue == ASSUME NEW v \in Values PROVE v \in Int /\ 0 <= v /\ v <= v
  BY ConfigAssumption DEF Values

LEMMA SeededWhole ==
  ASSUME NEW d \in Docs
  PROVE  /\ Seeded(d) \in Whole
         /\ \A k \in Keys : Seeded(d)[k] = IF d[k] = Missing THEN 0 ELSE d[k]
         /\ d \in Whole => Seeded(d) = d
         /\ (\A k \in Keys : d[k] # Missing) => d \in Whole
  BY Settings DEF Seeded, Docs, Whole

LEMMA IdleTypes ==
  /\ IdlePc \in [Tasks -> Pcs] /\ IdleDoing \in [Tasks -> Active \union {Seeding, NoHandler}]
  /\ IdleRound \in [Tasks -> Nat] /\ IdleTodo \in [Tasks -> SUBSET Keys]
  /\ IdleImage \in [Tasks -> Docs] /\ IdleJob \in [Tasks -> Jobs]
  /\ IdleHeld \in [Tasks -> Values \union {Missing}]
  /\ NoJob \in Jobs /\ DOMAIN NoJob = {}
<1>1. NoJob \in Jobs /\ DOMAIN NoJob = {}
  <2>1. NoJob \in [{} -> Values] /\ DOMAIN NoJob = {}
    BY DEF NoJob
  <2> QED BY <2>1 DEF Jobs
<1> QED BY <1>1, Settings
    DEF IdlePc, IdleDoing, IdleRound, IdleTodo, IdleImage, IdleJob, IdleHeld, Pcs

LEMMA JobValue ==
  ASSUME Types, NEW t \in Tasks, NEW k \in DOMAIN job[t]
  PROVE  job[t][k] \in Values /\ k \in Keys
  BY DEF Types, Jobs

\* A task in a handler, and the settings of the round it is in.
LEMMA InHandler ==
  ASSUME Types, NEW t \in Tasks, Carried(t), pc[t] \in Handling
  PROVE  /\ HandlerOK(doing[t]) /\ doing[t].task = t /\ round[t] \in Nat
         /\ round[t] \in 1..Len(doing[t].rounds) /\ DOMAIN job[t] = Asked(doing[t])
         /\ doing[t].after \in Rests /\ Len(doing[t].rounds) \in Nat
<1>1. HandlerOK(doing[t])
  BY ActiveHandlers DEF Carried
<1> QED BY <1>1 DEF Carried, HandlerOK, ShapeOK, Types

\* What StartRound does to one task and to the copies.
LEMMA Started ==
  ASSUME Types, NEW t \in Tasks, NEW h, HandlerOK(h), NEW i \in 1..Len(h.rounds),
         NEW w \in Jobs, DOMAIN w = Asked(h), StartRound(t, h, i, w)
  PROVE  /\ pc' = [pc EXCEPT ![t] = "assign"] /\ pc'[t] = "assign"
         /\ round' = [round EXCEPT ![t] = i] /\ round'[t] = i /\ round' \in [Tasks -> Nat]
         /\ todo' = [todo EXCEPT ![t] = Stores(h.rounds[i])]
         /\ todo'[t] = Stores(h.rounds[i]) /\ todo' \in [Tasks -> SUBSET Keys]
         /\ prefs' \in [PrefKeys -> Values]
         /\ \A k \in h.rounds[i].sets : prefs'[k] = w[k]
         /\ \A k \in PrefKeys \ h.rounds[i].sets : prefs'[k] = prefs[k]
         /\ "odometer" \in Keys => prefs'["odometer"] = prefs["odometer"]
<1>1. /\ h.rounds[i].sets \subseteq LocoKeys /\ h.rounds[i].sets \subseteq Asked(h)
      /\ Stores(h.rounds[i]) \subseteq Keys /\ "odometer" \notin h.rounds[i].sets
  BY AskedStored DEF HandlerOK
<1>2. i \in Nat
  BY DEF HandlerOK, ShapeOK
<1>3. \A k \in DOMAIN w : w[k] \in Values
  BY DEF Jobs
<1>4. prefs' = [k \in PrefKeys |-> IF k \in h.rounds[i].sets THEN w[k] ELSE prefs[k]]
  BY DEF StartRound
<1>5. prefs' \in [PrefKeys -> Values]
  BY <1>1, <1>3, <1>4 DEF Types
<1> QED BY <1>1, <1>2, <1>4, <1>5, Settings DEF StartRound, Types

\* What Return does to one task: the settings of the later rounds stay, those
\* of the next one move to todo.
LEMMA Returned ==
  ASSUME Types, NEW t \in Tasks, Carried(t), pc[t] \in {"open", "write"}, Return(t),
         doing' = doing
  PROVE  /\ pc' = [pc EXCEPT ![t] = pc'[t]] /\ pc'[t] \in {"assign", "answer"}
         /\ round' = [round EXCEPT ![t] = round'[t]] /\ round' \in [Tasks -> Nat]
         /\ todo' = [todo EXCEPT ![t] = todo'[t]] /\ todo' \in [Tasks -> SUBSET Keys]
         /\ prefs' \in [PrefKeys -> Values]
         /\ pc'[t] = "assign" =>
              /\ round'[t] = round[t] + 1 /\ round'[t] \in 1..Len(doing[t].rounds)
              /\ todo'[t] = Stores(doing[t].rounds[round'[t]])
              /\ \A k \in doing[t].rounds[round'[t]].sets : prefs'[k] = job[t][k]
              /\ \A k \in PrefKeys \ doing[t].rounds[round'[t]].sets : prefs'[k] = prefs[k]
         /\ pc'[t] = "answer" => round'[t] = round[t] /\ round[t] = Len(doing[t].rounds)
                                 /\ prefs' = prefs
         /\ "odometer" \in Keys => prefs'["odometer"] = prefs["odometer"]
         /\ Awaits(t)' = Awaits(t)
<1>1. /\ HandlerOK(doing[t]) /\ round[t] \in Nat /\ Len(doing[t].rounds) \in Nat
      /\ round[t] \in 1..Len(doing[t].rounds) /\ DOMAIN job[t] = Asked(doing[t])
  BY InHandler DEF Handling, Writing
<1>2. Awaits(t) = LaterOf(doing[t], round[t])
  BY DEF Awaits
<1>3. CASE round[t] < Len(doing[t].rounds)
  <2> DEFINE i == round[t] + 1
  <2>1. i \in 1..Len(doing[t].rounds)
        /\ LaterOf(doing[t], round[t]) = Stores(doing[t].rounds[i]) \union LaterOf(doing[t], i)
    BY <1>1, <1>3, LaterNext
  <2>2. StartRound(t, doing[t], i, job[t]) /\ job[t] \in Jobs
    BY <1>3 DEF Return, Types
  <2> HIDE DEF i
  <2>3. /\ pc' = [pc EXCEPT ![t] = "assign"] /\ pc'[t] = "assign"
        /\ round' = [round EXCEPT ![t] = i] /\ round'[t] = i /\ round' \in [Tasks -> Nat]
        /\ todo' = [todo EXCEPT ![t] = Stores(doing[t].rounds[i])]
        /\ todo'[t] = Stores(doing[t].rounds[i]) /\ todo' \in [Tasks -> SUBSET Keys]
        /\ prefs' \in [PrefKeys -> Values]
        /\ \A k \in doing[t].rounds[i].sets : prefs'[k] = job[t][k]
        /\ \A k \in PrefKeys \ doing[t].rounds[i].sets : prefs'[k] = prefs[k]
        /\ "odometer" \in Keys => prefs'["odometer"] = prefs["odometer"]
    BY <1>1, <2>1, <2>2, Started
  <2>4. Awaits(t)' = Awaits(t)
    BY <1>2, <2>1, <2>3 DEF Awaits
  <2>5. i = round[t] + 1
    BY DEF i
  <2> QED BY <2>1, <2>3, <2>4, <2>5
<1>4. CASE ~(round[t] < Len(doing[t].rounds))
  <2>1. /\ pc' = [pc EXCEPT ![t] = "answer"] /\ todo' = [todo EXCEPT ![t] = {}]
        /\ round' = round /\ prefs' = prefs
    BY <1>4 DEF Return
  <2>2. pc'[t] = "answer" /\ todo'[t] = {}
    BY <2>1 DEF Types
  <2>3. Awaits(t)' = Awaits(t)
    BY <1>2, <2>1, <2>2 DEF Awaits
  <2>4. round[t] = Len(doing[t].rounds)
    BY <1>1, <1>4
  <2> QED BY <2>1, <2>2, <2>3, <2>4 DEF Types
<1> QED BY <1>3, <1>4

\* What a handler is asked for.
LEMMA Wished ==
  ASSUME Types, NEW h \in Active, NEW w \in Wishes(h)
  PROVE  /\ HandlerOK(h) /\ 1 \in 1..Len(h.rounds)
         /\ w \in Jobs /\ DOMAIN w = Asked(h) /\ Asked(h) \subseteq Keys
         /\ \A k \in DOMAIN w : w[k] \in Values
         /\ "odometer" \in DOMAIN w => w["odometer"] = prefs["odometer"]
<1>1. HandlerOK(h)
  BY ActiveHandlers
<1>2. /\ w \in [Asked(h) -> Values]
      /\ \A k \in DOMAIN w : k = "odometer" => w[k] = prefs[k]
  BY DEF Wishes
<1>3. w \in Jobs
  BY <1>1, <1>2 DEF Jobs, HandlerOK
<1> QED BY <1>1, <1>2, <1>3 DEF HandlerOK, ShapeOK

LEMMA StopTypes == ASSUME Types, Stop PROVE Types'
  BY IdleTypes, Settings DEF Types, Stop

LEMMA TypesStep ==
  ASSUME Types, Flow, ConfigNext
  PROVE  Types'
<1>1. CASE PowerOn
  <2>1. Seeded(flash) \in Docs
    BY SeededWhole, Settings DEF Types
  <2> QED BY <1>1, <2>1 DEF PowerOn, Types, Pcs, Tasks
<1>2. CASE Serve
  BY <1>2 DEF Serve, Types, work
<1>3. CASE SetupPrefs
  BY <1>3, Settings DEF SetupPrefs, Reads, Types, Pcs
<1>4. CASE PowerLoss
  BY <1>4, StopTypes DEF PowerLoss
<1>5. CASE Drive
  <2>1. "odometer" \in PrefKeys /\ prefs["odometer"] + 1 \in Values
    <3>1. "odometer" \in PrefKeys
      BY <1>5, Settings DEF Drive
    <3>2. prefs["odometer"] \in 0..MaxValue /\ prefs["odometer"] < MaxValue
      BY <1>5, <3>1 DEF Drive, Types, Values
    <3> QED BY <3>1, <3>2, ConfigAssumption DEF Values
  <2> QED BY <1>5, <2>1 DEF Drive, Types, work
<1>6. CASE ClearRoster
  BY <1>6, Settings DEF ClearRoster, Types, work
<1>7. ASSUME NEW t \in Tasks, Assign(t) PROVE Types'
  <2>1. PICK k \in todo[t] :
          /\ config' = [config EXCEPT ![k] =
               IF k \in doing[t].rounds[round[t]].run THEN prefs[k] ELSE job[t][k]]
          /\ todo' = [todo EXCEPT ![t] = @ \ {k}]
          /\ pc' = [pc EXCEPT ![t] = IF todo[t] = {k} THEN "open" ELSE "assign"]
    BY <1>7 DEF Assign
  <2>2. Carried(t) /\ pc[t] = "assign" /\ pc[t] \in Handling
    BY <1>7 DEF Assign, Flow, Handling, Writing
  <2>3. /\ HandlerOK(doing[t]) /\ round[t] \in 1..Len(doing[t].rounds)
        /\ DOMAIN job[t] = Asked(doing[t])
    BY <2>2, InHandler
  <2>4. IF k \in doing[t].rounds[round[t]].run THEN prefs[k] \in Values
                                              ELSE job[t][k] \in Values
    <3>1. k \in doing[t].rounds[round[t]].run => k \in LocoKeys
      BY <2>3 DEF HandlerOK
    <3>2. k \in Stores(doing[t].rounds[round[t]])
      BY <2>2 DEF Carried
    <3>3. k \notin doing[t].rounds[round[t]].run => k \in DOMAIN job[t]
      BY <2>3, <3>2, AskedStored DEF Stores
    <3> QED BY <3>1, <3>3, JobValue, Settings DEF Types
  <2>5. config' \in Docs
    BY <2>1, <2>4 DEF Types, Docs
  <2> QED BY <1>7, <2>1, <2>5 DEF Assign, Types, Pcs
<1>8. ASSUME NEW t \in Tasks, Open(t) PROVE Types'
  BY <1>8, Settings DEF Open, Types, Pcs
<1>9. ASSUME NEW t \in Tasks, pc[t] \in {"open", "write"}, Return(t), flash' \in Docs,
             disturbed' \in BOOLEAN, UNCHANGED <<stage, config, doing, job, image, held, mixed>>
      PROVE  Types'
  <2>1. Carried(t) /\ doing' = doing
    BY <1>9 DEF Flow
  <2>2. /\ pc' = [pc EXCEPT ![t] = pc'[t]] /\ pc'[t] \in {"assign", "answer"}
        /\ round' \in [Tasks -> Nat] /\ todo' \in [Tasks -> SUBSET Keys]
        /\ prefs' \in [PrefKeys -> Values]
    BY <1>9, <2>1, Returned
  <2> QED BY <1>9, <2>2 DEF Types, Pcs
<1>10. ASSUME NEW t \in Tasks, OpenFails(t) PROVE Types'
  BY <1>9, <1>10 DEF OpenFails, Types
<1>11. ASSUME NEW t \in Tasks, Close(t) PROVE Types'
  BY <1>9, <1>11 DEF Close, Types
<1>12. ASSUME NEW t \in Tasks, Write(t) PROVE Types'
  <2> DEFINE k == First(todo[t])
  <2>1. k \in Keys
    BY <1>12 DEF Write, First, Types
  <2>2. [image[t] EXCEPT ![k] = config[k]] \in Docs
    BY <2>1 DEF Types, Docs
  <2>3. image' = [image EXCEPT ![t] = [image[t] EXCEPT ![k] = config[k]]]
    BY <1>12 DEF Write, Types
  <2> HIDE DEF k
  <2> QED BY <1>12, <2>2, <2>3 DEF Write, Types
<1>13. ASSUME NEW t \in Tasks, Answer(t) PROVE Types'
  <2>1. CASE Stop
    BY <2>1, StopTypes
  <2>2. CASE ~Stop
    <3>1. Leave(t) /\ UNCHANGED <<stage, config, flash, prefs, held, disturbed>>
      BY <1>13, <2>2 DEF Answer
    <3>2. pc' \in [Tasks -> Pcs] /\ todo' \in [Tasks -> SUBSET Keys] /\ mixed' \in BOOLEAN
      BY <1>13, <2>2, Settings DEF Answer, Reads, Types, Pcs
    <3>3. job' \in [Tasks -> Jobs] /\ image' \in [Tasks -> Docs]
      BY <3>1, IdleTypes, Settings DEF Leave, Types
    <3>4. round' \in [Tasks -> Nat] /\ doing' \in [Tasks -> Active \union {Seeding, NoHandler}]
      BY <3>1 DEF Leave, Types
    <3> QED BY <3>1, <3>2, <3>3, <3>4 DEF Types
  <2> QED BY <2>1, <2>2
<1>14. ASSUME NEW t \in Tasks, Fetch(t) PROVE Types'
  <2>1. First(todo[t]) \in Keys
    BY <1>14 DEF Fetch, First, Types
  <2>2. held' \in [Tasks -> Values \union {Missing}]
    BY <1>14, <2>1 DEF Fetch, Types, Docs
  <2> QED BY <1>14, <2>2 DEF Fetch, Types, Pcs
<1>15. ASSUME NEW t \in Tasks, Keep(t) PROVE Types'
  <2>1. held[t] \in Values
    BY <1>15 DEF Keep, Flow, Carried
  <2>2. prefs' \in [PrefKeys -> Values]
    BY <1>15, <2>1 DEF Keep, Types
  <2> QED BY <1>15, <2>2 DEF Keep, Types, Pcs
<1>16. ASSUME NEW t \in Tasks, Done(t) PROVE Types'
  BY <1>16 DEF Done, Types, Pcs
<1>17. ASSUME NEW t \in Tasks, NEW h \in Active, NEW w \in Wishes(h), Begin(t, h, w)
       PROVE Types'
  <2>1. HandlerOK(h) /\ 1 \in 1..Len(h.rounds) /\ w \in Jobs /\ DOMAIN w = Asked(h)
    BY Wished
  <2>2. /\ pc' = [pc EXCEPT ![t] = "assign"] /\ round' \in [Tasks -> Nat]
        /\ todo' \in [Tasks -> SUBSET Keys] /\ prefs' \in [PrefKeys -> Values]
    BY <1>17, <2>1, Started DEF Begin
  <2>3. mixed' \in BOOLEAN /\ disturbed' \in BOOLEAN
    BY <1>17 DEF Begin, Types
  <2> QED BY <1>17, <2>1, <2>2, <2>3 DEF Begin, Types, Pcs
<1> QED BY <1>1, <1>2, <1>3, <1>4, <1>5, <1>6, <1>7, <1>8, <1>10, <1>11, <1>12, <1>13,
      <1>14, <1>15, <1>16, <1>17
    DEF ConfigNext, Work

-----------------------------------------------------------------------------
(* What each task carries.                                                 *)

LEMMA BusyStage ==
  ASSUME Types, Flow, NEW t \in Tasks, pc[t] # "idle"
  PROVE  /\ stage \in {"setup", "serving", "running"}
         /\ config \in Whole
         /\ t = "web" => stage \in {"serving", "running"}
         /\ stage = "setup" => t = "loop" /\ pc[t] \in {"open", "write", "answer"}
         /\ t = "loop" /\ pc[t] \in Handling => stage \in {"setup", "running"}
         /\ pc[t] = "assign" => stage \in {"serving", "running"}
  BY DEF Types, Flow, Staged, Quiet, Tasks, Handling, Writing, Reading

LEMMA CarriedFrame ==
  ASSUME NEW u \in Tasks, pc'[u] = pc[u], doing'[u] = doing[u], round'[u] = round[u],
         todo'[u] = todo[u], job'[u] = job[u], image'[u] = image[u], held'[u] = held[u],
         Carried(u)
  PROVE  Carried(u)'
  BY DEF Carried

LEMMA IdleCarried ==
  ASSUME NEW u \in Tasks, pc'[u] = "idle", doing'[u] = NoHandler, job'[u] = NoJob,
         round'[u] = 0
  PROVE  Carried(u)'
  BY DEF Carried, Handling, Writing, Reading

LEMMA StopFlow == ASSUME Stop PROVE Flow'
<1>1. ASSUME NEW u \in Tasks
      PROVE /\ pc'[u] = "idle" /\ doing'[u] = NoHandler
            /\ job'[u] = NoJob /\ round'[u] = 0
  BY DEF Stop, IdlePc, IdleDoing, IdleJob, IdleRound
<1>2. Staged'
  BY <1>1 DEF Stop, Staged, Quiet
<1>3. \A u \in Tasks : Carried(u)'
  BY <1>1, IdleCarried
<1> QED BY <1>2, <1>3 DEF Flow

\* A task that begins to read carries nothing but what it reads.
LEMMA ReadsCarried ==
  ASSUME Types, NEW t \in Tasks, NEW S, S \subseteq PrefKeys, Reads(t, S),
         doing'[t] = NoHandler, job'[t] = NoJob, round'[t] = 0
  PROVE  Carried(t)' /\ pc'[t] = "fetch" /\ todo'[t] = S
<1>1. pc'[t] = "fetch" /\ todo'[t] = S
  BY DEF Reads, Types
<1> QED BY <1>1 DEF Carried, Handling, Writing, Reading

LEMMA FlowStep ==
  ASSUME Types, Types', Flow, ConfigNext
  PROVE  Flow'
<1> USE DEF Handling, Writing, Reading
<1>1. CASE PowerOn
  <2>1. config' \in Whole
    BY <1>1, SeededWhole DEF PowerOn, Types
  <2>2. \A u \in Tasks : /\ pc[u] = "idle" /\ Carried(u) /\ doing[u] = NoHandler
                         /\ job[u] = NoJob /\ round[u] = 0
    BY <1>1 DEF PowerOn, Flow, Staged, Quiet, Carried
  <2>3. CASE \E k \in Keys : flash[k] = Missing
    <3>1. /\ pc' = [pc EXCEPT !["loop"] = "open"] /\ doing' = [doing EXCEPT !["loop"] = Seeding]
          /\ round' = [round EXCEPT !["loop"] = 1]
      BY <1>1, <2>3 DEF PowerOn
    <3>2. /\ pc'["loop"] = "open" /\ doing'["loop"] = Seeding /\ round'["loop"] = 1
          /\ pc'["web"] = "idle" /\ doing'["web"] = NoHandler /\ round'["web"] = 0
      BY <2>2, <3>1 DEF Types, Tasks
    <3>3. Carried("loop")'
      BY <1>1, <2>2, <3>2, SeedingOK, IdleTypes DEF PowerOn, Carried, Tasks
    <3>4. Carried("web")'
      BY <1>1, <2>2, <3>2, IdleCarried DEF PowerOn, Tasks
    <3>5. Staged'
      BY <1>1, <2>1, <3>2 DEF PowerOn, Staged
    <3> QED BY <3>3, <3>4, <3>5 DEF Flow, Tasks
  <2>4. CASE ~\E k \in Keys : flash[k] = Missing
    <3>1. pc' = pc /\ doing' = doing /\ round' = round
      BY <1>1, <2>4 DEF PowerOn
    <3>2. \A u \in Tasks : Carried(u)'
      BY <1>1, <2>2, <3>1, CarriedFrame DEF PowerOn
    <3>3. Staged'
      BY <1>1, <2>1, <2>2, <3>1 DEF PowerOn, Staged, Tasks
    <3> QED BY <3>2, <3>3 DEF Flow
  <2> QED BY <2>3, <2>4
<1>2. CASE Serve \/ Drive \/ ClearRoster
  <2>1. work' = work /\ config' = config
    BY <1>2 DEF Serve, Drive, ClearRoster
  <2>2. \A u \in Tasks : Carried(u)'
    BY <2>1, CarriedFrame DEF Flow, work
  <2>3. Staged'
    BY <1>2, <2>1 DEF Serve, Drive, ClearRoster, Flow, Staged, Quiet, Tasks, work
  <2> QED BY <2>2, <2>3 DEF Flow
<1>3. CASE SetupPrefs
  <2>1. /\ pc["loop"] = "idle" /\ stage = "serving" /\ Reads("loop", PrefKeys)
        /\ UNCHANGED <<stage, config, doing, job, round, image, held>>
        /\ Carried("loop") /\ "loop" \in Tasks
    BY <1>3 DEF SetupPrefs, Flow, Tasks
  <2>2. Carried("loop")' /\ pc'["loop"] = "fetch"
    BY <2>1, ReadsCarried DEF Carried
  <2>3. Carried("web")'
    <3>1. pc'["web"] = pc["web"] /\ todo'["web"] = todo["web"]
      BY <2>1 DEF Reads, Types, Tasks
    <3> QED BY <2>1, <3>1, CarriedFrame DEF Flow, Tasks
  <2>4. Staged'
    BY <2>1, <2>2 DEF Flow, Staged
  <2> QED BY <2>2, <2>3, <2>4 DEF Flow, Tasks
<1>4. CASE PowerLoss
  BY <1>4, StopFlow DEF PowerLoss
<1>5. ASSUME NEW t \in Tasks, Assign(t) PROVE Flow'
  <2>1. PICK k \in todo[t] :
          /\ config' = [config EXCEPT ![k] =
               IF k \in doing[t].rounds[round[t]].run THEN prefs[k] ELSE job[t][k]]
          /\ todo' = [todo EXCEPT ![t] = @ \ {k}]
          /\ pc' = [pc EXCEPT ![t] = IF todo[t] = {k} THEN "open" ELSE "assign"]
    BY <1>5 DEF Assign
  <2>2. /\ pc[t] = "assign" /\ Carried(t)
        /\ UNCHANGED <<stage, flash, prefs, doing, job, round, image, held, disturbed, mixed>>
    BY <1>5 DEF Assign, Flow
  <2>3. stage \in {"serving", "running"} /\ config \in Whole /\ (t = "loop" => stage = "running")
    BY <2>2, BusyStage
  <2>4. IF k \in doing[t].rounds[round[t]].run THEN prefs[k] \in Values
                                              ELSE job[t][k] \in Values
    <3>1. HandlerOK(doing[t]) /\ round[t] \in 1..Len(doing[t].rounds)
          /\ DOMAIN job[t] = Asked(doing[t])
      BY <2>2, InHandler
    <3>2. k \in Stores(doing[t].rounds[round[t]])
      BY <2>2 DEF Carried
    <3>3. k \notin doing[t].rounds[round[t]].run => k \in DOMAIN job[t]
      BY <3>1, <3>2, AskedStored DEF Stores
    <3>4. k \in doing[t].rounds[round[t]].run => k \in LocoKeys
      BY <3>1 DEF HandlerOK
    <3> QED BY <3>3, <3>4, JobValue, Settings DEF Types
  <2>5. config' \in Whole
    BY <2>1, <2>3, <2>4 DEF Whole
  <2>6. todo'[t] \subseteq todo[t] /\ pc'[t] \in {"open", "assign"}
    BY <2>1, <2>2 DEF Types
  <2>7. Carried(t)'
    BY <2>2, <2>6 DEF Carried
  <2>8. ASSUME NEW u \in Tasks, u # t PROVE Carried(u)' /\ pc'[u] = pc[u]
    <3>1. pc'[u] = pc[u] /\ todo'[u] = todo[u]
      BY <2>1, <2>8 DEF Types
    <3> QED BY <2>2, <3>1, CarriedFrame DEF Flow
  <2>9. Staged'
    BY <2>2, <2>3, <2>5, <2>8 DEF Flow, Staged, Tasks
  <2> QED BY <2>7, <2>8, <2>9 DEF Flow
<1>6. ASSUME NEW t \in Tasks, Open(t) PROVE Flow'
  <2>1. /\ pc[t] = "open" /\ pc' = [pc EXCEPT ![t] = "write"]
        /\ todo' = [todo EXCEPT ![t] = Keys] /\ image' = [image EXCEPT ![t] = Nothing]
        /\ UNCHANGED <<stage, config, prefs, doing, job, round, held, disturbed, mixed>>
    BY <1>6 DEF Open
  <2>2. pc'[t] = "write" /\ todo'[t] = Keys
    BY <2>1 DEF Types
  <2>3. Carried(t)'
    BY <2>1, <2>2 DEF Flow, Carried
  <2>4. ASSUME NEW u \in Tasks, u # t PROVE pc'[u] = pc[u] /\ Carried(u)'
    <3>1. pc'[u] = pc[u] /\ todo'[u] = todo[u] /\ image'[u] = image[u]
      BY <2>1, <2>4 DEF Types
    <3> QED BY <2>1, <3>1, CarriedFrame DEF Flow
  <2>5. Staged'
    BY <2>1, <2>2, <2>4, BusyStage DEF Flow, Staged, Tasks
  <2> QED BY <2>3, <2>4, <2>5 DEF Flow
<1>7. ASSUME NEW t \in Tasks, pc[t] \in {"open", "write"}, Return(t),
             UNCHANGED <<stage, config, doing, job, image, held, mixed>>
      PROVE  Flow'
  <2>1. Carried(t) /\ doing' = doing
    BY <1>7 DEF Flow
  <2>2. /\ pc' = [pc EXCEPT ![t] = pc'[t]] /\ pc'[t] \in {"assign", "answer"}
        /\ round' = [round EXCEPT ![t] = round'[t]]
        /\ todo' = [todo EXCEPT ![t] = todo'[t]]
        /\ pc'[t] = "assign" => /\ round'[t] = round[t] + 1
                                /\ round'[t] \in 1..Len(doing[t].rounds)
                                /\ todo'[t] = Stores(doing[t].rounds[round'[t]])
        /\ pc'[t] = "answer" => round'[t] = round[t] /\ round[t] = Len(doing[t].rounds)
    BY <1>7, <2>1, Returned
  <2>3. Carried(t)'
    BY <1>7, <2>1, <2>2 DEF Carried
  <2>4. ASSUME NEW u \in Tasks, u # t PROVE pc'[u] = pc[u] /\ Carried(u)'
    <3>1. pc'[u] = pc[u] /\ round'[u] = round[u] /\ todo'[u] = todo[u]
      BY <2>2, <2>4 DEF Types
    <3> QED BY <1>7, <3>1, CarriedFrame DEF Flow
  <2>5. stage = "setup" => pc'["loop"] # "assign"
    <3> SUFFICES ASSUME stage = "setup", pc'["loop"] = "assign" PROVE FALSE
      OBVIOUS
    <3>1. t = "loop"
      BY <1>7, BusyStage
    <3>2. doing[t] = Seeding
      <4>1. round[t] \in 1..Len(doing[t].rounds) /\ doing[t] \in {Seeding, NoHandler}
        BY <1>7, <2>1, <3>1 DEF Carried, Flow, Staged
      <4>2. 1..Len(NoHandler.rounds) = {}
        BY LaterNone
      <4> QED BY <4>1, <4>2
    <3>3. round[t] \in 1..1 /\ round[t] + 1 \in 1..1
      BY <1>7, <2>1, <2>2, <3>1, <3>2, SeedingOK DEF Carried
    <3> QED BY <3>3
  <2>6. Staged'
    <3>1. stage \in {"setup", "serving", "running"} /\ (t = "loop" => stage # "serving")
      BY <1>7, BusyStage
    <3> QED BY <1>7, <2>2, <2>4, <2>5, <3>1, BusyStage DEF Flow, Staged, Tasks
  <2> QED BY <2>3, <2>4, <2>6 DEF Flow
<1>8. ASSUME NEW t \in Tasks, OpenFails(t) \/ Close(t) PROVE Flow'
  BY <1>7, <1>8 DEF OpenFails, Close
<1>9. ASSUME NEW t \in Tasks, Write(t) PROVE Flow'
  <2> DEFINE k == First(todo[t])
  <2>1. /\ pc[t] = "write"
        /\ image' = [image EXCEPT ![t] = [image[t] EXCEPT ![k] = config[k]]]
        /\ todo' = [todo EXCEPT ![t] = todo[t] \ {k}]
        /\ UNCHANGED <<stage, config, flash, prefs, pc, doing, job, round, held, disturbed, mixed>>
    BY <1>9 DEF Write, Types
  <2>2. config \in Whole
    BY <2>1, BusyStage
  <2> HIDE DEF k
  <2>3. Carried(t)'
    <3>1. todo'[t] = todo[t] \ {k} /\ image'[t] = [image[t] EXCEPT ![k] = config[k]]
      BY <2>1 DEF Types
    <3>2. \A j \in Keys \ todo'[t] : image'[t][j] \in Values
      BY <2>1, <2>2, <3>1 DEF Flow, Carried, Types, Docs, Whole
    <3> QED BY <2>1, <3>1, <3>2 DEF Flow, Carried
  <2>4. ASSUME NEW u \in Tasks, u # t PROVE Carried(u)'
    <3>1. todo'[u] = todo[u] /\ image'[u] = image[u]
      BY <2>1, <2>4 DEF Types
    <3> QED BY <2>1, <3>1, CarriedFrame DEF Flow
  <2>5. Staged'
    BY <2>1 DEF Flow, Staged, Quiet
  <2> QED BY <2>3, <2>4, <2>5 DEF Flow
<1>10. ASSUME NEW t \in Tasks, Answer(t) PROVE Flow'
  <2>1. CASE Stop
    BY <2>1, StopFlow
  <2>2. CASE ~Stop
    <3>1. /\ pc[t] = "answer" /\ Leave(t)
          /\ UNCHANGED <<stage, config, flash, prefs, held, disturbed>>
          /\ \/ pc' = [pc EXCEPT ![t] = "idle"] /\ todo' = todo
             \/ doing[t].after = "prefs" /\ Reads(t, LocoKeys)
      BY <1>10, <2>2 DEF Answer
    <3>2. doing'[t] = NoHandler /\ job'[t] = NoJob /\ round'[t] = 0
      BY <3>1 DEF Leave, Types
    <3>3. /\ pc' = [pc EXCEPT ![t] = pc'[t]] /\ todo' = [todo EXCEPT ![t] = todo'[t]]
          /\ pc'[t] \in {"idle", "fetch"} /\ Carried(t)'
          /\ pc'[t] = "fetch" => doing[t].after = "prefs"
      BY <3>1, <3>2, ReadsCarried, IdleCarried, Settings DEF Reads, Types
    <3>4. ASSUME NEW u \in Tasks, u # t PROVE pc'[u] = pc[u] /\ Carried(u)'
      <4>1. /\ pc'[u] = pc[u] /\ job'[u] = job[u] /\ doing'[u] = doing[u]
            /\ round'[u] = round[u] /\ image'[u] = image[u] /\ todo'[u] = todo[u]
        BY <3>1, <3>3, <3>4 DEF Leave, Types
      <4> QED BY <3>1, <4>1, CarriedFrame DEF Flow
    <3>5. stage = "setup" => t = "loop" /\ pc'[t] = "idle"
      <4>1. stage = "setup" => t = "loop"
        BY <3>1, BusyStage
      <4>2. stage = "setup" => doing[t].after = "return"
        BY <4>1, SeedingOK, LaterNone DEF Flow, Staged
      <4> QED BY <3>3, <4>1, <4>2
    <3>6. Staged'
      <4>1. stage \in {"setup", "serving", "running"} /\ config \in Whole
            /\ (t = "loop" => stage # "serving")
        BY <3>1, BusyStage
      <4>2. stage = "setup" => pc'["web"] = "idle" /\ pc'["loop"] = "idle"
                               /\ doing'["loop"] = NoHandler
        BY <3>2, <3>4, <3>5 DEF Flow, Staged, Tasks
      <4>3. stage = "serving" => pc'["loop"] = pc["loop"]
        BY <3>4, <4>1 DEF Tasks
      <4> QED BY <3>1, <4>1, <4>2, <4>3 DEF Flow, Staged
    <3> QED BY <3>3, <3>4, <3>6 DEF Flow
  <2> QED BY <2>1, <2>2
<1>11. ASSUME NEW t \in Tasks, pc[t] \in Reading, pc' = [pc EXCEPT ![t] = pc'[t]],
              todo' = [todo EXCEPT ![t] = todo'[t]], held' = [held EXCEPT ![t] = held'[t]],
              todo'[t] \subseteq todo[t], pc'[t] \in {"idle", "fetch", "keep"},
              pc'[t] = "keep" => todo'[t] # {} /\ held'[t] \in Values,
              \/ stage' = stage /\ (t = "loop" => pc'[t] # "idle")
              \/ stage' = stage /\ t = "web"
              \/ stage' = "running" /\ t = "loop" /\ pc'[t] = "idle",
              UNCHANGED <<config, doing, job, round, image>>
       PROVE  Flow'
  <2>1. Carried(t)'
    BY <1>11 DEF Flow, Carried
  <2>2. ASSUME NEW u \in Tasks, u # t PROVE pc'[u] = pc[u] /\ Carried(u)'
    <3>1. pc'[u] = pc[u] /\ todo'[u] = todo[u] /\ held'[u] = held[u]
      BY <1>11, <2>2 DEF Types
    <3> QED BY <1>11, <3>1, CarriedFrame DEF Flow
  <2>3. stage \in {"serving", "running"} /\ config \in Whole
    BY <1>11, BusyStage
  <2>4. Staged'
    BY <1>11, <2>2, <2>3 DEF Flow, Staged, Tasks
  <2> QED BY <2>1, <2>2, <2>4 DEF Flow
<1>12. ASSUME NEW t \in Tasks, Fetch(t) PROVE Flow'
  <2>1. /\ pc[t] = "fetch" /\ todo[t] # {} /\ todo' = todo /\ pc' = [pc EXCEPT ![t] = "keep"]
        /\ held' = [held EXCEPT ![t] = config[First(todo[t])]]
        /\ UNCHANGED <<stage, config, doing, job, round, image>>
    BY <1>12 DEF Fetch
  <2>2. pc'[t] = "keep" /\ held'[t] = config[First(todo[t])]
        /\ pc' = [pc EXCEPT ![t] = pc'[t]] /\ todo' = [todo EXCEPT ![t] = todo'[t]]
        /\ held' = [held EXCEPT ![t] = held'[t]]
    BY <2>1 DEF Types
  <2>3. config[First(todo[t])] \in Values
    BY <2>1, BusyStage DEF First, Types, Whole
  <2> QED BY <1>11, <2>1, <2>2, <2>3
<1>13. ASSUME NEW t \in Tasks, Keep(t) PROVE Flow'
  <2>1. /\ pc[t] = "keep" /\ pc' = [pc EXCEPT ![t] = "fetch"]
        /\ todo' = [todo EXCEPT ![t] = @ \ {First(@)}] /\ held' = [held EXCEPT ![t] = Missing]
        /\ UNCHANGED <<stage, config, doing, job, round, image>>
    BY <1>13 DEF Keep
  <2>2. pc'[t] = "fetch" /\ todo'[t] \subseteq todo[t]
        /\ pc' = [pc EXCEPT ![t] = pc'[t]] /\ todo' = [todo EXCEPT ![t] = todo'[t]]
        /\ held' = [held EXCEPT ![t] = held'[t]]
    BY <2>1 DEF Types
  <2> QED BY <1>11, <2>1, <2>2
<1>14. ASSUME NEW t \in Tasks, Done(t) PROVE Flow'
  <2>1. /\ pc[t] = "fetch" /\ pc' = [pc EXCEPT ![t] = "idle"] /\ todo' = todo /\ held' = held
        /\ stage' = IF t = "loop" THEN "running" ELSE stage
        /\ UNCHANGED <<config, doing, job, round, image>>
    BY <1>14 DEF Done
  <2>2. pc'[t] = "idle" /\ todo'[t] = todo[t]
        /\ pc' = [pc EXCEPT ![t] = pc'[t]] /\ todo' = [todo EXCEPT ![t] = todo'[t]]
        /\ held' = [held EXCEPT ![t] = held'[t]]
    BY <2>1 DEF Types
  <2> QED BY <1>11, <2>1, <2>2
<1>15. ASSUME NEW t \in Tasks, NEW h \in Active, NEW w \in Wishes(h), Begin(t, h, w)
       PROVE Flow'
  <2>1. HandlerOK(h) /\ 1 \in 1..Len(h.rounds) /\ w \in Jobs /\ DOMAIN w = Asked(h)
    BY Wished
  <2>2. /\ h.task = t /\ Serving(t) /\ StartRound(t, h, 1, w)
        /\ job' = [job EXCEPT ![t] = w] /\ doing' = [doing EXCEPT ![t] = h]
        /\ UNCHANGED <<stage, config, flash, image, held>>
    BY <1>15 DEF Begin
  <2>3. /\ pc' = [pc EXCEPT ![t] = "assign"] /\ pc'[t] = "assign"
        /\ round' = [round EXCEPT ![t] = 1] /\ round'[t] = 1
        /\ todo' = [todo EXCEPT ![t] = Stores(h.rounds[1])]
        /\ todo'[t] = Stores(h.rounds[1])
    BY <2>1, <2>2, Started
  <2>4. job'[t] = w /\ doing'[t] = h
    BY <2>2 DEF Types
  <2>5. Carried(t)'
    BY <2>1, <2>2, <2>3, <2>4 DEF Carried
  <2>6. ASSUME NEW u \in Tasks, u # t PROVE pc'[u] = pc[u] /\ Carried(u)'
    <3>1. /\ pc'[u] = pc[u] /\ job'[u] = job[u] /\ doing'[u] = doing[u]
          /\ round'[u] = round[u] /\ todo'[u] = todo[u]
      BY <2>2, <2>3, <2>6 DEF Types
    <3> QED BY <2>2, <3>1, CarriedFrame DEF Flow
  <2>7. Staged'
    BY <2>2, <2>3, <2>6 DEF Serving, Flow, Staged, Tasks
  <2> QED BY <2>5, <2>6, <2>7 DEF Flow
<1> QED BY <1>1, <1>2, <1>3, <1>4, <1>5, <1>6, <1>8, <1>9, <1>10, <1>12, <1>13, <1>14, <1>15
    DEF ConfigNext, Work

-----------------------------------------------------------------------------
(* A handler that nothing disturbs.                                        *)

LEMMA Others == ASSUME NEW t \in Tasks
  PROVE /\ Other(t) \in Tasks /\ Other(t) # t /\ Other(Other(t)) = t
        /\ \A u \in Tasks : u = t \/ u = Other(t)
        /\ t = "loop" => Other(t) = "web"
        /\ t = "web" => Other(t) = "loop"
  BY DEF Other, Tasks

LEMMA SameDocs ==
  ASSUME NEW d \in Docs, NEW e \in Docs, \A k \in Keys : d[k] = e[k]
  PROVE  d = e
  BY DEF Docs

\* A step of an undisturbed handler leaves the other task out of its own.
LEMMA AloneFrame ==
  ASSUME NEW t \in Tasks, pc'[Other(t)] \notin Handling,
         AloneAt(t)', pc'[t] \notin Handling => flash' = config'
  PROVE  Alone'
<1>1. \A u \in Tasks : AloneAt(u)'
  BY Others DEF AloneAt
<1>2. (\A u \in Tasks : pc'[u] \notin Handling) => flash' = config'
  OBVIOUS
<1> QED BY <1>1, <1>2 DEF Alone

\* A step outside the handlers changes at most the copies, and those not
\* while loop() is in a handler.
LEMMA AlonePassive ==
  ASSUME Types, Flow, Alone, ~disturbed, stage # "off",
         \A u \in Tasks : pc[u] \in Handling \/ pc'[u] \in Handling
                            => pc'[u] = pc[u] /\ todo'[u] = todo[u],
         pc["loop"] \in Handling /\ pc["web"] = "idle" => prefs' = prefs /\ pc'["web"] = "idle",
         UNCHANGED <<config, flash, doing, job, round, image>>
  PROVE  Alone'
<1>1. ASSUME NEW u \in Tasks PROVE AloneAt(u)'
  <2> SUFFICES ASSUME pc'[u] \in Handling PROVE AloneAt(u)'
    BY DEF AloneAt
  <2>1. pc[u] \in Handling /\ pc'[u] = pc[u] /\ todo'[u] = todo[u] /\ AloneAt(u) /\ Carried(u)
    BY DEF Alone, Flow
  <2>2. pc'[Other(u)] \notin Handling
    BY <2>1, Others DEF AloneAt
  <2>3. Awaits(u)' = Awaits(u)
    BY <2>1 DEF Awaits
  <2>4. CASE u = "loop"
    <3>1. prefs' = prefs /\ pc'["web"] = "idle"
      BY <2>1, <2>4 DEF AloneAt
    <3> QED BY <2>1, <2>2, <2>3, <2>4, <3>1 DEF AloneAt
  <2>5. CASE u = "web"
    <3>1. HandlerOK(doing[u]) /\ doing[u].task = "web" /\ Len(doing[u].rounds) \in Nat
          /\ round[u] \in 1..Len(doing[u].rounds) /\ DOMAIN job[u] = Asked(doing[u])
      BY <2>1, <2>5, InHandler
    <3>2. \A i \in 1..round[u] : i \in 1..Len(doing[u].rounds)
      BY <3>1
    <3>3. \A i \in 1..round[u] : doing[u].rounds[i].sets = {}
      BY <3>1, <3>2, AskedStored
    <3>4. "odometer" \notin DOMAIN job[u]
      BY <3>1, AskedStored
    <3> QED BY <2>1, <2>2, <2>3, <2>5, <3>3, <3>4 DEF AloneAt
  <2> QED BY <2>4, <2>5 DEF Tasks
<1>2. (\A u \in Tasks : pc'[u] \notin Handling) => flash' = config'
  BY DEF Alone
<1> QED BY <1>1, <1>2 DEF Alone

LEMMA AloneStep ==
  ASSUME Types, Types', Flow, Flow', Alone, ConfigNext
  PROVE  Alone'
<1> SUFFICES ASSUME ~disturbed' PROVE Alone'
  BY DEF Alone
<1> USE DEF Handling, Writing, Reading
<1>0. ASSUME NEW t \in Tasks, pc[t] \in Handling, ~disturbed
      PROVE  pc[Other(t)] \notin Handling /\ AloneAt(t) /\ (t = "loop" => pc["web"] = "idle")
  BY <1>0 DEF Alone, AloneAt
<1>1. CASE PowerOn
  <2>1. Quiet /\ "loop" \in Tasks /\ "web" \in Tasks /\ Other("loop") = "web"
    BY <1>1 DEF PowerOn, Flow, Staged, Tasks, Other
  <2>2. pc["web"] = "idle" /\ pc'["web"] = "idle" /\ pc'["loop"] \in {"idle", "open"}
    BY <1>1, <2>1 DEF PowerOn, Quiet, Types
  <2>3. DOMAIN job["loop"] = {} /\ job' = job
    BY <1>1, <2>1, IdleTypes DEF PowerOn, Quiet, Flow, Carried
  <2>4. AloneAt("loop")'
    <3>1. CASE pc'["loop"] = "open"
      <4>1. doing'["loop"] = Seeding /\ round'["loop"] = 1
        BY <1>1, <2>1, <3>1 DEF PowerOn, Quiet, Types
      <4>2. Seeding.rounds[1].sets = {}
        <5>1. Seeding.rounds = <<Round({}, {}, {})>>
          BY DEF Seeding, Handler, Form
        <5> QED BY <5>1 DEF Round
      <4>3. \A i \in 1..1 : doing'["loop"].rounds[i].sets = {}
        <5>1. \A i \in 1..1 : i = 1
          OBVIOUS
        <5> QED BY <4>1, <4>2, <5>1
      <4> QED BY <2>1, <2>2, <2>3, <3>1, <4>1, <4>3 DEF AloneAt
    <3>2. CASE pc'["loop"] = "idle"
      BY <3>2 DEF AloneAt
    <3> QED BY <2>2, <3>1, <3>2
  <2>5. pc'["loop"] \notin Handling => flash' = config'
    <3>1. (\A k \in Keys : flash[k] # Missing) => Seeded(flash) = flash
      BY SeededWhole DEF Types
    <3>2. (\E k \in Keys : flash[k] = Missing) => pc'["loop"] = "open"
      BY <1>1, <2>1 DEF PowerOn, Types
    <3> QED BY <1>1, <3>1, <3>2 DEF PowerOn
  <2> QED BY <2>1, <2>2, <2>4, <2>5, AloneFrame
<1>2. CASE Serve
  <2>1. /\ work' = work /\ ~disturbed /\ stage # "off"
        /\ UNCHANGED <<config, flash, prefs>>
    BY <1>2 DEF Serve
  <2> QED BY <2>1, AlonePassive DEF work
<1>3. CASE SetupPrefs
  <2>1. /\ pc["loop"] = "idle" /\ ~disturbed /\ stage # "off"
        /\ pc' = [pc EXCEPT !["loop"] = "fetch"] /\ todo' = [todo EXCEPT !["loop"] = PrefKeys]
        /\ UNCHANGED <<config, flash, doing, job, round, image>>
    BY <1>3 DEF SetupPrefs, Reads
  <2>2. \A u \in Tasks : pc[u] \in Handling \/ pc'[u] \in Handling
                           => pc'[u] = pc[u] /\ todo'[u] = todo[u]
    BY <2>1 DEF Types
  <2> QED BY <2>1, <2>2, AlonePassive
<1>4. CASE Stop
  <2>1. \A u \in Tasks : pc'[u] = "idle"
    BY <1>4 DEF Stop, IdlePc
  <2>2. \A u \in Tasks : AloneAt(u)'
    BY <2>1 DEF AloneAt
  <2> QED BY <1>4, <2>2 DEF Stop, Alone
<1>5. CASE Drive \/ ClearRoster
  <2>1. /\ pc["loop"] = "idle" /\ ~disturbed /\ stage # "off"
        /\ UNCHANGED <<config, flash, work>>
    BY <1>5 DEF Drive, ClearRoster
  <2> QED BY <2>1, AlonePassive DEF work
<1>6. ASSUME NEW t \in Tasks, Fetch(t) \/ Keep(t) \/ Done(t) PROVE Alone'
  <2>1. /\ pc[t] \in Reading /\ ~disturbed /\ pc'[t] \in {"idle", "fetch", "keep"}
        /\ UNCHANGED <<config, flash, doing, job, round, image>>
        /\ \A u \in Tasks : u # t => pc'[u] = pc[u] /\ todo'[u] = todo[u]
    BY <1>6 DEF Fetch, Keep, Done, Types
  <2>2. stage # "off"
    BY <2>1, BusyStage
  <2>3. \A u \in Tasks : pc[u] \in Handling \/ pc'[u] \in Handling
                           => pc'[u] = pc[u] /\ todo'[u] = todo[u]
    BY <2>1
  <2>4. ~(pc["loop"] \in Handling /\ pc["web"] = "idle")
    BY <2>1 DEF Tasks
  <2> QED BY <2>1, <2>2, <2>3, <2>4, AlonePassive
<1>7. ASSUME NEW t \in Tasks, Assign(t) PROVE Alone'
  <2>1. PICK k \in todo[t] :
          /\ config' = [config EXCEPT ![k] =
               IF k \in doing[t].rounds[round[t]].run THEN prefs[k] ELSE job[t][k]]
          /\ todo' = [todo EXCEPT ![t] = @ \ {k}]
          /\ pc' = [pc EXCEPT ![t] = IF todo[t] = {k} THEN "open" ELSE "assign"]
    BY <1>7 DEF Assign
  <2>2. pc[t] = "assign" /\ k \in Keys
        /\ UNCHANGED <<stage, flash, prefs, doing, job, round, image, held, disturbed, mixed>>
    BY <1>7 DEF Assign, Types
  <2>3. pc[Other(t)] \notin Handling /\ AloneAt(t) /\ (t = "loop" => pc["web"] = "idle")
        /\ Carried(t)
    BY <1>0, <2>2 DEF Flow
  <2>4. /\ HandlerOK(doing[t]) /\ round[t] \in 1..Len(doing[t].rounds)
        /\ DOMAIN job[t] = Asked(doing[t]) /\ Len(doing[t].rounds) \in Nat /\ round[t] \in Nat
    BY <2>2, <2>3, InHandler
  <2>5. k \in DOMAIN job[t] => config'[k] = job[t][k]
    <3>1. config'[k] = IF k \in doing[t].rounds[round[t]].run THEN prefs[k] ELSE job[t][k]
      BY <2>1, <2>2 DEF Types, Docs
    <3>2. ASSUME k \in doing[t].rounds[round[t]].run, k \in DOMAIN job[t]
          PROVE  prefs[k] = job[t][k]
      <4>1. k = "odometer" \/ \E j \in 1..round[t] : k \in doing[t].rounds[j].sets
        BY <2>4, <3>2 DEF HandlerOK, ShapeOK
      <4> QED BY <2>2, <2>3, <3>2, <4>1 DEF AloneAt
    <3> QED BY <3>1, <3>2
  <2>6. \A j \in Keys : j # k => config'[j] = config[j]
    BY <2>1 DEF Types, Docs
  <2>7. todo'[t] = todo[t] \ {k} /\ pc'[t] \in {"open", "assign"}
        /\ (pc'[t] = "open" => todo[t] = {k}) /\ pc'[Other(t)] = pc[Other(t)]
    BY <2>1, <2>2, Others DEF Types
  <2>8. \A j \in DOMAIN job[t] \ Awaits(t)' : config'[j] = job[t][j]
    <3>1. Awaits(t) \subseteq Awaits(t)' \union {k}
      BY <2>2, <2>7 DEF Awaits
    <3>2. \A j \in DOMAIN job[t] : j \in Keys
      BY JobValue
    <3> QED BY <2>2, <2>3, <2>5, <2>6, <3>1, <3>2 DEF AloneAt
  <2>9. t = "loop" => pc'["web"] = "idle"
    BY <2>3, <2>7, Others
  <2>10. AloneAt(t)'
    BY <2>2, <2>3, <2>7, <2>8, <2>9 DEF AloneAt
  <2> QED BY <2>3, <2>7, <2>10, AloneFrame
<1>8. ASSUME NEW t \in Tasks, Open(t) PROVE Alone'
  <2>1. /\ pc[t] = "open" /\ pc' = [pc EXCEPT ![t] = "write"]
        /\ todo' = [todo EXCEPT ![t] = Keys]
        /\ UNCHANGED <<stage, config, prefs, doing, job, round, disturbed>>
    BY <1>8 DEF Open
  <2>2. pc[Other(t)] \notin Handling /\ AloneAt(t) /\ (t = "loop" => pc["web"] = "idle")
    BY <1>0, <2>1
  <2>3. pc'[t] = "write" /\ todo'[t] = Keys /\ pc'[Other(t)] = pc[Other(t)]
    BY <2>1, Others DEF Types
  <2>4. Awaits(t)' = Awaits(t) /\ (t = "loop" => pc'["web"] = "idle")
    BY <2>1, <2>2, <2>3, Others DEF Awaits
  <2>5. AloneAt(t)'
    BY <2>1, <2>2, <2>3, <2>4 DEF AloneAt
  <2> QED BY <2>2, <2>3, <2>5, AloneFrame
<1>9. ASSUME NEW t \in Tasks, Write(t) PROVE Alone'
  <2> DEFINE k == First(todo[t])
  <2>1. /\ pc[t] = "write" /\ todo[t] # {}
        /\ image' = [image EXCEPT ![t] = [image[t] EXCEPT ![k] = config[k]]]
        /\ todo' = [todo EXCEPT ![t] = todo[t] \ {k}]
        /\ UNCHANGED <<stage, config, flash, prefs, pc, doing, job, round, disturbed>>
    BY <1>9 DEF Write, Types
  <2> HIDE DEF k
  <2>2. pc[Other(t)] \notin Handling /\ AloneAt(t) /\ (t = "loop" => pc["web"] = "idle")
    BY <1>0, <2>1
  <2>3. todo'[t] = todo[t] \ {k} /\ image'[t] = [image[t] EXCEPT ![k] = config[k]]
    BY <2>1 DEF Types
  <2>4. \A j \in Keys \ todo'[t] : image'[t][j] = config[j]
    BY <2>1, <2>2, <2>3 DEF AloneAt, Types, Docs
  <2>5. Awaits(t)' = Awaits(t)
    BY <2>1 DEF Awaits
  <2>6. AloneAt(t)'
    BY <2>1, <2>2, <2>4, <2>5 DEF AloneAt
  <2> QED BY <2>1, <2>2, <2>6, AloneFrame
<1>10. ASSUME NEW t \in Tasks, Close(t) PROVE Alone'
  <2>1. /\ pc[t] = "write" /\ todo[t] = {} /\ flash' = image[t] /\ Return(t) /\ doing' = doing
        /\ UNCHANGED <<stage, config, doing, job, image, held, disturbed, mixed>>
    BY <1>10 DEF Close
  <2>2. /\ pc[Other(t)] \notin Handling /\ AloneAt(t) /\ (t = "loop" => pc["web"] = "idle")
        /\ Carried(t)
    BY <1>0, <2>1 DEF Flow
  <2>3. flash' = config
    <3>1. \A k \in Keys : image[t][k] = config[k]
      BY <2>1, <2>2 DEF AloneAt
    <3> QED BY <2>1, <3>1, SameDocs DEF Types
  <2>4. /\ pc' = [pc EXCEPT ![t] = pc'[t]] /\ pc'[t] \in {"assign", "answer"}
        /\ pc'[t] = "assign" =>
             /\ round'[t] = round[t] + 1 /\ round'[t] \in 1..Len(doing[t].rounds)
             /\ \A k \in doing[t].rounds[round'[t]].sets : prefs'[k] = job[t][k]
             /\ \A k \in PrefKeys \ doing[t].rounds[round'[t]].sets : prefs'[k] = prefs[k]
        /\ pc'[t] = "answer" => round'[t] = round[t] /\ prefs' = prefs
        /\ "odometer" \in Keys => prefs'["odometer"] = prefs["odometer"]
        /\ Awaits(t)' = Awaits(t)
    BY <2>1, <2>2, Returned
  <2>5. pc'[Other(t)] = pc[Other(t)] /\ (t = "loop" => pc'["web"] = "idle")
    BY <2>2, <2>4, Others DEF Types
  <2>6. \A i \in 1..round'[t] : \A k \in doing[t].rounds[i].sets : prefs'[k] = job[t][k]
    <3>1. /\ HandlerOK(doing[t]) /\ round[t] \in 1..Len(doing[t].rounds) /\ round[t] \in Nat
          /\ Len(doing[t].rounds) \in Nat
      BY <2>1, <2>2, InHandler
    <3>2. \A i \in 1..round[t] : \A k \in doing[t].rounds[i].sets :
            k \in PrefKeys /\ prefs[k] = job[t][k]
      <4>1. \A i \in 1..round[t] : i \in 1..Len(doing[t].rounds)
        BY <3>1
      <4> QED BY <2>1, <2>2, <3>1, <4>1, Settings DEF AloneAt, HandlerOK
    <3>3. \A i \in 1..(round[t] + 1) : i \in 1..round[t] \/ i = round[t] + 1
      BY <3>1
    <3>4. CASE pc'[t] = "assign"
      <4>1. \A i \in 1..round'[t] : i \in 1..round[t] \/ i = round'[t]
        BY <2>4, <3>3, <3>4
      <4>2. \A i \in 1..round[t] : \A k \in doing[t].rounds[i].sets : prefs'[k] = job[t][k]
        BY <2>4, <3>2, <3>4
      <4> QED BY <2>4, <3>4, <4>1, <4>2
    <3>5. CASE pc'[t] = "answer"
      BY <2>4, <3>2, <3>5
    <3> QED BY <2>4, <3>4, <3>5
  <2>7. "odometer" \in DOMAIN job[t] => prefs'["odometer"] = job[t]["odometer"]
    BY <2>1, <2>2, <2>4, JobValue DEF AloneAt
  <2>8. \A k \in DOMAIN job[t] \ Awaits(t)' : config[k] = job[t][k]
    BY <2>1, <2>2, <2>4 DEF AloneAt
  <2>9. AloneAt(t)'
    BY <2>1, <2>2, <2>3, <2>4, <2>5, <2>6, <2>7, <2>8 DEF AloneAt
  <2> QED BY <2>1, <2>2, <2>3, <2>5, <2>9, AloneFrame
<1>11. ASSUME NEW t \in Tasks, Answer(t), ~Stop PROVE Alone'
  <2>1. /\ pc[t] = "answer" /\ UNCHANGED <<stage, config, flash, disturbed>>
        /\ pc'[t] \in {"idle", "fetch"} /\ pc'[Other(t)] = pc[Other(t)]
    BY <1>11, Others DEF Answer, Reads, Types
  <2>2. pc[Other(t)] \notin Handling /\ AloneAt(t)
    BY <1>0, <2>1
  <2>3. flash' = config'
    BY <2>1, <2>2 DEF AloneAt
  <2>4. AloneAt(t)'
    BY <2>1 DEF AloneAt
  <2> QED BY <2>1, <2>2, <2>3, <2>4, AloneFrame
<1>12. ASSUME NEW t \in Tasks, NEW h \in Active, NEW w \in Wishes(h), Begin(t, h, w)
       PROVE Alone'
  <2>1. /\ HandlerOK(h) /\ 1 \in 1..Len(h.rounds) /\ w \in Jobs /\ DOMAIN w = Asked(h)
        /\ "odometer" \in DOMAIN w => w["odometer"] = prefs["odometer"]
        /\ Asked(h) \subseteq Keys
    BY Wished
  <2>2. /\ pc[Other(t)] = "idle" /\ StartRound(t, h, 1, w)
        /\ job' = [job EXCEPT ![t] = w] /\ doing' = [doing EXCEPT ![t] = h]
    BY <1>12 DEF Begin
  <2>3. /\ pc' = [pc EXCEPT ![t] = "assign"] /\ pc'[t] = "assign" /\ round'[t] = 1
        /\ todo'[t] = Stores(h.rounds[1])
        /\ \A k \in h.rounds[1].sets : prefs'[k] = w[k]
        /\ "odometer" \in Keys => prefs'["odometer"] = prefs["odometer"]
    BY <2>1, <2>2, Started
  <2>4. job'[t] = w /\ doing'[t] = h /\ pc'[Other(t)] = "idle"
    BY <2>2, <2>3, Others DEF Types
  <2>5. DOMAIN w \subseteq Awaits(t)'
    <3>1. 0 < Len(h.rounds)
      BY <2>1 DEF HandlerOK, ShapeOK
    <3>2. LaterOf(h, 0) = Stores(h.rounds[0 + 1]) \union LaterOf(h, 0 + 1) /\ 0 + 1 = 1
      BY <2>1, <3>1, LaterNext
    <3> QED BY <2>1, <2>3, <2>4, <3>2, AskedStored DEF Awaits
  <2>6. \A i \in 1..1 : i = 1
    OBVIOUS
  <2>7. AloneAt(t)'
    BY <2>1, <2>3, <2>4, <2>5, <2>6, Others DEF AloneAt
  <2> QED BY <2>3, <2>4, <2>7, AloneFrame
<1>13. ASSUME NEW t \in Tasks, OpenFails(t) PROVE Alone'
  BY <1>13 DEF OpenFails
<1> QED BY <1>1, <1>2, <1>3, <1>4, <1>5, <1>6, <1>7, <1>8, <1>9, <1>10, <1>11, <1>12, <1>13
    DEF ConfigNext, Work, PowerLoss

-----------------------------------------------------------------------------
(* The copies of Throttle.                                                 *)

\* A step that leaves the document and the copies alone, and every task that
\* reads or will read where it is.
LEMMA CopiedFrame ==
  ASSUME Copied, Copying, ~mixed,
         \A u \in Tasks : pc'[u] \in Reading => pc'[Other(u)] = "idle" /\ pc[u] \in Reading,
         \A u \in Tasks : pc'[u] = "keep" => held'[u] = config[First(todo'[u])],
         \A k \in LocoKeys : BeingRead(k) => BeingRead(k)',
         \A k \in LocoKeys : ReadBack(k) => ReadBack(k)',
         Awaits("loop") \subseteq Awaits("loop")',
         config' = config, prefs' = prefs
  PROVE  Copied'
<1>1. \A k \in LocoKeys : Settled(k) => Settled(k)'
  BY DEF Settled
<1>2. "odometer" \in Keys => config'["odometer"] <= prefs'["odometer"] \/ BeingRead("odometer")'
  BY Settings DEF Copied
<1>3. \A k \in LocoKeys \ {"odometer"} :
         Settled(k)' \/ k \in Awaits("loop")' \/ ReadBack(k)' \/ BeingRead(k)'
  BY <1>1 DEF Copied
<1> QED BY <1>2, <1>3 DEF Copied

\* While the task in a handler is not disturbed by readings: it stores its
\* own copies, or what is read back.
LEMMA CopiedStep ==
  ASSUME Types, Types', Flow, Flow', Copied, ConfigNext
  PROVE  Copied'
<1> SUFFICES ASSUME Copying', ~mixed' PROVE Copied'
  BY DEF Copied
<1> USE DEF Handling, Writing, Reading
<1>0. /\ "loop" \in Tasks /\ "web" \in Tasks /\ stage' \in {"serving", "running"}
      /\ prefs \in [PrefKeys -> Values] /\ prefs' \in [PrefKeys -> Values]
      /\ config \in Docs /\ LocoKeys \subseteq PrefKeys /\ LocoKeys \subseteq Keys
  BY Settings DEF Tasks, Copying, Types
\* Another task's readings do not overlap a handler.
<1>00. ASSUME NEW t \in Tasks, pc[t] \in Handling, Copying, ~mixed
       PROVE  \A u \in Tasks : pc[u] \notin Reading
  <2>1. ASSUME NEW u \in Tasks, pc[u] \in Reading PROVE FALSE
    <3>1. pc[Other(u)] = "idle"
      BY <1>00, <2>1 DEF Copied
    <3>2. t = u \/ t = Other(u)
      BY Others
    <3> QED BY <1>00, <2>1, <3>1, <3>2
  <2> QED BY <2>1
<1>1. CASE PowerOn \/ Stop
  BY <1>1 DEF PowerOn, Stop, Copying
<1>2. CASE Serve
  BY <1>2 DEF Serve, Quiet, Copying, work, Tasks
<1>3. ASSUME NEW t \in Tasks, NEW S, LocoKeys \subseteq S, Reads(t, S),
             pc[Other(t)] = "idle"
      PROVE  Copied'
  <2>1. pc'[t] = "fetch" /\ todo'[t] = S /\ pc'[Other(t)] = "idle"
    BY <1>3, Others DEF Reads, Types
  <2>2. \A k \in LocoKeys : BeingRead(k)'
    BY <1>3, <2>1 DEF BeingRead
  <2>3. \A u \in Tasks : pc'[u] # "keep" /\ (pc'[u] \in Reading => pc'[Other(u)] = "idle")
    BY <2>1, Others
  <2> QED BY <2>2, <2>3, Settings DEF Copied
<1>4. CASE SetupPrefs
  <2>1. Reads("loop", PrefKeys) /\ pc["web"] = "idle"
    BY <1>4 DEF SetupPrefs, Reads, Other
  <2> QED BY <1>0, <1>3, <2>1, Others
<1>5. CASE Drive \/ ClearRoster
  <2>1. /\ stage = "running" /\ Copying /\ ~mixed /\ pc["loop"] = "idle"
        /\ UNCHANGED <<config, work, stage>>
    BY <1>5 DEF Drive, ClearRoster, Copying
  <2>2. \A k \in LocoKeys \ {"odometer"} : Settled(k) => Settled(k)'
    <3>1. CASE Drive
      <4>1. \A k \in PrefKeys : k # "odometer" => prefs'[k] = prefs[k]
        BY <1>0, <3>1 DEF Drive
      <4> QED BY <1>0, <2>1, <4>1 DEF Settled
    <3>2. CASE ClearRoster
      <4>1. prefs' = [prefs EXCEPT !["consist"] = 0] /\ "consist" \in PrefKeys
        BY <3>2, <1>0, Settings DEF ClearRoster
      <4>2. \A k \in PrefKeys : k # "consist" => prefs'[k] = prefs[k]
        BY <1>0, <4>1
      <4>3. prefs'["consist"] = 0
        BY <1>0, <4>1
      <4> QED BY <1>0, <2>1, <4>2, <4>3 DEF Settled
    <3> QED BY <1>5, <3>1, <3>2
  <2>3. "odometer" \in Keys /\ config["odometer"] <= prefs["odometer"]
          => config["odometer"] <= prefs'["odometer"]
    <3> SUFFICES ASSUME "odometer" \in Keys, config["odometer"] <= prefs["odometer"]
                 PROVE  config["odometer"] <= prefs'["odometer"]
      OBVIOUS
    <3>1. prefs'["odometer"] \in {prefs["odometer"], prefs["odometer"] + 1}
      BY <1>0, <1>5, Settings DEF Drive, ClearRoster
    <3>2. prefs["odometer"] \in Int /\ config["odometer"] \in Int
      <4>1. prefs["odometer"] \in Values /\ config["odometer"] \in Values
        BY <1>0, <2>1, Settings DEF Flow, Staged, Whole
      <4> QED BY <4>1, IntValue
    <3> QED BY <3>1, <3>2
  <2>4. Awaits("loop")' = Awaits("loop")
    BY <2>1 DEF Awaits, work
  <2>5. /\ \A k : ReadBack(k)' = ReadBack(k)
        /\ \A k : BeingRead(k)' = BeingRead(k)
    BY <2>1 DEF ReadBack, BeingRead, work
  <2>6. \A k \in LocoKeys \ {"odometer"} :
          Settled(k)' \/ k \in Awaits("loop")' \/ ReadBack(k)' \/ BeingRead(k)'
    BY <2>1, <2>2, <2>4, <2>5 DEF Copied
  <2>7. "odometer" \in Keys => config'["odometer"] <= prefs'["odometer"] \/ BeingRead("odometer")'
    BY <2>1, <2>3, <2>5 DEF Copied
  <2>8. /\ \A t \in Tasks : pc'[t] \in Reading => pc'[Other(t)] = "idle"
        /\ \A t \in Tasks : pc'[t] = "keep" => held'[t] = config'[First(todo'[t])]
    BY <2>1 DEF Copied, work
  <2> QED BY <2>6, <2>7, <2>8 DEF Copied
<1>6. ASSUME NEW t \in Tasks, Assign(t) PROVE Copied'
  <2>1. PICK k \in todo[t] :
          /\ config' = [config EXCEPT ![k] =
               IF k \in doing[t].rounds[round[t]].run THEN prefs[k] ELSE job[t][k]]
          /\ todo' = [todo EXCEPT ![t] = @ \ {k}]
          /\ pc' = [pc EXCEPT ![t] = IF todo[t] = {k} THEN "open" ELSE "assign"]
    BY <1>6 DEF Assign
  <2>2. pc[t] = "assign" /\ k \in Keys /\ Carried(t)
        /\ UNCHANGED <<stage, flash, prefs, doing, job, round, image, held, disturbed, mixed>>
    BY <1>6 DEF Assign, Types, Flow
  <2>3. /\ HandlerOK(doing[t]) /\ round[t] \in 1..Len(doing[t].rounds)
        /\ DOMAIN job[t] = Asked(doing[t]) /\ doing[t].task = t
    BY <2>2, InHandler
  <2>4. \A u \in Tasks : u # t => pc'[u] = pc[u] /\ todo'[u] = todo[u]
    BY <2>1 DEF Types
  <2>5. todo'[t] = todo[t] \ {k} /\ pc'[t] \in {"open", "assign"}
        /\ (pc'[t] = "assign" \/ todo[t] = {k})
    BY <2>1, <2>2 DEF Types
  <2>6. Copying /\ ~mixed
    <3>1. t = "loop" => stage = "running"
      BY <2>2, BusyStage
    <3>2. t # "loop" => pc'["loop"] = pc["loop"]
      BY <1>0, <2>4
    <3> QED BY <2>2, <3>1, <3>2 DEF Copying
  <2>7. \A u \in Tasks : pc[u] \notin Reading /\ pc'[u] \notin Reading
    BY <1>00, <2>2, <2>4, <2>5, <2>6
  <2>8. k \in Stores(doing[t].rounds[round[t]])
    BY <2>2 DEF Carried
  <2>9. k \in doing[t].rounds[round[t]].run => t = "loop" /\ config'[k] = prefs[k]
    <3>1. k \in doing[t].rounds[round[t]].run => t = "loop"
      BY <2>3, AskedStored DEF Tasks
    <3> QED BY <1>0, <2>1, <2>2, <3>1 DEF Docs
  <2>10. k \notin doing[t].rounds[round[t]].run =>
           /\ k \in doing[t].rounds[round[t]].given /\ k \in DOMAIN job[t]
           /\ k \in LocoKeys => doing[t].after = "prefs"
           /\ k # "odometer"
    BY <2>3, <2>8, AskedStored DEF Stores
  <2>11. \A j \in Keys : j # k => config'[j] = config[j]
    BY <1>0, <2>1 DEF Docs
  <2>12. \A j : ReadBack(j) => ReadBack(j)'
    <3>1. \A u \in Tasks : pc[u] \in Handling => pc'[u] \in Handling
      BY <2>4, <2>5
    <3> QED BY <2>2, <3>1 DEF ReadBack
  <2>13. \A j : j # k /\ j \in Awaits("loop") => j \in Awaits("loop")'
    <3>1. CASE t = "loop"
      BY <2>2, <2>5, <3>1 DEF Awaits
    <3>2. CASE t # "loop"
      BY <1>0, <2>2, <2>4, <3>2 DEF Awaits
    <3> QED BY <3>1, <3>2
  <2>14. \A j \in LocoKeys \ {"odometer"} :
           Settled(j)' \/ j \in Awaits("loop")' \/ ReadBack(j)' \/ BeingRead(j)'
    <3> SUFFICES ASSUME NEW j \in LocoKeys \ {"odometer"}
                 PROVE  Settled(j)' \/ j \in Awaits("loop")' \/ ReadBack(j)'
      OBVIOUS
    <3>1. CASE j # k
      <4>1. Settled(j) \/ j \in Awaits("loop") \/ ReadBack(j)
        BY <2>6, <2>7 DEF Copied, BeingRead
      <4>2. Settled(j) => Settled(j)'
        BY <1>0, <2>2, <2>11, <3>1 DEF Settled
      <4> QED BY <2>12, <2>13, <3>1, <4>1, <4>2
    <3>2. CASE j = k
      <4>1. CASE k \in doing[t].rounds[round[t]].run
        BY <2>2, <2>9, <3>2, <4>1 DEF Settled
      <4>2. CASE k \notin doing[t].rounds[round[t]].run
        BY <2>2, <2>10, <2>12, <3>2, <4>2 DEF ReadBack
      <4> QED BY <4>1, <4>2
    <3> QED BY <3>1, <3>2
  <2>15. "odometer" \in Keys => config'["odometer"] <= prefs'["odometer"]
    <3> SUFFICES ASSUME "odometer" \in Keys PROVE config'["odometer"] <= prefs'["odometer"]
      OBVIOUS
    <3>1. CASE k = "odometer"
      <4>1. prefs["odometer"] <= prefs["odometer"]
        BY <1>0, Settings, IntValue
      <4> QED BY <2>2, <2>9, <2>10, <3>1, <4>1
    <3>2. CASE k # "odometer"
      BY <2>2, <2>6, <2>7, <2>11, <3>2 DEF Copied, BeingRead
    <3> QED BY <3>1, <3>2
  <2> QED BY <2>7, <2>14, <2>15 DEF Copied
<1>7. ASSUME NEW t \in Tasks, Open(t) \/ Write(t) PROVE Copied'
  <2>1. /\ pc[t] \in {"open", "write"} /\ pc'[t] = "write"
        /\ \A u \in Tasks : u # t => pc'[u] = pc[u] /\ todo'[u] = todo[u]
        /\ UNCHANGED <<stage, config, prefs, doing, job, round, held, mixed>>
    BY <1>7 DEF Open, Write, Types
  <2>2. Copying /\ ~mixed
    <3>1. t = "loop" => stage \in {"setup", "running"}
      BY <2>1, BusyStage
    <3> QED BY <1>0, <2>1, <3>1 DEF Copying
  <2>3. \A u \in Tasks : pc[u] \notin Reading /\ pc'[u] \notin Reading
    BY <1>00, <2>1, <2>2
  <2>4. Awaits("loop")' = Awaits("loop")
    BY <1>0, <2>1 DEF Awaits
  <2>5. \A k : ReadBack(k) => ReadBack(k)'
    BY <2>1 DEF ReadBack
  <2>6. \A k : ~BeingRead(k)
    BY <2>3 DEF BeingRead
  <2> QED BY <2>1, <2>2, <2>3, <2>4, <2>5, <2>6, CopiedFrame
<1>8. ASSUME NEW t \in Tasks, pc[t] \in {"open", "write"}, Return(t),
             UNCHANGED <<stage, config, doing, job, held, mixed>>
      PROVE  Copied'
  <2>0. Carried(t) /\ doing' = doing
    BY <1>8 DEF Flow
  <2>1. /\ pc' = [pc EXCEPT ![t] = pc'[t]] /\ pc'[t] \in {"assign", "answer"}
        /\ round' = [round EXCEPT ![t] = round'[t]]
        /\ todo' = [todo EXCEPT ![t] = todo'[t]]
        /\ pc'[t] = "assign" =>
             /\ round'[t] \in 1..Len(doing[t].rounds)
             /\ todo'[t] = Stores(doing[t].rounds[round'[t]])
             /\ \A k \in PrefKeys \ doing[t].rounds[round'[t]].sets : prefs'[k] = prefs[k]
        /\ pc'[t] = "answer" => prefs' = prefs
        /\ "odometer" \in Keys => prefs'["odometer"] = prefs["odometer"]
        /\ Awaits(t)' = Awaits(t)
    BY <1>8, <2>0, Returned
  <2>2. \A u \in Tasks : u # t => pc'[u] = pc[u] /\ todo'[u] = todo[u] /\ round'[u] = round[u]
    BY <2>1 DEF Types
  <2>3. Copying /\ ~mixed
    <3>1. t = "loop" => stage \in {"setup", "running"}
      BY <1>8, BusyStage
    <3> QED BY <1>0, <1>8, <2>2, <3>1 DEF Copying
  <2>4. \A u \in Tasks : pc[u] \notin Reading /\ pc'[u] \notin Reading
    BY <1>00, <1>8, <2>1, <2>2, <2>3
  <2>5. Awaits("loop")' = Awaits("loop")
    <3>1. t # "loop" => Awaits("loop")' = Awaits("loop")
      BY <1>0, <1>8, <2>2 DEF Awaits
    <3> QED BY <2>1, <3>1
  <2>6. \A k : ReadBack(k) => ReadBack(k)'
    BY <1>8, <2>1, <2>2 DEF ReadBack
  <2>7. \A k \in LocoKeys : prefs'[k] = prefs[k] \/ k \in Awaits("loop")'
    <3>1. CASE pc'[t] = "answer"
      BY <2>1, <3>1
    <3>2. CASE pc'[t] = "assign"
      <4>1. /\ HandlerOK(doing[t]) /\ doing[t].task = t
            /\ round'[t] \in 1..Len(doing[t].rounds)
        BY <1>8, <2>0, <2>1, <3>2, InHandler
      <4>2. t = "web" => doing[t].rounds[round'[t]].sets = {}
        BY <4>1, AskedStored
      <4>3. t = "loop" => doing[t].rounds[round'[t]].sets \subseteq Awaits("loop")'
        <5>1. doing[t].rounds[round'[t]].sets
                \subseteq Stores(doing[t].rounds[round'[t]]) \union LaterOf(doing[t], round'[t])
          BY <4>1, AskedStored
        <5>2. t = "loop" => Awaits("loop")' = LaterOf(doing[t], round'[t]) \union todo'[t]
          BY <1>8, <3>2 DEF Awaits
        <5> QED BY <2>1, <3>2, <5>1, <5>2
      <4> QED BY <1>0, <2>1, <3>2, <4>2, <4>3 DEF Tasks
    <3> QED BY <2>1, <3>1, <3>2
  <2>8. \A k \in LocoKeys \ {"odometer"} :
          Settled(k)' \/ k \in Awaits("loop")' \/ ReadBack(k)' \/ BeingRead(k)'
    <3>1. \A k \in LocoKeys \ {"odometer"} : Settled(k) \/ k \in Awaits("loop") \/ ReadBack(k)
      BY <2>3, <2>4 DEF Copied, BeingRead
    <3>2. \A k \in LocoKeys : Settled(k) /\ prefs'[k] = prefs[k] => Settled(k)'
      BY <1>8 DEF Settled
    <3> QED BY <2>5, <2>6, <2>7, <3>1, <3>2
  <2>9. "odometer" \in Keys => config'["odometer"] <= prefs'["odometer"]
    BY <1>8, <2>1, <2>3, <2>4 DEF Copied, BeingRead
  <2> QED BY <2>4, <2>8, <2>9 DEF Copied
<1>9. ASSUME NEW t \in Tasks, OpenFails(t) \/ Close(t) PROVE Copied'
  BY <1>8, <1>9 DEF OpenFails, Close
<1>10. ASSUME NEW t \in Tasks, Answer(t), ~Stop PROVE Copied'
  <2>1. pc[t] = "answer" /\ Leave(t) /\ UNCHANGED <<stage, config, flash, prefs, held, disturbed>>
    BY <1>10 DEF Answer
  <2>2. CASE doing[t].after = "prefs"
    <3>1. Reads(t, LocoKeys)
      BY <1>10, <2>2 DEF Answer
    <3>2. pc[Other(t)] = "idle"
      BY <3>1 DEF Reads
    <3> QED BY <1>3, <3>1, <3>2
  <2>3. CASE doing[t].after # "prefs"
    <3>1. pc' = [pc EXCEPT ![t] = "idle"] /\ todo' = todo /\ mixed' = mixed
      BY <1>10, <2>3 DEF Answer
    <3>2. pc'[t] = "idle"
          /\ \A u \in Tasks : u # t => /\ pc'[u] = pc[u] /\ job'[u] = job[u]
                                       /\ doing'[u] = doing[u] /\ round'[u] = round[u]
      BY <2>1, <3>1 DEF Leave, Types
    <3>3. Copying /\ ~mixed
      <4>1. t = "loop" => stage \in {"setup", "running"}
        BY <2>1, BusyStage
      <4> QED BY <1>0, <2>1, <3>1, <3>2, <4>1 DEF Copying
    <3>4. \A u \in Tasks : pc[u] \notin Reading /\ pc'[u] \notin Reading
      BY <1>00, <2>1, <3>2, <3>3
    <3>5. \A k : ~BeingRead(k)
      BY <3>4 DEF BeingRead
    <3>6. \A k : ReadBack(k) => ReadBack(k)'
      BY <2>3, <3>2 DEF ReadBack
    <3>7. Awaits("loop") \subseteq Awaits("loop")'
      <4>1. CASE t # "loop"
        BY <1>0, <3>1, <3>2, <4>1 DEF Awaits
      <4>2. CASE t = "loop"
        <5>1. Carried(t) /\ HandlerOK(doing[t]) /\ round[t] \in Nat
              /\ round[t] = Len(doing[t].rounds)
          BY <2>1, InHandler DEF Flow, Carried
        <5>2. LaterOf(doing[t], round[t]) = {}
          BY <5>1, LaterEnd
        <5> QED BY <2>1, <4>2, <5>2 DEF Awaits
      <4> QED BY <4>1, <4>2
    <3> QED BY <2>1, <3>3, <3>4, <3>5, <3>6, <3>7, CopiedFrame
  <2> QED BY <2>2, <2>3
<1>11. ASSUME NEW t \in Tasks, Fetch(t) \/ Keep(t) \/ Done(t) PROVE Copying /\ ~mixed
  <2>1. /\ mixed' = mixed /\ pc[t] \in Reading /\ (t = "web" => stage' = stage)
        /\ t = "web" => pc'["loop"] = pc["loop"]
    BY <1>11 DEF Fetch, Keep, Done, Types, Tasks
  <2>2. stage \in {"serving", "running"}
    BY <2>1, BusyStage
  <2> QED BY <2>1, <2>2 DEF Copying, Tasks
<1>12. ASSUME NEW t \in Tasks, Fetch(t) PROVE Copied'
  <2>1. /\ pc[t] = "fetch" /\ pc'[t] = "keep" /\ held'[t] = config[First(todo[t])]
        /\ todo' = todo
        /\ \A u \in Tasks : u # t => pc'[u] = pc[u] /\ held'[u] = held[u]
        /\ UNCHANGED <<stage, config, prefs, doing, job, round, mixed>>
    BY <1>12 DEF Fetch, Types
  <2>2. Copying /\ ~mixed /\ pc[Other(t)] = "idle" /\ pc'[Other(t)] = "idle"
    <3>1. Copying /\ ~mixed
      BY <1>11, <1>12
    <3> QED BY <2>1, <3>1, Others DEF Copied
  <2>3. \A u \in Tasks : pc'[u] \in Reading => u = t
    BY <2>2, Others
  <2>4. \A k : BeingRead(k) => BeingRead(k)'
    BY <2>1 DEF BeingRead
  <2>5. \A k : ~ReadBack(k)
    BY <2>1, <2>2, Others DEF ReadBack
  <2>6. Awaits("loop") \subseteq Awaits("loop")'
    BY <1>0, <2>1, <2>2, Others DEF Awaits
  <2> QED BY <2>1, <2>2, <2>3, <2>4, <2>5, <2>6, CopiedFrame
<1>13. ASSUME NEW t \in Tasks, Done(t) PROVE Copied'
  <2>1. /\ pc[t] = "fetch" /\ pc'[t] = "idle" /\ todo[t] = {} /\ todo' = todo /\ held' = held
        /\ \A u \in Tasks : u # t => pc'[u] = pc[u]
        /\ UNCHANGED <<config, prefs, doing, job, round, mixed>>
    BY <1>13 DEF Done, Types
  <2>2. Copying /\ ~mixed /\ pc[Other(t)] = "idle" /\ pc'[Other(t)] = "idle"
    <3>1. Copying /\ ~mixed
      BY <1>11, <1>13
    <3> QED BY <2>1, <3>1, Others DEF Copied
  <2>3. \A u \in Tasks : pc'[u] = "idle"
    BY <2>1, <2>2, Others
  <2>4. \A k : ~BeingRead(k) /\ ~ReadBack(k)
    BY <2>1, <2>2, Others DEF BeingRead, ReadBack
  <2>5. Awaits("loop") \subseteq Awaits("loop")'
    BY <1>0, <2>1, <2>2, Others DEF Awaits
  <2> QED BY <2>1, <2>2, <2>3, <2>4, <2>5, CopiedFrame
<1>14. ASSUME NEW t \in Tasks, Keep(t) PROVE Copied'
  <2>0. PICK k : k = First(todo[t])
    OBVIOUS
  <2>1. /\ pc[t] = "keep" /\ pc'[t] = "fetch" /\ prefs' = [prefs EXCEPT ![k] = held[t]]
        /\ todo'[t] = todo[t] \ {k}
        /\ \A u \in Tasks : u # t => pc'[u] = pc[u] /\ todo'[u] = todo[u]
        /\ UNCHANGED <<stage, config, doing, job, round, mixed>>
    BY <1>14, <2>0 DEF Keep, Types
  <2>2. Copying /\ ~mixed /\ pc[Other(t)] = "idle" /\ pc'[Other(t)] = "idle"
        /\ held[t] = config[k]
    <3>1. Copying /\ ~mixed
      BY <1>11, <1>14
    <3> QED BY <2>0, <2>1, <3>1, Others DEF Copied
  <2>3. k \in PrefKeys /\ held[t] \in Values
    <3>1. todo[t] # {} /\ todo[t] \subseteq PrefKeys /\ held[t] \in Values
      BY <2>1 DEF Flow, Carried
    <3> QED BY <2>0, <3>1 DEF First
  <2>4. prefs'[k] = config'[k] /\ \A j \in PrefKeys : j # k => prefs'[j] = prefs[j]
    BY <1>0, <2>1, <2>2, <2>3
  <2>5. \A j : j # k /\ BeingRead(j) => BeingRead(j)'
    BY <2>1 DEF BeingRead
  <2>6. \A j : ~ReadBack(j)
    BY <2>1, <2>2, Others DEF ReadBack
  <2>7. Awaits("loop") \subseteq Awaits("loop")'
    BY <1>0, <2>1, <2>2, Others DEF Awaits
  <2>8. \A j \in LocoKeys \ {"odometer"} :
          Settled(j)' \/ j \in Awaits("loop")' \/ ReadBack(j)' \/ BeingRead(j)'
    <3>1. \A j \in LocoKeys \ {"odometer"} : Settled(j) \/ j \in Awaits("loop") \/ BeingRead(j)
      BY <2>2, <2>6 DEF Copied
    <3>2. \A j \in LocoKeys : j # k /\ Settled(j) => Settled(j)'
      BY <1>0, <2>1, <2>4 DEF Settled
    <3>3. Settled(k)'
      BY <2>4 DEF Settled
    <3> QED BY <2>5, <2>7, <3>1, <3>2, <3>3
  <2>9. "odometer" \in Keys => config'["odometer"] <= prefs'["odometer"] \/ BeingRead("odometer")'
    <3>1. CASE k = "odometer"
      <4>1. prefs'["odometer"] = held[t] /\ config'["odometer"] = held[t]
        BY <2>1, <2>2, <2>3, <2>4, <3>1
      <4> QED BY <2>3, <4>1, IntValue
    <3>2. CASE k # "odometer"
      <4>1. "odometer" \in Keys => prefs'["odometer"] = prefs["odometer"]
        BY <1>0, <2>4, <3>2, Settings
      <4> QED BY <2>1, <2>2, <2>5, <3>2, <4>1 DEF Copied
    <3> QED BY <3>1, <3>2
  <2>10. \A u \in Tasks : pc'[u] # "keep" /\ (pc'[u] \in Reading => pc'[Other(u)] = "idle")
    BY <2>1, <2>2, Others
  <2> QED BY <2>8, <2>9, <2>10 DEF Copied
<1>15. ASSUME NEW t \in Tasks, NEW h \in Active, NEW w \in Wishes(h), Begin(t, h, w)
       PROVE Copied'
  <2>1. HandlerOK(h) /\ 1 \in 1..Len(h.rounds) /\ w \in Jobs /\ DOMAIN w = Asked(h)
    BY Wished
  <2>2. /\ pc[t] = "idle" /\ StartRound(t, h, 1, w) /\ h.task = t
        /\ job' = [job EXCEPT ![t] = w] /\ doing' = [doing EXCEPT ![t] = h]
        /\ ~mixed /\ pc[Other(t)] \notin Reading
        /\ UNCHANGED <<stage, config, flash, image, held>>
    BY <1>15 DEF Begin
  <2>3. /\ pc' = [pc EXCEPT ![t] = "assign"] /\ pc'[t] = "assign"
        /\ round' = [round EXCEPT ![t] = 1] /\ round'[t] = 1
        /\ todo' = [todo EXCEPT ![t] = Stores(h.rounds[1])]
        /\ todo'[t] = Stores(h.rounds[1])
        /\ \A k \in PrefKeys \ h.rounds[1].sets : prefs'[k] = prefs[k]
        /\ "odometer" \in Keys => prefs'["odometer"] = prefs["odometer"]
    BY <2>1, <2>2, Started
  <2>4. \A u \in Tasks : u # t => /\ pc'[u] = pc[u] /\ job'[u] = job[u] /\ doing'[u] = doing[u]
                                  /\ round'[u] = round[u] /\ todo'[u] = todo[u]
    BY <2>2, <2>3 DEF Types
  <2>5. doing'[t] = h
    BY <2>2 DEF Types
  <2>6. \A u \in Tasks : pc[u] \notin Reading /\ pc'[u] \notin Reading
    <3>1. pc'[Other(t)] = pc[Other(t)]
      BY <2>4, Others
    <3> QED BY <2>2, <2>3, <3>1, Others
  <2>7. Copying
    BY <1>0, <2>2, <2>6 DEF Copying
  <2>8. \A k : ReadBack(k) => ReadBack(k)'
    BY <2>2, <2>4 DEF ReadBack
  <2>9. Awaits("loop") \subseteq Awaits("loop")'
    <3>1. CASE t = "loop"
      <4>1. Carried(t) /\ doing[t] = NoHandler /\ round[t] = 0
        BY <2>2 DEF Flow, Carried
      <4> QED BY <2>2, <3>1, <4>1, LaterNone DEF Awaits
    <3>2. CASE t # "loop"
      BY <1>0, <2>4, <3>2 DEF Awaits
    <3> QED BY <3>1, <3>2
  <2>10. \A k \in LocoKeys : prefs'[k] = prefs[k] \/ k \in Awaits("loop")'
    <3>1. t = "web" => h.rounds[1].sets = {}
      BY <2>1, <2>2, AskedStored
    <3>2. t = "loop" => h.rounds[1].sets \subseteq Awaits("loop")'
      <4>1. h.rounds[1].sets \subseteq Stores(h.rounds[1]) \union LaterOf(h, 1)
        BY <2>1, AskedStored
      <4>2. t = "loop" => Awaits("loop")' = LaterOf(h, 1) \union Stores(h.rounds[1])
        BY <2>3, <2>5 DEF Awaits
      <4> QED BY <4>1, <4>2
    <3> QED BY <1>0, <2>3, <3>1, <3>2 DEF Tasks
  <2>11. \A k \in LocoKeys \ {"odometer"} :
          Settled(k)' \/ k \in Awaits("loop")' \/ ReadBack(k)' \/ BeingRead(k)'
    <3>1. \A k \in LocoKeys \ {"odometer"} : Settled(k) \/ k \in Awaits("loop") \/ ReadBack(k)
      BY <2>2, <2>6, <2>7 DEF Copied, BeingRead
    <3>2. \A k \in LocoKeys : Settled(k) /\ prefs'[k] = prefs[k] => Settled(k)'
      BY <2>2 DEF Settled
    <3> QED BY <2>8, <2>9, <2>10, <3>1, <3>2
  <2>12. "odometer" \in Keys => config'["odometer"] <= prefs'["odometer"]
    BY <2>2, <2>3, <2>6, <2>7 DEF Copied, BeingRead
  <2> QED BY <2>6, <2>11, <2>12 DEF Copied
<1> QED BY <1>1, <1>2, <1>4, <1>5, <1>6, <1>7, <1>9, <1>10, <1>12, <1>13, <1>14, <1>15
    DEF ConfigNext, Work, PowerLoss

-----------------------------------------------------------------------------
(* The mileage, and the end of setup, if opening a file for writing leaves *)
(* the old one in place.                                                   *)

LEMMA MileageStep ==
  ASSUME ~TruncatesAtOpen, Types, Types', Flow, Flow', Alone, Copied, Mileage, ConfigNext
  PROVE  Mileage'
<1> SUFFICES ASSUME "odometer" \in Keys, stage' # "off", ~mixed' PROVE Mileage'
  BY DEF Mileage
<1> USE DEF Handling, Writing, Reading
<1> DEFINE o == "odometer"
<1>0. /\ \A d \in Docs : d[o] \in Int
      /\ config \in Docs /\ flash \in Docs
      /\ \A u \in Tasks : image[u] \in Docs
      /\ o \in LocoKeys /\ o \in PrefKeys
      /\ "loop" \in Tasks /\ "web" \in Tasks
  <2>1. ASSUME NEW d \in Docs PROVE d[o] \in Int
    <3>1. d[o] \in Values \/ d[o] = -1
      BY DEF Docs, Missing
    <3> QED BY <3>1, IntValue
  <2>2. o \in LocoKeys /\ o \in PrefKeys
    BY Settings
  <2> QED BY <2>1, <2>2 DEF Types, Tasks
<1>1. CASE PowerOn
  <2>1. \A u \in Tasks : pc'[u] # "write"
    BY <1>1 DEF PowerOn, Flow, Staged, Quiet, Types
  <2>2. flash[o] <= Seeded(flash)[o]
    <3>1. Seeded(flash)[o] = IF flash[o] = Missing THEN 0 ELSE flash[o]
      BY <1>0, SeededWhole
    <3> QED BY <1>0, <3>1 DEF Missing
  <2> QED BY <1>1, <2>1, <2>2 DEF PowerOn, Mileage
<1>2. CASE Serve \/ Drive \/ ClearRoster
  BY <1>2 DEF Serve, Drive, ClearRoster, Mileage, work
<1>3. CASE Stop
  BY <1>3 DEF Stop
<1>4. ASSUME NEW t \in Tasks, NEW S, Reads(t, S), pc[t] \in {"idle", "answer"}, stage # "off",
             UNCHANGED <<stage, config, flash, disturbed>>,
             \A u \in Tasks : u # t => image'[u] = image[u]
      PROVE  Mileage'
  <2>1. /\ pc'[t] = "fetch" /\ pc[Other(t)] = "idle" /\ pc'[Other(t)] = "idle"
        /\ mixed => ~disturbed
    BY <1>4, Others DEF Reads, Types
  <2>2. \A u \in Tasks : pc'[u] # "write"
    BY <2>1, Others
  <2>3. flash[o] <= config[o]
    <3>1. CASE ~mixed
      BY <1>4, <3>1 DEF Mileage
    <3>2. CASE mixed
      <4>1. ~disturbed
        BY <2>1, <3>2
      <4>2. flash = config
        <5>1. CASE pc[t] = "answer"
          BY <4>1, <5>1 DEF Alone, AloneAt
        <5>2. CASE pc[t] = "idle"
          <6>1. \A u \in Tasks : pc[u] \notin Handling
            BY <2>1, <5>2, Others
          <6> QED BY <1>4, <4>1, <6>1 DEF Alone
        <5> QED BY <1>4, <5>1, <5>2
      <4> QED BY <1>0, <4>2
    <3> QED BY <3>1, <3>2
  <2> QED BY <1>4, <2>2, <2>3 DEF Mileage
<1>5. CASE SetupPrefs
  BY <1>0, <1>4, <1>5 DEF SetupPrefs
<1>6. ASSUME NEW t \in Tasks, Assign(t) PROVE Mileage'
  <2>1. PICK k \in todo[t] :
          /\ config' = [config EXCEPT ![k] =
               IF k \in doing[t].rounds[round[t]].run THEN prefs[k] ELSE job[t][k]]
          /\ pc' = [pc EXCEPT ![t] = IF todo[t] = {k} THEN "open" ELSE "assign"]
    BY <1>6 DEF Assign
  <2>2. pc[t] = "assign" /\ Carried(t)
        /\ UNCHANGED <<stage, flash, prefs, doing, job, round, image, held, disturbed, mixed>>
    BY <1>6 DEF Assign, Flow
  <2>3. /\ HandlerOK(doing[t]) /\ round[t] \in 1..Len(doing[t].rounds)
        /\ doing[t].task = t
    BY <2>2, InHandler
  <2>4. config[o] <= config'[o]
    <3>1. CASE k = o
      <4>1. k \in doing[t].rounds[round[t]].run /\ t = "loop"
        <5>1. k \in Stores(doing[t].rounds[round[t]])
          BY <2>2 DEF Carried
        <5> QED BY <2>3, <3>1, <5>1, AskedStored DEF Stores, Tasks
      <4>2. stage = "running"
        <5>1. stage \in {"setup", "running"} /\ stage \in {"serving", "running"}
          BY <2>2, <4>1, BusyStage
        <5> QED BY <5>1
      <4>3. config'[o] = prefs[o]
        BY <1>0, <2>1, <3>1, <4>1 DEF Docs
      <4>4. \A u \in Tasks : pc[u] \notin Reading
        <5>1. pc["web"] \in Reading => pc["loop"] = "idle"
          BY <1>0, <2>2, <4>2, Others DEF Copied, Copying
        <5> QED BY <2>2, <4>1, <5>1 DEF Tasks
      <4>5. ~BeingRead(o)
        BY <4>4 DEF BeingRead
      <4> QED BY <2>2, <4>2, <4>3, <4>5 DEF Copied, Copying
    <3>2. CASE k # o
      <4>1. config'[o] = config[o]
        BY <1>0, <2>1, <3>2 DEF Docs
      <4> QED BY <1>0, <4>1
    <3> QED BY <3>1, <3>2
  <2>5. \A u \in Tasks : pc'[u] = "write" => pc[u] = "write"
    BY <2>1 DEF Types
  <2>6. config'[o] \in Int
    BY <1>0 DEF Types
  <2>7. flash[o] <= config[o] /\ \A u \in Tasks : pc[u] = "write" => image[u][o] <= config[o]
    BY <2>2 DEF Mileage
  <2>8. \A x \in Int : x <= config[o] => x <= config'[o]
    BY <1>0, <2>4, <2>6
  <2> HIDE DEF o
  <2>9. flash[o] <= config'[o] /\ \A u \in Tasks : pc'[u] = "write" => image[u][o] <= config'[o]
    BY <1>0, <2>5, <2>7, <2>8
  <2> QED BY <2>2, <2>9 DEF Mileage, o
<1>7. ASSUME NEW t \in Tasks, Open(t) PROVE Mileage'
  <2>1. /\ pc[t] = "open" /\ pc' = [pc EXCEPT ![t] = "write"]
        /\ image' = [image EXCEPT ![t] = Nothing] /\ flash' = flash
        /\ UNCHANGED <<stage, config, mixed>>
    BY <1>7 DEF Open
  <2>2. \A u \in Tasks : u # t => pc'[u] = pc[u] /\ image'[u] = image[u]
    BY <2>1 DEF Types
  <2>3. stage # "off" /\ config[o] \in Values
    BY <2>1, BusyStage DEF Whole
  <2>4. image'[t][o] <= config'[o]
    <3>1. image'[t] = Nothing
      BY <2>1 DEF Types
    <3>2. Nothing[o] = Missing
      BY DEF Nothing
    <3>3. config'[o] \in Int /\ 0 <= config'[o]
      BY <2>1, <2>3, Settings
    <3> QED BY <3>1, <3>2, <3>3 DEF Missing
  <2> QED BY <2>1, <2>2, <2>3, <2>4 DEF Mileage
<1>8. ASSUME NEW t \in Tasks, Write(t) PROVE Mileage'
  <2> DEFINE k == First(todo[t])
  <2>1. /\ pc[t] = "write"
        /\ image' = [image EXCEPT ![t] = [image[t] EXCEPT ![k] = config[k]]]
        /\ UNCHANGED <<stage, config, flash, pc, mixed>>
    BY <1>8 DEF Write, Types
  <2> HIDE DEF k
  <2>2. image'[t][o] \in {image[t][o], config[o]}
    BY <1>0, <2>1 DEF Types, Docs
  <2>3. \A u \in Tasks : u # t => image'[u] = image[u]
    BY <2>1 DEF Types
  <2> QED BY <1>0, <2>1, <2>2, <2>3 DEF Mileage
<1>9. ASSUME NEW t \in Tasks, OpenFails(t) \/ Close(t) PROVE Mileage'
  <2>1. /\ pc[t] \in {"open", "write"} /\ Return(t) /\ doing' = doing
        /\ UNCHANGED <<stage, config, image, mixed>>
        /\ flash' = flash \/ (pc[t] = "write" /\ flash' = image[t])
    BY <1>9 DEF OpenFails, Close
  <2>2. pc' = [pc EXCEPT ![t] = pc'[t]] /\ pc'[t] \in {"assign", "answer"}
    BY <2>1, Returned DEF Flow
  <2>3. \A u \in Tasks : pc'[u] = "write" => pc[u] = "write"
    BY <2>2 DEF Types
  <2> QED BY <2>1, <2>3 DEF Mileage
<1>10. ASSUME NEW t \in Tasks, Answer(t), ~Stop PROVE Mileage'
  <2>1. /\ pc[t] = "answer" /\ image' = [image EXCEPT ![t] = Nothing]
        /\ UNCHANGED <<stage, config, flash, disturbed>>
        /\ \A u \in Tasks : u # t => image'[u] = image[u]
    BY <1>10 DEF Answer, Leave, Types
  <2>2. CASE doing[t].after = "prefs"
    <3>1. Reads(t, LocoKeys) /\ stage # "off"
      BY <1>10, <2>1, <2>2, BusyStage DEF Answer
    <3> QED BY <1>4, <2>1, <3>1
  <2>3. CASE doing[t].after # "prefs"
    <3>1. pc' = [pc EXCEPT ![t] = "idle"] /\ mixed' = mixed
      BY <1>10, <2>3 DEF Answer
    <3>2. \A u \in Tasks : pc'[u] = "write" => pc[u] = "write" /\ image'[u] = image[u]
      BY <2>1, <3>1 DEF Types
    <3> QED BY <2>1, <3>1, <3>2 DEF Mileage
  <2> QED BY <2>2, <2>3
<1>11. ASSUME NEW t \in Tasks, Fetch(t) \/ Keep(t) \/ Done(t) PROVE Mileage'
  <2>1. /\ pc[t] \in Reading /\ pc'[t] # "write" /\ \A u \in Tasks : u # t => pc'[u] = pc[u]
        /\ UNCHANGED <<config, flash, image, mixed>>
    BY <1>11 DEF Fetch, Keep, Done, Types
  <2>2. stage # "off"
    BY <2>1, BusyStage
  <2> QED BY <2>1, <2>2 DEF Mileage
<1>12. ASSUME NEW t \in Tasks, NEW h \in Active, NEW w \in Wishes(h), Begin(t, h, w)
      PROVE Mileage'
  <2>1. pc' = [pc EXCEPT ![t] = "assign"] /\ UNCHANGED <<stage, config, flash, image>> /\ ~mixed
    BY <1>12 DEF Begin, StartRound
  <2>2. \A u \in Tasks : pc'[u] = "write" => pc[u] = "write"
    BY <2>1 DEF Types
  <2> QED BY <2>1, <2>2 DEF Mileage
<1> QED BY <1>1, <1>2, <1>3, <1>5, <1>6, <1>7, <1>8, <1>9, <1>10, <1>11, <1>12
    DEF ConfigNext, Work, PowerLoss

LEMMA SetUpStep ==
  ASSUME ~TruncatesAtOpen, Types, Types', Flow, Flow', Alone, SetUp, ConfigNext
  PROVE  SetUp'
<1> SUFFICES ASSUME stage' = "setup" PROVE SetUp'
  BY DEF SetUp
<1> USE DEF Handling, Writing, Reading
<1>0. "loop" \in Tasks /\ "web" \in Tasks
  BY DEF Tasks
<1>1. CASE PowerOn
  <2>1. /\ config' = Seeded(flash) /\ flash' = flash /\ ~disturbed'
        /\ pc["loop"] = "idle"
    BY <1>0, <1>1 DEF PowerOn, Flow, Staged, Quiet
  <2>2. (\E k \in Keys : flash[k] = Missing) \/ pc' = pc
    BY <1>1 DEF PowerOn
  <2>3. (\E k \in Keys : flash[k] = Missing) => flash # Seeded(flash)
    BY SeededWhole, Settings DEF Types, Whole
  <2> QED BY <2>1, <2>2, <2>3 DEF SetUp
<1>2. CASE Serve \/ SetupPrefs \/ Drive \/ ClearRoster \/ Stop
  BY <1>2 DEF Serve, SetupPrefs, Drive, ClearRoster, Stop
<1>3. ASSUME NEW t \in Tasks, Open(t) PROVE SetUp'
  <2>1. /\ pc[t] = "open" /\ stage = "setup" /\ t = "loop"
        /\ flash' = flash /\ UNCHANGED <<config, disturbed>>
    BY <1>3, BusyStage DEF Open
  <2> QED BY <2>1 DEF SetUp
<1>4. ASSUME NEW t \in Tasks, Write(t) PROVE SetUp'
  BY <1>4 DEF Write, SetUp
<1>5. ASSUME NEW t \in Tasks, OpenFails(t) \/ Close(t) PROVE SetUp'
  <2>1. /\ pc[t] \in {"open", "write"} /\ Return(t) /\ stage = "setup" /\ config' = config
        /\ doing' = doing
    BY <1>5 DEF OpenFails, Close
  <2>2. t = "loop" /\ config \in Whole /\ Carried(t)
    BY <2>1, BusyStage DEF Flow
  <2>3. pc'["loop"] \in {"assign", "answer"}
    BY <2>1, <2>2, Returned
  <2>4. CASE OpenFails(t)
    BY <2>1, <2>2, <2>3, <2>4 DEF OpenFails, SetUp
  <2>5. CASE Close(t)
    <3>1. ~disturbed /\ disturbed' = disturbed /\ flash' = image[t]
      BY <2>2, <2>5 DEF Close, SetUp
    <3>2. \A k \in Keys : image[t][k] = config[k]
      BY <2>5, <3>1 DEF Close, Alone, AloneAt
    <3>3. flash' = config
      BY <3>1, <3>2, SameDocs DEF Types
    <3>4. Seeded(config) = config
      BY <2>2, SeededWhole, Settings
    <3> QED BY <2>1, <2>3, <3>1, <3>3, <3>4 DEF SetUp
  <2> QED BY <1>5, <2>4, <2>5
<1>6. ASSUME NEW t \in Tasks, Answer(t), ~Stop PROVE SetUp'
  <2>1. /\ pc[t] = "answer" /\ UNCHANGED <<stage, config, flash, disturbed>>
        /\ pc' = [pc EXCEPT ![t] = pc'[t]] /\ pc'[t] \in {"idle", "fetch"}
    BY <1>6 DEF Answer, Reads, Types
  <2>2. pc'["loop"] \in {"open", "write"} => pc["loop"] \in {"open", "write"}
    BY <1>0, <2>1 DEF Types
  <2> QED BY <2>1, <2>2 DEF SetUp
<1>7. ASSUME NEW t \in Tasks,
             \/ Assign(t) \/ Fetch(t) \/ Keep(t) \/ Done(t)
             \/ \E h \in Active : \E w \in Wishes(h) : Begin(t, h, w)
      PROVE FALSE
  <2>1. CASE Assign(t) \/ Fetch(t) \/ Keep(t)
    BY <1>7, <2>1, BusyStage DEF Assign, Fetch, Keep
  <2>2. CASE Done(t)
    <3>1. pc[t] = "fetch" /\ (t = "loop" \/ stage = "setup")
      BY <1>7, <2>2 DEF Done
    <3>2. stage' = "setup" => t # "loop"
      BY <2>2 DEF Done
    <3> QED BY <3>1, <3>2, BusyStage
  <2>3. CASE \E h \in Active : \E w \in Wishes(h) : Begin(t, h, w)
    BY <2>3 DEF Begin, Serving
  <2> QED BY <1>7, <2>1, <2>2, <2>3
<1> QED BY <1>1, <1>2, <1>3, <1>4, <1>5, <1>6, <1>7
    DEF ConfigNext, Work, PowerLoss

-----------------------------------------------------------------------------
(* Theorems.                                                               *)

LEMMA InvInit == ConfigInit => Types /\ Flow /\ Alone /\ Copied /\ Mileage /\ SetUp
<1> SUFFICES ASSUME ConfigInit PROVE Types /\ Flow /\ Alone /\ Copied /\ Mileage /\ SetUp
  OBVIOUS
<1>1. Types
  <2>1. flash \in Docs
    BY Settings, SeededWhole DEF ConfigInit
  <2> QED BY <2>1, IdleTypes, Settings DEF ConfigInit, Types
<1>2. ASSUME NEW u \in Tasks
      PROVE pc[u] = "idle" /\ doing[u] = NoHandler /\ job[u] = NoJob /\ round[u] = 0
  BY DEF ConfigInit, IdlePc, IdleDoing, IdleJob, IdleRound
<1>3. Flow
  <2>1. \A u \in Tasks : Carried(u)
    BY <1>2 DEF Carried, Handling, Writing, Reading
  <2>2. Staged
    BY <1>2 DEF ConfigInit, Staged, Quiet
  <2> QED BY <2>1, <2>2 DEF Flow
<1>4. Alone
  <2>1. \A u \in Tasks : AloneAt(u)
    BY <1>2 DEF AloneAt, Handling, Writing
  <2> QED BY <2>1 DEF Alone, ConfigInit
<1> QED BY <1>1, <1>3, <1>4 DEF Copied, Copying, Mileage, SetUp, ConfigInit

LEMMA Stutter ==
  ASSUME UNCHANGED vars, Types, Flow, Alone, Copied
  PROVE  Types' /\ Flow' /\ Alone' /\ Copied'
<1> USE DEF vars, work
<1>1. Types' /\ Flow'
  BY DEF Types, Flow, Staged, Quiet, Carried
<1>2. Alone'
  BY DEF Alone, AloneAt, Awaits
<1>3. Copied'
  BY DEF Copied, Copying, Settled, Awaits, ReadBack, BeingRead
<1> QED BY <1>1, <1>2, <1>3

Inv == Types /\ Flow /\ Alone /\ Copied

LEMMA InvStep == Inv /\ [ConfigNext]_vars => Inv'
<1> SUFFICES ASSUME Inv, [ConfigNext]_vars PROVE Inv'
  OBVIOUS
<1>1. CASE ConfigNext
  <2>1. Types'
    BY <1>1, TypesStep DEF Inv
  <2>2. Flow'
    BY <1>1, <2>1, FlowStep DEF Inv
  <2>3. Alone'
    BY <1>1, <2>1, <2>2, AloneStep DEF Inv
  <2>4. Copied'
    BY <1>1, <2>1, <2>2, CopiedStep DEF Inv
  <2> QED BY <2>1, <2>2, <2>3, <2>4 DEF Inv
<1>2. CASE UNCHANGED vars
  BY <1>2, Stutter DEF Inv
<1> QED BY <1>1, <1>2

LEMMA Invariance == ConfigSpec => []Inv
<1>1. ConfigInit => Inv
  BY InvInit DEF Inv
<1> QED BY <1>1, InvStep, PTL DEF ConfigSpec

\* Documents, images and copies hold settings in range, and a task that
\* assigns or saves is in a round of its handler.
THEOREM TypesHold == ConfigSpec => []ConfigTypeOK
<1>1. Inv => ConfigTypeOK
  <2> SUFFICES ASSUME Inv PROVE ConfigTypeOK
    OBVIOUS
  <2>1. ASSUME NEW t \in Tasks, pc[t] \in Writing PROVE round[t] \in DOMAIN doing[t].rounds
    BY <2>1, InHandler DEF Inv, Flow, Handling, HandlerOK, ShapeOK
  <2>2. ASSUME NEW t \in Tasks
        PROVE DOMAIN job[t] \subseteq Keys /\ \A k \in DOMAIN job[t] : job[t][k] \in Values
    BY JobValue DEF Inv
  <2> QED BY <2>1, <2>2 DEF Inv, Types, ConfigTypeOK, Docs, Writing
<1> QED BY <1>1, Invariance, PTL

\* Once the web server runs no setting is missing, whatever was in flash.
THEOREM NoSettingMissing == ConfigSpec => []SettingsExist
<1>1. Inv => SettingsExist
  BY DEF Inv, Flow, Staged, SettingsExist
<1> QED BY <1>1, Invariance, PTL

\* When no handler is under way and nothing disturbed the last, the file
\* holds the document: saveConfig loses nothing by itself.
THEOREM QuietStores == ConfigSpec => []StoredWhenQuiet
<1>1. Inv => StoredWhenQuiet
  BY DEF Inv, Alone, StoredWhenQuiet, Quiet, Handling, Writing
<1> QED BY <1>1, Invariance, PTL

\* A handler that nothing disturbed answers only when all it was asked to
\* store is in flash: what each of muSetState's and muSetPerformance's saves
\* stored is still there after the last.
THEOREM AnswerStores == ConfigSpec => []StoredWhenAnswered
<1>1. Inv => StoredWhenAnswered
  <2> SUFFICES ASSUME Inv, NEW t \in Tasks, pc[t] = "answer", ~disturbed,
                      NEW k \in DOMAIN job[t]
               PROVE flash[k] = job[t][k]
    BY DEF StoredWhenAnswered
  <2>1. AloneAt(t) /\ Carried(t) /\ pc[t] \in Handling
    BY DEF Inv, Alone, Flow, Handling
  <2>2. Awaits(t) = {}
    <3>1. HandlerOK(doing[t]) /\ round[t] \in Nat /\ round[t] = Len(doing[t].rounds)
      BY <2>1, InHandler DEF Inv, Carried
    <3>2. LaterOf(doing[t], round[t]) = {}
      BY <3>1, LaterEnd
    <3> QED BY <3>2 DEF Awaits
  <2> QED BY <2>1, <2>2 DEF AloneAt
<1> QED BY <1>1, Invariance, PTL

\* Throttle works with what getLocoPrefs reads of the document, though the
\* handlers of both tasks interleave, until a reading overlaps a handler.
THEOREM CopiesAgree == ConfigSpec => []PrefsAgree
<1>1. Inv => PrefsAgree
  <2> SUFFICES ASSUME Inv, stage = "running", Quiet, ~mixed PROVE PrefsAgree
    BY DEF PrefsAgree
  <2>1. Awaits("loop") = {}
    <3>1. doing["loop"] = NoHandler /\ round["loop"] = 0 /\ pc["loop"] = "idle"
      BY DEF Inv, Flow, Carried, Quiet, Tasks, Handling, Writing
    <3> QED BY <3>1, LaterNone DEF Awaits
  <2>2. \A k : ~ReadBack(k) /\ ~BeingRead(k)
    BY DEF Quiet, ReadBack, BeingRead, Handling, Writing, Reading
  <2>3. \A k \in LocoKeys \ {"odometer"} : Settled(k)
    BY <2>1, <2>2 DEF Inv, Copied, Copying
  <2>4. "odometer" \in Keys => prefs["odometer"] >= config["odometer"]
    BY <2>2 DEF Inv, Copied, Copying
  <2> QED BY <2>3, <2>4, Settings DEF PrefsAgree, Settled
<1> QED BY <1>1, Invariance, PTL

\* Whether open("w") leaves the old file in place until the handle is closed
\* decides the rest: with it, neither a power loss nor an overlap tears the
\* file.
THEOREM NeverTorn == ~TruncatesAtOpen => (ConfigSpec => FileStaysWhole)
<1> SUFFICES ASSUME ~TruncatesAtOpen PROVE ConfigSpec => FileStaysWhole
  OBVIOUS
<1>1. Inv /\ [ConfigNext]_vars => [(flash \in Whole) => (flash' \in Whole)]_vars
  <2> SUFFICES ASSUME Inv, ConfigNext, flash \in Whole PROVE flash' \in Whole
    BY DEF vars
  <2>1. ASSUME NEW t \in Tasks, Close(t) PROVE flash' \in Whole
    <3>1. flash' = image[t] /\ \A k \in Keys : image[t][k] \in Values
      BY <2>1 DEF Close, Inv, Flow, Carried
    <3> QED BY <3>1 DEF Inv, Types, Docs, Whole
  <2>2. ASSUME NEW t \in Tasks, Work(t), ~Close(t) PROVE flash' = flash
    BY <2>2 DEF Work, Assign, Open, OpenFails, Write, Answer, Stop, Fetch, Keep, Done
  <2> QED BY <2>1, <2>2
      DEF ConfigNext, PowerOn, Serve, SetupPrefs, PowerLoss, Stop, Drive, ClearRoster, Begin
<1> QED BY <1>1, Invariance, PTL DEF ConfigSpec, FileStaysWhole

Inv2 == Inv /\ Mileage /\ SetUp

LEMMA Inv2Holds == ~TruncatesAtOpen => (ConfigSpec => []Inv2)
<1> SUFFICES ASSUME ~TruncatesAtOpen PROVE ConfigSpec => []Inv2
  OBVIOUS
<1>1. ConfigInit => Inv2
  BY InvInit DEF Inv, Inv2
<1>2. Inv2 /\ [ConfigNext]_vars => Inv2'
  <2> SUFFICES ASSUME Inv2, [ConfigNext]_vars PROVE Inv2'
    OBVIOUS
  <2>1. Inv'
    BY InvStep DEF Inv2
  <2>2. CASE ConfigNext
    <3>1. Mileage'
      BY <2>1, <2>2, MileageStep DEF Inv2, Inv
    <3>2. SetUp'
      BY <2>1, <2>2, SetUpStep DEF Inv2, Inv
    <3> QED BY <2>1, <3>1, <3>2 DEF Inv2
  <2>3. CASE UNCHANGED vars
    BY <2>1, <2>3 DEF vars, work, Inv2, Mileage, SetUp
  <2> QED BY <2>2, <2>3
<1> QED BY <1>1, <1>2, PTL DEF ConfigSpec

\* The stored mileage goes back only when a disturbed save, or a copy read
\* while loop() stored a later one, puts it back.
THEOREM MileageNeverBack == ~TruncatesAtOpen => (ConfigSpec => MileageGrows)
<1> SUFFICES ASSUME ~TruncatesAtOpen PROVE ConfigSpec => MileageGrows
  OBVIOUS
<1>1. Inv2 /\ [ConfigNext]_vars
        => [~disturbed /\ ~mixed /\ "odometer" \in Keys
              => flash'["odometer"] >= flash["odometer"]]_vars
  <2> SUFFICES ASSUME Inv2, ConfigNext, ~disturbed, ~mixed, "odometer" \in Keys
               PROVE flash'["odometer"] >= flash["odometer"]
    BY DEF vars
  <2>0. flash["odometer"] \in Int
    BY IntValue DEF Inv2, Inv, Types, Docs, Missing
  <2>1. ASSUME NEW t \in Tasks, Close(t) PROVE flash'["odometer"] >= flash["odometer"]
    <3>1. /\ pc[t] = "write" /\ pc[t] \in Handling /\ flash' = image[t] /\ todo[t] = {}
      BY <2>1 DEF Close, Handling, Writing
    <3>2. image[t]["odometer"] = config["odometer"]
      BY <3>1 DEF Inv2, Inv, Alone, AloneAt
    <3>3. stage # "off"
      BY <3>1, BusyStage DEF Inv2, Inv
    <3> QED BY <3>1, <3>2, <3>3 DEF Inv2, Mileage
  <2>2. ASSUME NEW t \in Tasks, Work(t), ~Close(t) PROVE flash' = flash
    BY <2>2 DEF Work, Assign, Open, OpenFails, Write, Answer, Stop, Fetch, Keep, Done
  <2>3. flash["odometer"] >= flash["odometer"]
    BY <2>0
  <2>4. flash' = flash \/ \E t \in Tasks : Close(t)
    BY <2>2 DEF ConfigNext, PowerOn, Serve, SetupPrefs, PowerLoss, Stop, Drive, ClearRoster, Begin
  <2> QED BY <2>1, <2>3, <2>4
<1> QED BY <1>1, Inv2Holds, PTL DEF ConfigSpec, MileageGrows

-----------------------------------------------------------------------------
(* The store implements the ledger.                                        *)

LEMMA LedgerInit == ConfigInit => Ledger!Init
  BY SeededWhole, Settings DEF ConfigInit, Ledger!Init, Ledger!Whole, Up, Whole

LEMMA LedgerStep ==
  ~TruncatesAtOpen /\ Inv2 /\ Inv2' /\ [ConfigNext]_vars => [Ledger!Next]_(Ledger!vars)
<1> SUFFICES ASSUME ~TruncatesAtOpen, Inv2, Inv2', [ConfigNext]_vars
             PROVE  [Ledger!Next]_(Ledger!vars)
  OBVIOUS
<1> DEFINE mem == IF Up THEN config ELSE Nothing
<1> DEFINE spoilt == Up /\ disturbed
<1>0. Types /\ Flow /\ Alone /\ SetUp /\ Types' /\ Flow'
  BY DEF Inv2, Inv
<1>1. ASSUME mem' = mem, Up' = Up, flash' = flash, spoilt' = spoilt
      PROVE  [Ledger!Next]_(Ledger!vars)
  BY <1>1 DEF Ledger!vars
<1>2. ASSUME Up, Up', config' \in Whole, flash' = flash
      PROVE  [Ledger!Next]_(Ledger!vars)
  <2>1. Ledger!Edit
    BY <1>0, <1>2 DEF Ledger!Edit, Ledger!Whole, Whole, Types
  <2> QED BY <2>1 DEF Ledger!Next
<1>3. CASE PowerOn \/ SetupPrefs \/ Drive \/ ClearRoster
  <2>1. mem' = mem /\ Up' = Up /\ flash' = flash /\ spoilt' = spoilt
    BY <1>3 DEF PowerOn, SetupPrefs, Drive, ClearRoster, Up
  <2> QED BY <1>1, <2>1
<1>4. CASE Serve
  <2>1. Ledger!ComeUp
    <3>1. /\ ~Up /\ Up' /\ config' = config /\ flash' = flash
          /\ disturbed' = disturbed /\ stage = "setup" /\ \A u \in Tasks : pc[u] \notin Handling
      BY <1>4 DEF Serve, Up, Quiet, Handling, Writing
    <3>2. config = Seeded(flash)
      BY <1>0, <3>1 DEF SetUp
    <3>3. disturbed = (flash # Seeded(flash))
      BY <1>0, <3>1, <3>2 DEF SetUp, Alone, Types
    <3> QED BY <3>1, <3>2, <3>3 DEF Ledger!ComeUp
  <2> QED BY <2>1 DEF Ledger!Next
<1>5. CASE Stop
  <2>1. ~Up' /\ flash' = flash /\ ~spoilt' /\ mem' = Nothing
    BY <1>5 DEF Stop, Up
  <2>2. CASE Up
    <3>1. Ledger!LosePower
      BY <2>1, <2>2 DEF Ledger!LosePower
    <3> QED BY <3>1 DEF Ledger!Next
  <2>3. CASE ~Up
    <3>1. mem' = mem /\ Up' = Up /\ spoilt' = spoilt
      BY <2>1, <2>3 DEF Up
    <3> QED BY <1>1, <2>1, <3>1
  <2> QED BY <2>2, <2>3
<1>6. ASSUME NEW t \in Tasks, Assign(t) \/ OpenFails(t) PROVE [Ledger!Next]_(Ledger!vars)
  <2>1. flash' = flash /\ stage' = stage /\ stage # "off"
    BY <1>0, <1>6, BusyStage DEF Assign, OpenFails
  <2>2. CASE Up
    <3>1. Up' /\ config' \in Whole
      BY <1>0, <2>1, <2>2 DEF Up, Flow, Staged
    <3> QED BY <1>2, <2>1, <2>2, <3>1
  <2>3. CASE ~Up
    BY <1>1, <2>1, <2>3 DEF Up
  <2> QED BY <2>2, <2>3
<1>7. ASSUME NEW t \in Tasks, Open(t) \/ Write(t) \/ Fetch(t) \/ Keep(t)
      PROVE [Ledger!Next]_(Ledger!vars)
  <2>1. flash' = flash /\ UNCHANGED <<stage, config, disturbed>>
    BY <1>7 DEF Open, Write, Fetch, Keep
  <2>2. mem' = mem /\ Up' = Up /\ spoilt' = spoilt
    BY <2>1 DEF Up
  <2> QED BY <1>1, <2>1, <2>2
<1>8. ASSUME NEW t \in Tasks, Done(t) PROVE [Ledger!Next]_(Ledger!vars)
  <2>1. /\ pc[t] = "fetch" /\ UNCHANGED <<config, flash, disturbed>>
        /\ stage' = IF t = "loop" THEN "running" ELSE stage
    BY <1>8 DEF Done
  <2>2. Up /\ Up'
    <3>1. stage \in {"serving", "running"}
      BY <1>0, <2>1, BusyStage
    <3> QED BY <2>1, <3>1 DEF Up
  <2> QED BY <1>1, <2>1, <2>2
<1>9. ASSUME NEW t \in Tasks, Close(t) PROVE [Ledger!Next]_(Ledger!vars)
  <2>1. /\ pc[t] = "write" /\ pc[t] \in Handling /\ todo[t] = {} /\ flash' = image[t]
        /\ UNCHANGED <<stage, config, disturbed>>
    BY <1>9 DEF Close, Handling, Writing
  <2>2. flash' \in Whole
    BY <1>0, <2>1 DEF Flow, Carried, Types, Docs, Whole
  <2>3. ~disturbed => flash' = config
    <3>1. ~disturbed => \A k \in Keys : image[t][k] = config[k]
      BY <1>0, <2>1 DEF Alone, AloneAt
    <3>2. image[t] \in Docs /\ config \in Docs
      BY <1>0 DEF Types
    <3> QED BY <2>1, <3>1, <3>2, SameDocs
  <2>4. CASE Up
    <3>1. Ledger!Commit
      BY <2>1, <2>2, <2>3, <2>4 DEF Up, Ledger!Commit, Ledger!Whole, Whole
    <3> QED BY <3>1 DEF Ledger!Next
  <2>5. CASE ~Up
    <3>1. stage = "setup" /\ t = "loop"
      BY <1>0, <2>1, <2>5, BusyStage DEF Up
    <3>2. ~disturbed /\ config = Seeded(flash)
      BY <1>0, <2>1, <3>1 DEF SetUp
    <3>3. Ledger!Seed
      BY <2>1, <2>3, <2>5, <3>2 DEF Up, Ledger!Seed
    <3> QED BY <3>3 DEF Ledger!Next
  <2> QED BY <2>4, <2>5
<1>10. ASSUME NEW t \in Tasks, Answer(t), ~Stop PROVE [Ledger!Next]_(Ledger!vars)
  <2>1. UNCHANGED <<stage, config, flash, disturbed>>
    BY <1>10 DEF Answer
  <2>2. mem' = mem /\ Up' = Up /\ spoilt' = spoilt
    BY <2>1 DEF Up
  <2> QED BY <1>1, <2>1, <2>2
<1>11. ASSUME NEW t \in Tasks, NEW h \in Active, NEW w \in Wishes(h), Begin(t, h, w)
       PROVE [Ledger!Next]_(Ledger!vars)
  <2>1. UNCHANGED <<stage, config, flash>> /\ Up
    BY <1>11 DEF Begin, Serving, Up
  <2>2. Up' /\ config' \in Whole
    BY <1>0, <2>1 DEF Up, Flow, Staged
  <2> QED BY <1>2, <2>1, <2>2
<1>12. CASE UNCHANGED vars
  <2>1. mem' = mem /\ Up' = Up /\ flash' = flash /\ spoilt' = spoilt
    BY <1>12 DEF vars, Up
  <2> QED BY <1>1, <2>1
<1> QED BY <1>3, <1>4, <1>5, <1>6, <1>7, <1>8, <1>9, <1>10, <1>11, <1>12
    DEF ConfigNext, Work, PowerLoss

\* Tasks, handles and pieces of JSON are an implementation of the ledger: an
\* undisturbed save writes exactly the document, any save a whole one, and
\* the unit comes up with what the file holds.
THEOREM LedgerImplemented == ~TruncatesAtOpen => (ConfigSpec => ImplementsLedger)
<1> SUFFICES ASSUME ~TruncatesAtOpen PROVE ConfigSpec => ImplementsLedger
  OBVIOUS
<1>1. Inv2 /\ Inv2' /\ [ConfigNext]_vars => [Ledger!Next]_(Ledger!vars)
  BY LedgerStep
<1> QED BY <1>1, LedgerInit, Inv2Holds, PTL DEF ConfigSpec, ImplementsLedger, Ledger!Spec
=============================================================================
