------------------------------- MODULE Consist -------------------------------
(***************************************************************************)
(* The multiple-unit protocol of Throttle.cpp: locomotives that join and   *)
(* leave a consist, the roster (muDoc) of its lead, the state each keeps   *)
(* in flash (config), and the UDP messages between them.  The network may  *)
(* lose, duplicate and reorder messages, and a locomotive may lose power   *)
(* at any moment; both stop, as the app's commands do, when the world is   *)
(* quiet.                                                                  *)
(*                                                                         *)
(* A locomotive is known by its address; mid and trailing differ only in   *)
(* the rear light and are one state here.  Each message handler and each   *)
(* command runs to its end before the next one, unless the power is cut.   *)
(*                                                                         *)
(* The power may be cut between the saves of a handler as well.  Where all *)
(* its saves write the same state and roster, as in muSetState, the cut is *)
(* a whole handler, the loss of what it had still to send, and a boot.     *)
(* CutOff is the handler of which that is not true.                        *)
(***************************************************************************)
EXTENDS Naturals, FiniteSets

CONSTANTS Locos,
          Pairs,    \* <<unit, lead>>: the attachments the app asks for
          Leads,    \* <<unit, address>>: the units the app tells to lead, with
                    \* the address its message gives as the lead's
          BootOutlivesNet  \* TRUE: no message survives the boot of its sender
                           \* or receiver

NoIp == "no address"

ASSUME PairsAssumption ==
  /\ NoIp \notin Locos
  /\ Pairs \subseteq {p \in Locos \X Locos : p[1] # p[2]}
  /\ Leads \subseteq Locos \X Locos
  /\ BootOutlivesNet \in BOOLEAN

VARIABLES muState, muDoc, leadIp, consistMember, running, muSum,
          config,     \* what flash holds: muState and the consist
          net,        \* messages on their way
          quiet       \* no more commands, power losses or network faults

locoVars == <<muState, muDoc, leadIp, consistMember, running, muSum>>
vars == <<locoVars, config, net, quiet>>

Data(l, x, st) == [topic |-> "muLocoData", from |-> l, to |-> x, st |-> st]
Query(x, l) == [topic |-> "muQueryTrailers", from |-> x, to |-> l]
StartStop(x, l, on) == [topic |-> "startstop", from |-> x, to |-> l, on |-> on]
LeadStatus(x, l, roster) ==
  [topic |-> "muLeadStatus", from |-> x, to |-> l, consist |-> roster]
Check(l, x) == [topic |-> "muMemberCheck", from |-> l, to |-> x]
Response(x, l, b) == [topic |-> "muMemberResponse", from |-> x, to |-> l, member |-> b]

Messages ==
  {m \in [topic : {"muLocoData"}, from : Locos, to : Locos, st : {"solo", "trailing"}]
           \union [topic : {"muQueryTrailers", "muMemberCheck"}, from : Locos, to : Locos]
           \union [topic : {"startstop"}, from : Locos, to : Locos, on : BOOLEAN]
           \union [topic : {"muLeadStatus"}, from : Locos, to : Locos,
                      consist : SUBSET Locos]
           \union [topic : {"muMemberResponse"}, from : Locos, to : Locos,
                      member : BOOLEAN]
     : m.from # m.to}

ConsistInit ==
  /\ muState = [l \in Locos |-> "solo"] /\ muDoc = [l \in Locos |-> {}]
  /\ leadIp = [l \in Locos |-> NoIp] /\ consistMember = [l \in Locos |-> FALSE]
  /\ running = [l \in Locos |-> FALSE]
  /\ muSum = [l \in Locos |-> {}]
  /\ config = [l \in Locos |-> [muState |-> "solo", consist |-> {}]]
  /\ net = {} /\ quiet = FALSE

\* Mutant of Become: the new state is not saved.
BecomeUnsaved(l, st) ==
  /\ muState' = [muState EXCEPT ![l] = st]
  /\ UNCHANGED config

Become(l, st) ==
  /\ muState' = [muState EXCEPT ![l] = st]
  /\ config' = [config EXCEPT ![l].muState = st]

\* Mutant of StatusTo: the lead sends itself a status, too.
StatusToAll(x, roster) == {LeadStatus(x, l, roster) : l \in roster \union {x}}

\* reportStatus of a lead: one message to every unit of the roster.
StatusTo(x, roster) == {LeadStatus(x, l, roster) : l \in roster}

-----------------------------------------------------------------------------
(* Handlers; `rest` is the network without the message that is handled.    *)

\* muReport: only a trailing unit answers, and it answers whoever asks.
Report(l, x, rest) ==
  /\ net' = rest \union (IF muState[l] = "trailing" THEN {Data(l, x, "trailing")} ELSE {})
  /\ UNCHANGED <<locoVars, config>>

\* muSetState with a lead's address: join, report to the lead, save and
\* read the preferences back.
Attach(l, x, rest) ==
  /\ Become(l, "trailing")
  /\ consistMember' = [consistMember EXCEPT ![l] = TRUE]
  /\ leadIp' = [leadIp EXCEPT ![l] = x]
  /\ muDoc' = [muDoc EXCEPT ![l] = config[l].consist]
  /\ net' = rest \union {Data(l, x, "trailing")}
  /\ UNCHANGED <<running, muSum>>

\* muSetState 1 ("lead or 1") matches no case of the switch: the state is saved,
\* getLocoPrefs takes it and the saved roster over, and nothing is summed.
MakeLead(l, x, rest) ==
  /\ Become(l, "lead")
  /\ leadIp' = [leadIp EXCEPT ![l] = x]
  /\ muDoc' = [muDoc EXCEPT ![l] = config[l].consist]
  /\ net' = rest
  /\ UNCHANGED <<consistMember, running, muSum>>

\* muSetState 0: a trailing unit tells the lead that it leaves.
Detach(l, x, rest) ==
  /\ Become(l, "solo")
  /\ leadIp' = [leadIp EXCEPT ![l] = x]
  /\ muDoc' = [muDoc EXCEPT ![l] = config[l].consist]
  /\ net' = rest \union (IF muState[l] = "trailing" THEN {Data(l, x, "solo")} ELSE {})
  /\ UNCHANGED <<consistMember, running, muSum>>

\* reportStatus of a lead whose roster document is null leaves the lead's role;
\* an empty roster may be a null document or an empty object.
FailSafe(x) ==
  \/ UNCHANGED <<muState, config>>
  \/ muState[x] = "lead" /\ muDoc[x] = {} /\ Become(x, "solo")

\* Mutant of Summed: the loop over the roster stops one entry early.
SummedButOne(st, roster) ==
  IF st = "solo" THEN {} ELSE roster \ {CHOOSE l \in roster : TRUE}

\* muSumPerformanceValues: the units whose horsepower and mass are added up.
Summed(st, roster) == IF st = "solo" THEN {} ELSE roster

\* muSetPerformance: the roster of the lead gains or loses the unit l.
RosterWith(x, l, st) == IF st = "solo" THEN muDoc[x] \ {l} ELSE muDoc[x] \union {l}
StateWith(x, l, st) ==
  IF st # "solo" THEN "lead"
  ELSE IF RosterWith(x, l, st) = {} THEN "solo" ELSE muState[x]
SetPerformance(x, l, st, rest) ==
  LET roster == RosterWith(x, l, st)
      newState == StateWith(x, l, st)
  IN  /\ muState' = [muState EXCEPT ![x] = newState]
      /\ muDoc' = [muDoc EXCEPT ![x] = roster]
      /\ config' = [config EXCEPT ![x] = [muState |-> newState, consist |-> roster]]
      /\ muSum' = [muSum EXCEPT ![x] = Summed(newState, roster)]
      /\ net' = rest \union
                  IF st = "solo" THEN {StartStop(x, l, FALSE)}
                  ELSE StatusTo(x, roster)
                         \union (IF running[x] THEN {StartStop(x, l, TRUE)} ELSE {})
      /\ UNCHANGED <<leadIp, consistMember, running>>

\* pmOnOff(on): a start asks every unit of the roster to report again and
\* empties the roster, so that the lead is alone until the reports arrive.
PmOnOff(x, on, rest) ==
  /\ running' = [running EXCEPT ![x] = on]
  /\ IF on
     THEN /\ net' = rest \union {Query(x, l) : l \in muDoc[x]}
          /\ muDoc' = [muDoc EXCEPT ![x] = {}]
          /\ IF muState[x] = "lead" THEN Become(x, "solo")
             ELSE UNCHANGED <<muState, config>>
     ELSE /\ net' = rest \union
                      IF muState[x] = "lead"
                      THEN {StartStop(x, l, FALSE) : l \in muDoc[x]} \union StatusTo(x, muDoc[x])
                      ELSE {}
          /\ FailSafe(x) /\ UNCHANGED muDoc
  /\ UNCHANGED <<leadIp, consistMember, muSum>>

\* muSetSpeed: a running member that a moving lead does not list drops out;
\* whether the lead moves is left open.
SetSpeed(l, roster, rest) ==
  /\ \/ UNCHANGED <<muState, config>>
     \/ muState[l] = "trailing" /\ running[l] /\ l \notin roster /\ Become(l, "solo")
  /\ net' = rest
  /\ UNCHANGED <<muDoc, leadIp, consistMember, running, muSum>>

\* Mutant of MemberResponse: any roster vouches for the asker.
VouchForAll(x, l, rest) ==
  net' = rest \union {Response(x, l, TRUE)} /\ UNCHANGED <<locoVars, config>>

\* muMemberResponse: the asked locomotive looks the asker up in its roster.
MemberResponse(x, l, rest) ==
  net' = rest \union {Response(x, l, l \in muDoc[x])} /\ UNCHANGED <<locoVars, config>>

\* muMemberCheck(member): the answer of the lead.
MemberAnswer(l, member, rest) ==
  /\ IF muState[l] # "trailing" THEN UNCHANGED <<muState, config, consistMember>>
     ELSE /\ consistMember' = [consistMember EXCEPT ![l] = member]
          /\ IF member THEN UNCHANGED <<muState, config>> ELSE Become(l, "solo")
  /\ net' = rest
  /\ UNCHANGED <<muDoc, leadIp, running, muSum>>

\* CommandHandler::loop for a message of another locomotive.
Receive(m, rest) ==
  \/ m.topic = "muLocoData" /\ SetPerformance(m.to, m.from, m.st, rest)
  \/ m.topic = "muQueryTrailers" /\ Report(m.to, m.from, rest)
  \/ m.topic = "startstop" /\ PmOnOff(m.to, m.on, rest)
  \/ m.topic = "muLeadStatus" /\ SetSpeed(m.to, m.consist, rest)
  \/ m.topic = "muMemberCheck" /\ MemberResponse(m.to, m.from, rest)
  \/ m.topic = "muMemberResponse" /\ MemberAnswer(m.to, m.member, rest)

-----------------------------------------------------------------------------
(* Steps.                                                                  *)

Deliver(m) == m \in net /\ Receive(m, net \ {m}) /\ UNCHANGED quiet

\* The network's faults: a message is lost, or handled now and once more later.
Lose(m) ==
  m \in net /\ ~quiet /\ net' = net \ {m} /\ UNCHANGED <<locoVars, config, quiet>>
Duplicate(m) == m \in net /\ ~quiet /\ Receive(m, net) /\ UNCHANGED quiet

\* The app's commands.
AppCommand ==
  /\ ~quiet /\ UNCHANGED quiet
  /\ \/ \E p \in Pairs : Attach(p[1], p[2], net) \/ Detach(p[1], p[2], net)
     \/ \E p \in Leads : MakeLead(p[1], p[2], net)
     \/ \E l \in Locos, on \in BOOLEAN : PmOnOff(l, on, net)

\* The status report of a lead: by loop() while it runs, or asked for by the app.
ReportStatus(x) ==
  /\ muState[x] = "lead" /\ (running[x] \/ ~quiet)
  /\ net' = net \union StatusTo(x, muDoc[x])
  /\ FailSafe(x)
  /\ UNCHANGED <<muDoc, leadIp, consistMember, running, muSum, quiet>>

\* muMemberCheck(), once a minute, on a unit that trails.
MemberCheck(l) ==
  /\ muState[l] = "trailing"
  /\ IF ~consistMember[l] THEN Become(l, "solo") /\ UNCHANGED net
     ELSE /\ UNCHANGED <<muState, config>>
          /\ net' = net \union (IF leadIp[l] = NoIp THEN {} ELSE {Check(l, leadIp[l])})
  /\ UNCHANGED <<muDoc, leadIp, consistMember, running, muSum, quiet>>

\* Power comes back: getLocoPrefs restores what flash holds.
Boot(l, image, rest) ==
  /\ config' = [config EXCEPT ![l] = image]
  /\ muState' = [muState EXCEPT ![l] = image.muState]
  /\ muDoc' = [muDoc EXCEPT ![l] = image.consist]
  /\ leadIp' = [leadIp EXCEPT ![l] = NoIp]
  /\ consistMember' = [consistMember EXCEPT ![l] = FALSE]
  /\ running' = [running EXCEPT ![l] = FALSE]
  /\ muSum' = [muSum EXCEPT ![l] = {}]
  /\ net' = IF BootOutlivesNet THEN {m \in rest : l \notin {m.from, m.to}} ELSE rest

\* Power is cut between two handlers, or in a start before its reportStatus
\* saves that the lead has become solo.
PowerCycle(l) ==
  /\ ~quiet /\ UNCHANGED quiet
  /\ \E queries \in {{}, {Query(l, k) : k \in muDoc[l]}} :
       Boot(l, config[l], net \union queries)

\* Power is cut in muSetPerformance between its saves: the first one holds the
\* new state and still the old roster.
CutOff(m) ==
  /\ m \in net /\ m.topic = "muLocoData" /\ ~quiet /\ UNCHANGED quiet
  /\ m.st # "solo" \/ RosterWith(m.to, m.from, m.st) = {}
  /\ \E rest \in {net, net \ {m}} :
       Boot(m.to, [config[m.to] EXCEPT !.muState = StateWith(m.to, m.from, m.st)],
            rest \union IF m.st # "solo" /\ running[m.to]
                        THEN {StartStop(m.to, m.from, TRUE)} ELSE {})

CalmDown == ~quiet /\ quiet' = TRUE /\ UNCHANGED <<locoVars, config, net>>

ConsistNext ==
  \/ AppCommand
  \/ \E m \in net : Deliver(m) \/ Lose(m) \/ Duplicate(m) \/ CutOff(m)
  \/ \E l \in Locos : ReportStatus(l) \/ MemberCheck(l) \/ PowerCycle(l)
  \/ CalmDown

\* The one-minute timer of every unit fires, and a message that stays on its
\* way arrives.
ConsistFairness ==
  /\ \A l \in Locos : WF_vars(MemberCheck(l))
  /\ \A m \in Messages : WF_vars(Deliver(m))
ConsistSpec == ConsistInit /\ [][ConsistNext]_vars /\ ConsistFairness

-----------------------------------------------------------------------------
(* Properties.                                                             *)

\* Every variable keeps its type.
ConsistTypeOK ==
  /\ muState \in [Locos -> {"solo", "lead", "trailing"}]
  /\ muDoc \in [Locos -> SUBSET Locos] /\ muSum \in [Locos -> SUBSET Locos]
  /\ leadIp \in [Locos -> Locos \union {NoIp}]
  /\ consistMember \in [Locos -> BOOLEAN] /\ running \in [Locos -> BOOLEAN]
  /\ config \in [Locos -> [muState : {"solo", "lead", "trailing"}, consist : SUBSET Locos]]
  /\ net \subseteq Messages /\ quiet \in BOOLEAN

\* Flash is never behind: after every handler, and after a power loss in the
\* middle of one, it holds the unit's consist state and, for a lead, its
\* roster, so that a boot restores what the unit was.  (What it was is not
\* what it stays: consistMember is false after a boot, and a unit that is not
\* told otherwise within a minute leaves its consist.)
RosterSurvives ==
  \A l \in Locos :
    /\ config[l].muState = muState[l]
    /\ muState[l] = "lead" => config[l].consist = muDoc[l]

\* A running lead computes with the horsepower and mass of exactly the units
\* its roster lists; only the app's command to lead, which sums nothing, can
\* make that untrue of a unit.
Pulls(l) == running[l] /\ muState[l] = "lead" => muSum[l] = muDoc[l]
ToldToLead(l) == \E p \in Leads : p[1] = l /\ ~quiet /\ MakeLead(l, p[2], net)
LeadPullsRoster ==
  [][\A l \in Locos : Pulls(l) => Pulls(l)' \/ ToldToLead(l)]_vars

\* "total HP of mued locos": what a running lead adds to its own horsepower
\* and mass is that of the units on its roster, however it became the lead.
LeadSumsUp == \A l \in Locos : Pulls(l)

\* Once the world is quiet, a trailing unit that its lead does not list learns
\* of it and leaves: whatever was lost, duplicated, reordered or forgotten.
OutcastsLeave ==
  <>[]quiet => <>[](\A l \in Locos : muState[l] = "trailing"
                      => \E x \in Locos : leadIp[l] = x /\ l \in muDoc[x])

\* "all received candidates will be included in loco speed status messages":
\* once the world is quiet, who trails is listed by a unit that acts as lead.
MembersHaveLead ==
  <>[]quiet => <>[](\A l \in Locos : muState[l] = "trailing"
                      => \E x \in Locos : muState[x] = "lead" /\ l \in muDoc[x])

\* "total HP of mued locos": once the world is quiet, what a running unit adds
\* to its own horsepower and mass is that of the units on its roster.
SumsSettle ==
  <>[]quiet => <>[](\A l \in Locos : running[l] /\ muState[l] # "trailing"
                      => muSum[l] = muDoc[l])

\* "Lead unit keeps track of the consist": once the world is quiet, whom a
\* lead lists trails.
NoGhosts ==
  <>[]quiet => <>[](\A x \in Locos : muState[x] = "lead"
                      => \A l \in muDoc[x] : muState[l] = "trailing")

\* "If no response from lead was received then muMemberCheck will set _muState
\* to solo": a member check sent while the previous one has had no answer.
AnswerPending(l) ==
  \/ \E m \in net : m = Check(l, leadIp[l])
  \/ \E x \in Locos, b \in BOOLEAN : Response(x, l, b) \in net
UnansweredLeaves ==
  [][\A l \in Locos : MemberCheck(l) /\ AnswerPending(l) => muState'[l] = "solo"]_vars

\* "all locos that think they are mued to a lead loco will respond ... if the
\* locoID in that message equals their lead": a unit reports to its own lead.
ReportsToOwnLead ==
  [][\A m \in net' \ net : m.topic = "muLocoData" /\ m.st = "trailing"
       => leadIp'[m.from] = m.to]_vars
=============================================================================
