---------------------------- MODULE ConsistProofs ----------------------------
(***************************************************************************)
(* Consist keeps its types and its flash up to date, and what a running    *)
(* lead pulls stays equal to its roster until the app tells it to lead,    *)
(* for any number of locomotives, attachments and commands, with the power *)
(* lost between and in the middle of handlers.                             *)
(*                                                                         *)
(* The handlers run on typed messages that name two different locomotives. *)
(* That every message is such a one rests on no roster, in memory or in    *)
(* flash, listing its owner, and on no trailing unit having itself as      *)
(* lead: Apart.  A unit told to lead may have its own address as its       *)
(* lead's; it does not ask anybody, and who joins gets another address.    *)
(***************************************************************************)
EXTENDS Consist, TLAPS

Apart ==
  \A l \in Locos :
    /\ l \notin muDoc[l] /\ l \notin config[l].consist
    /\ muState[l] = "trailing" => leadIp[l] # l
CInv == ConsistTypeOK /\ Apart /\ RosterSurvives

\* The initial state satisfies the invariant.
LEMMA InitCInv == ConsistInit => CInv
<1> SUFFICES ASSUME ConsistInit PROVE CInv
  OBVIOUS
<1>1. ConsistTypeOK
  BY DEF ConsistInit, ConsistTypeOK
<1>2. Apart
  BY PairsAssumption DEF ConsistInit, Apart
<1>3. RosterSurvives
  BY DEF ConsistInit, RosterSurvives
<1>. QED  BY <1>1, <1>2, <1>3 DEF CInv

\* Every message a handler sends is in Messages.
LEMMA MessagesTyped ==
  ASSUME NEW l \in Locos, NEW x \in Locos, l # x, NEW b \in BOOLEAN,
         NEW roster \in SUBSET Locos
  PROVE  /\ Data(l, x, "trailing") \in Messages /\ Data(l, x, "solo") \in Messages
         /\ Query(x, l) \in Messages /\ Check(l, x) \in Messages
         /\ StartStop(x, l, b) \in Messages /\ LeadStatus(x, l, roster) \in Messages
         /\ Response(x, l, b) \in Messages
BY DEF Data, Query, Check, StartStop, LeadStatus, Response, Messages

\* A status report goes to typed messages only, if the roster does not list
\* its owner.
LEMMA StatusTyped ==
  ASSUME NEW x \in Locos, NEW roster \in SUBSET (Locos \ {x})
  PROVE  StatusTo(x, roster) \subseteq Messages
<1>1. \A l \in roster : l \in Locos /\ l # x /\ roster \in SUBSET Locos
  OBVIOUS
<1>2. \A l \in roster : LeadStatus(x, l, roster) \in Messages
  BY <1>1, MessagesTyped
<1>. QED  BY <1>2 DEF StatusTo

\* muSetState keeps the invariant, joining or leaving.
LEMMA AttachInv ==
  ASSUME CInv, NEW l \in Locos, NEW x \in Locos, l # x, NEW rest \in SUBSET Messages,
         quiet' \in BOOLEAN, Attach(l, x, rest)
  PROVE  CInv'
<1>1. ConsistTypeOK'
  BY MessagesTyped DEF CInv, ConsistTypeOK, Attach, Become
<1>2. Apart'
  BY DEF CInv, ConsistTypeOK, Apart, Attach, Become
<1>3. RosterSurvives'
  BY DEF CInv, ConsistTypeOK, RosterSurvives, Attach, Become
<1>. QED  BY <1>1, <1>2, <1>3 DEF CInv

\* Leaving keeps the invariant: the state and flash change together.
LEMMA DetachInv ==
  ASSUME CInv, NEW l \in Locos, NEW x \in Locos, l # x, NEW rest \in SUBSET Messages,
         quiet' \in BOOLEAN, Detach(l, x, rest)
  PROVE  CInv'
<1>1. ConsistTypeOK'
  BY MessagesTyped DEF CInv, ConsistTypeOK, Detach, Become
<1>2. Apart'
  BY DEF CInv, ConsistTypeOK, Apart, Detach, Become
<1>3. RosterSurvives'
  BY DEF CInv, ConsistTypeOK, RosterSurvives, Detach, Become
<1>. QED  BY <1>1, <1>2, <1>3 DEF CInv

\* Being told to lead keeps it: what is read back is what is stored.
LEMMA MakeLeadInv ==
  ASSUME CInv, NEW l \in Locos, NEW x \in Locos, NEW rest \in SUBSET Messages,
         quiet' \in BOOLEAN, MakeLead(l, x, rest)
  PROVE  CInv'
<1>1. ConsistTypeOK'
  BY DEF CInv, ConsistTypeOK, MakeLead, Become
<1>2. Apart'
  BY DEF CInv, ConsistTypeOK, Apart, MakeLead, Become
<1>3. RosterSurvives'
  BY DEF CInv, ConsistTypeOK, RosterSurvives, MakeLead, Become
<1>. QED  BY <1>1, <1>2, <1>3 DEF CInv

\* The roster that muSetPerformance makes never lists its owner, and the state
\* it takes is trailing only for a unit that trailed.
LEMMA PerformanceTypes ==
  ASSUME CInv, NEW x \in Locos, NEW l \in Locos, l # x, NEW st \in {"solo", "trailing"}
  PROVE  /\ RosterWith(x, l, st) \in SUBSET (Locos \ {x})
         /\ StateWith(x, l, st) \in {"solo", "lead", "trailing"}
         /\ StateWith(x, l, st) = "trailing" => muState[x] = "trailing"
  BY DEF CInv, ConsistTypeOK, Apart, RosterWith, StateWith

\* muSetPerformance keeps the invariant: it stores the roster and the state
\* that it has just made.
LEMMA SetPerformanceInv ==
  ASSUME CInv, NEW x \in Locos, NEW l \in Locos, l # x, NEW st \in {"solo", "trailing"},
         NEW rest \in SUBSET Messages, quiet' \in BOOLEAN, SetPerformance(x, l, st, rest)
  PROVE  CInv'
<1> DEFINE roster == RosterWith(x, l, st)
           newState == StateWith(x, l, st)
<1>0. /\ roster \in SUBSET (Locos \ {x})
      /\ newState \in {"solo", "lead", "trailing"}
      /\ newState = "trailing" => muState[x] = "trailing"
  BY PerformanceTypes
<1>1. /\ muState' = [muState EXCEPT ![x] = newState]
      /\ muDoc' = [muDoc EXCEPT ![x] = roster]
      /\ config' = [config EXCEPT ![x] = [muState |-> newState, consist |-> roster]]
      /\ muSum' = [muSum EXCEPT ![x] = IF newState = "solo" THEN {} ELSE roster]
      /\ UNCHANGED <<leadIp, consistMember, running>>
  BY DEF SetPerformance, Summed
<1>2. net' \subseteq Messages
  <2>1. StatusTo(x, roster) \subseteq Messages  BY <1>0, StatusTyped
  <2>2. StartStop(x, l, TRUE) \in Messages /\ StartStop(x, l, FALSE) \in Messages
    BY MessagesTyped
  <2>. QED  BY <2>1, <2>2 DEF SetPerformance
<1> HIDE DEF roster, newState
<1>3. ConsistTypeOK'
  BY <1>0, <1>1, <1>2 DEF CInv, ConsistTypeOK
<1>4. Apart'
  BY <1>0, <1>1 DEF CInv, ConsistTypeOK, Apart
<1>5. RosterSurvives'
  BY <1>0, <1>1 DEF CInv, ConsistTypeOK, RosterSurvives
<1>. QED  BY <1>3, <1>4, <1>5 DEF CInv

\* pmOnOff keeps the invariant: a lead that forgets its roster is no lead.
LEMMA PmOnOffInv ==
  ASSUME CInv, NEW x \in Locos, NEW on \in BOOLEAN, NEW rest \in SUBSET Messages,
         quiet' \in BOOLEAN, PmOnOff(x, on, rest)
  PROVE  CInv'
<1>0. muDoc[x] \in SUBSET (Locos \ {x})
  BY DEF CInv, ConsistTypeOK, Apart
<1>1. net' \subseteq Messages
  <2>1. \A l \in muDoc[x] : Query(x, l) \in Messages /\ StartStop(x, l, FALSE) \in Messages
    BY <1>0, MessagesTyped
  <2>2. StatusTo(x, muDoc[x]) \subseteq Messages  BY <1>0, StatusTyped
  <2>3. CASE on
    <3>1. net' = rest \union {Query(x, l) : l \in muDoc[x]}
      BY <2>3 DEF PmOnOff
    <3>2. {Query(x, l) : l \in muDoc[x]} \subseteq Messages
      BY <2>1
    <3>. QED  BY <3>1, <3>2
  <2>4. CASE ~on
    <3>1. CASE muState[x] = "lead"
      BY <2>1, <2>2, <2>4, <3>1 DEF PmOnOff
    <3>2. CASE muState[x] # "lead"
      BY <2>4, <3>2 DEF PmOnOff
    <3>. QED  BY <3>1, <3>2
  <2>. QED  BY <2>3, <2>4
<1>2. /\ UNCHANGED <<leadIp, consistMember, muSum>>
      /\ running' = [running EXCEPT ![x] = on]
  BY DEF PmOnOff
<1>3. CASE on
  <2>1. muDoc' = [muDoc EXCEPT ![x] = {}]
    BY <1>3 DEF PmOnOff
  <2>2. CASE muState[x] = "lead"
    <3>1. /\ muState' = [muState EXCEPT ![x] = "solo"]
          /\ config' = [config EXCEPT ![x].muState = "solo"]
      BY <1>3, <2>2 DEF PmOnOff, Become
    <3>2. ConsistTypeOK'
      BY <1>1, <1>2, <2>1, <3>1 DEF CInv, ConsistTypeOK
    <3>3. Apart' /\ RosterSurvives'
      BY <1>2, <2>1, <3>1 DEF CInv, ConsistTypeOK, Apart, RosterSurvives
    <3>. QED  BY <3>2, <3>3 DEF CInv
  <2>3. CASE muState[x] # "lead"
    <3>1. UNCHANGED <<muState, config>>
      BY <1>3, <2>3 DEF PmOnOff
    <3>2. ConsistTypeOK'
      BY <1>1, <1>2, <2>1, <3>1 DEF CInv, ConsistTypeOK
    <3>3. Apart' /\ RosterSurvives'
      BY <1>2, <2>1, <2>3, <3>1 DEF CInv, ConsistTypeOK, Apart, RosterSurvives
    <3>. QED  BY <3>2, <3>3 DEF CInv
  <2>. QED  BY <2>2, <2>3
<1>4. CASE ~on
  <2>1. UNCHANGED muDoc /\ FailSafe(x)
    BY <1>4 DEF PmOnOff
  <2>2. CASE UNCHANGED <<muState, config>>
    <3>1. ConsistTypeOK'
      BY <1>1, <1>2, <2>1, <2>2 DEF CInv, ConsistTypeOK
    <3>2. Apart' /\ RosterSurvives'
      BY <1>2, <2>1, <2>2 DEF CInv, ConsistTypeOK, Apart, RosterSurvives
    <3>. QED  BY <3>1, <3>2 DEF CInv
  <2>3. CASE Become(x, "solo")
    <3>1. /\ muState' = [muState EXCEPT ![x] = "solo"]
          /\ config' = [config EXCEPT ![x].muState = "solo"]
      BY <2>3 DEF Become
    <3>2. ConsistTypeOK'
      BY <1>1, <1>2, <2>1, <3>1 DEF CInv, ConsistTypeOK
    <3>3. Apart' /\ RosterSurvives'
      BY <1>2, <2>1, <3>1 DEF CInv, ConsistTypeOK, Apart, RosterSurvives
    <3>. QED  BY <3>2, <3>3 DEF CInv
  <2>. QED  BY <2>1, <2>2, <2>3 DEF FailSafe
<1>. QED  BY <1>3, <1>4

\* A unit that leaves by itself and stores that keeps the invariant.
LEMMA LeaveInv ==
  ASSUME CInv, NEW l \in Locos, quiet' \in BOOLEAN, net' \subseteq Messages,
         consistMember' \in [Locos -> BOOLEAN],
         \/ UNCHANGED <<muState, config>>
         \/ Become(l, "solo"),
         UNCHANGED <<muDoc, leadIp, running, muSum>>
  PROVE  CInv'
<1>1. CASE UNCHANGED <<muState, config>>
  BY <1>1 DEF CInv, ConsistTypeOK, Apart, RosterSurvives
<1>2. CASE Become(l, "solo")
  <2>1. ConsistTypeOK'
    BY <1>2 DEF CInv, ConsistTypeOK, Become
  <2>2. Apart' /\ RosterSurvives'
    BY <1>2 DEF CInv, ConsistTypeOK, Apart, RosterSurvives, Become
  <2>. QED  BY <2>1, <2>2 DEF CInv
<1>. QED  BY <1>1, <1>2

\* Every message handler keeps the invariant.
LEMMA ReceiveInv ==
  ASSUME CInv, NEW m \in Messages, NEW rest \in SUBSET Messages, quiet' \in BOOLEAN,
         Receive(m, rest)
  PROVE  CInv'
<1>0. m.to \in Locos /\ m.from \in Locos /\ m.to # m.from
  BY DEF Messages
<1>1. CASE m.topic = "muLocoData" /\ SetPerformance(m.to, m.from, m.st, rest)
  <2>1. m.st \in {"solo", "trailing"}  BY <1>1 DEF Messages
  <2>. QED  BY <1>0, <1>1, <2>1, SetPerformanceInv
<1>2. CASE m.topic = "muQueryTrailers" /\ Report(m.to, m.from, rest)
  <2>1. net' \subseteq Messages  BY <1>0, <1>2, MessagesTyped DEF Report
  <2>. QED  BY <1>0, <1>2, <2>1, LeaveInv DEF Report, locoVars, CInv, ConsistTypeOK
<1>3. CASE m.topic = "startstop" /\ PmOnOff(m.to, m.on, rest)
  <2>1. m.on \in BOOLEAN  BY <1>3 DEF Messages
  <2>. QED  BY <1>0, <1>3, <2>1, PmOnOffInv
<1>4. CASE m.topic = "muLeadStatus" /\ SetSpeed(m.to, m.consist, rest)
  BY <1>0, <1>4, LeaveInv DEF SetSpeed, CInv, ConsistTypeOK
<1>5. CASE m.topic = "muMemberCheck" /\ MemberResponse(m.to, m.from, rest)
  <2>0. (m.from \in muDoc[m.to]) \in BOOLEAN  OBVIOUS
  <2>1. net' \subseteq Messages
    <3>1. Response(m.to, m.from, m.from \in muDoc[m.to]) \in Messages
      BY <1>0, <2>0, MessagesTyped
    <3>. QED  BY <1>5, <3>1 DEF MemberResponse
  <2>. QED  BY <1>0, <1>5, <2>1, LeaveInv DEF MemberResponse, locoVars, CInv, ConsistTypeOK
<1>6. CASE m.topic = "muMemberResponse" /\ MemberAnswer(m.to, m.member, rest)
  <2>1. m.member \in BOOLEAN  BY <1>6 DEF Messages
  <2>2. net' \subseteq Messages /\ consistMember' \in [Locos -> BOOLEAN]
    BY <1>0, <1>6, <2>1 DEF MemberAnswer, CInv, ConsistTypeOK
  <2>. QED  BY <1>0, <1>6, <2>2, LeaveInv DEF MemberAnswer
<1>. QED  BY <1>1, <1>2, <1>3, <1>4, <1>5, <1>6 DEF Receive

\* A boot keeps the invariant, from any image of flash with a roster that does
\* not list its owner.
LEMMA BootInv ==
  ASSUME CInv, NEW l \in Locos, NEW rest \in SUBSET Messages, quiet' \in BOOLEAN,
         NEW image \in [muState : {"solo", "lead", "trailing"}, consist : SUBSET Locos],
         l \notin image.consist, Boot(l, image, rest)
  PROVE  CInv'
<1>1. ConsistTypeOK'
  BY DEF CInv, ConsistTypeOK, Boot
<1>2. Apart'
  BY PairsAssumption DEF CInv, ConsistTypeOK, Apart, Boot
<1>3. RosterSurvives'
  BY DEF CInv, ConsistTypeOK, RosterSurvives, Boot
<1>. QED  BY <1>1, <1>2, <1>3 DEF CInv

\* A power loss between two handlers, or before a start's reportStatus.
LEMMA PowerCycleInv == ASSUME CInv, NEW l \in Locos, PowerCycle(l) PROVE CInv'
<1>1. quiet' \in BOOLEAN /\ net \subseteq Messages
  BY DEF PowerCycle, CInv, ConsistTypeOK
<1>2. muDoc[l] \in SUBSET (Locos \ {l})
  BY DEF CInv, ConsistTypeOK, Apart
<1>3. {Query(l, k) : k \in muDoc[l]} \subseteq Messages
  <2>1. \A k \in muDoc[l] : k \in Locos /\ k # l
    BY <1>2
  <2>2. \A k \in muDoc[l] : Query(l, k) \in Messages
    BY <2>1, MessagesTyped
  <2>. QED  BY <2>2
<1>4. PICK rest \in SUBSET Messages : Boot(l, config[l], rest)
  <2>1. PICK queries \in {{}, {Query(l, k) : k \in muDoc[l]}} :
          Boot(l, config[l], net \union queries)
    BY DEF PowerCycle
  <2>2. net \union queries \in SUBSET Messages
    BY <1>1, <1>3
  <2>. QED  BY <2>1, <2>2
<1>5. /\ config[l] \in [muState : {"solo", "lead", "trailing"}, consist : SUBSET Locos]
      /\ l \notin config[l].consist
  BY DEF CInv, ConsistTypeOK, Apart
<1>. QED  BY <1>1, <1>4, <1>5, BootInv

\* A power loss between the saves of muSetPerformance: the new state comes back
\* with the old roster.
LEMMA CutOffInv == ASSUME CInv, NEW m \in Messages, CutOff(m) PROVE CInv'
<1> DEFINE new == StateWith(m.to, m.from, m.st)
           image == [config[m.to] EXCEPT !.muState = new]
           started == IF m.st # "solo" /\ running[m.to]
                      THEN {StartStop(m.to, m.from, TRUE)} ELSE {}
<1>1. /\ m.to \in Locos /\ m.from \in Locos /\ m.to # m.from
      /\ m.st \in {"solo", "trailing"}
  BY DEF CutOff, Messages
<1>2. new \in {"solo", "lead", "trailing"}
  BY <1>1, PerformanceTypes
<1>3. quiet' \in BOOLEAN /\ net \subseteq Messages
  BY DEF CutOff, CInv, ConsistTypeOK
<1>4. started \subseteq Messages
  BY <1>1, MessagesTyped
<1>5. PICK rest \in {net, net \ {m}} : Boot(m.to, image, rest \union started)
  BY DEF CutOff
<1>6. rest \union started \in SUBSET Messages
  BY <1>3, <1>4
<1> HIDE DEF new, started
<1>7. /\ image \in [muState : {"solo", "lead", "trailing"}, consist : SUBSET Locos]
      /\ m.to \notin image.consist
  BY <1>1, <1>2 DEF CInv, ConsistTypeOK, Apart
<1> HIDE DEF image
<1>. QED  BY <1>1, <1>3, <1>5, <1>6, <1>7, BootInv

\* Every step keeps the invariant.
LEMMA StepCInv == CInv /\ [ConsistNext]_vars => CInv'
<1> SUFFICES ASSUME CInv, [ConsistNext]_vars PROVE CInv'
  OBVIOUS
<1>0. quiet \in BOOLEAN /\ net \subseteq Messages
  BY DEF CInv, ConsistTypeOK
<1>1. CASE AppCommand
  <2>1. \A p \in Pairs : p[1] \in Locos /\ p[2] \in Locos /\ p[1] # p[2]
    BY PairsAssumption
  <2>2. quiet' \in BOOLEAN  BY <1>0, <1>1 DEF AppCommand
  <2>3. ASSUME NEW p \in Pairs, Attach(p[1], p[2], net) PROVE CInv'
    BY <1>0, <2>1, <2>2, <2>3, AttachInv
  <2>4. ASSUME NEW p \in Pairs, Detach(p[1], p[2], net) PROVE CInv'
    BY <1>0, <2>1, <2>2, <2>4, DetachInv
  <2>5. ASSUME NEW l \in Locos, NEW on \in BOOLEAN, PmOnOff(l, on, net) PROVE CInv'
    BY <1>0, <2>2, <2>5, PmOnOffInv
  <2>6. ASSUME NEW p \in Leads, MakeLead(p[1], p[2], net) PROVE CInv'
    <3>1. p[1] \in Locos /\ p[2] \in Locos
      BY PairsAssumption
    <3>. QED  BY <1>0, <2>2, <2>6, <3>1, MakeLeadInv
  <2>. QED  BY <1>1, <2>3, <2>4, <2>5, <2>6 DEF AppCommand
<1>2. ASSUME NEW m \in net, Deliver(m) PROVE CInv'
  BY <1>0, <1>2, ReceiveInv DEF Deliver
<1>3. ASSUME NEW m \in net, Lose(m) PROVE CInv'
  BY <1>0, <1>3 DEF Lose, locoVars, CInv, ConsistTypeOK, Apart, RosterSurvives
<1>4. ASSUME NEW m \in net, Duplicate(m) PROVE CInv'
  BY <1>0, <1>4, ReceiveInv DEF Duplicate
<1>5. ASSUME NEW l \in Locos, ReportStatus(l) PROVE CInv'
  <2>1. muDoc[l] \in SUBSET (Locos \ {l})  BY DEF CInv, ConsistTypeOK, Apart
  <2>2. net' \subseteq Messages  BY <1>0, <1>5, <2>1, StatusTyped DEF ReportStatus
  <2>. QED  BY <1>0, <1>5, <2>2, LeaveInv DEF ReportStatus, FailSafe, CInv, ConsistTypeOK
<1>6. ASSUME NEW l \in Locos, MemberCheck(l) PROVE CInv'
  <2>1. leadIp[l] # NoIp => leadIp[l] \in Locos /\ leadIp[l] # l
    BY <1>6 DEF MemberCheck, CInv, ConsistTypeOK, Apart
  <2>2. net' \subseteq Messages  BY <1>0, <1>6, <2>1, MessagesTyped DEF MemberCheck
  <2>. QED  BY <1>0, <1>6, <2>2, LeaveInv DEF MemberCheck, CInv, ConsistTypeOK
<1>7. ASSUME NEW l \in Locos, PowerCycle(l) PROVE CInv'
  BY <1>7, PowerCycleInv
<1>10. ASSUME NEW m \in net, CutOff(m) PROVE CInv'
  BY <1>0, <1>10, CutOffInv
<1>8. CASE CalmDown
  BY <1>8 DEF CalmDown, locoVars, CInv, ConsistTypeOK, Apart, RosterSurvives
<1>9. CASE UNCHANGED vars
  BY <1>9 DEF vars, locoVars, CInv, ConsistTypeOK, Apart, RosterSurvives
<1>. QED  BY <1>1, <1>2, <1>3, <1>4, <1>5, <1>6, <1>7, <1>8, <1>9, <1>10 DEF ConsistNext

\* The invariant holds in every reachable state.
LEMMA ConsistInductive == ConsistSpec => []CInv
BY InitCInv, StepCInv, PTL DEF ConsistSpec

\* Every variable keeps its type, and every message names two locomotives.
THEOREM ConsistTypeCorrect == ConsistSpec => []ConsistTypeOK
BY ConsistInductive, PTL DEF CInv

\* Flash is never behind: after every handler, and after a power loss between
\* its saves, it holds the unit's state and, for a lead, its roster.
THEOREM FlashUpToDate == ConsistSpec => []RosterSurvives
BY ConsistInductive, PTL DEF CInv

-----------------------------------------------------------------------------
(* What a lead pulls.                                                      *)

\* A handler that does not make l a running lead, and leaves its roster and
\* sums if it is one, keeps what it pulls.
LEMMA PullsKept ==
  ASSUME NEW l \in Locos, Pulls(l),
         \/ ~running'[l]
         \/ muState'[l] # "lead"
         \/ /\ running'[l] = running[l] /\ muState'[l] = muState[l]
            /\ muDoc'[l] = muDoc[l] /\ muSum'[l] = muSum[l]
         \/ muSum'[l] = muDoc'[l]
  PROVE  Pulls(l)'
  BY DEF Pulls

\* The handlers of messages keep what every lead pulls.
LEMMA ReceivePulls ==
  ASSUME CInv, NEW m \in Messages, NEW rest, Receive(m, rest), NEW l \in Locos, Pulls(l)
  PROVE  Pulls(l)'
<1> USE DEF CInv, ConsistTypeOK
<1>0. m.to \in Locos /\ m.from \in Locos
  BY DEF Messages
<1>1. CASE m.topic = "muLocoData" /\ SetPerformance(m.to, m.from, m.st, rest)
  <2> DEFINE roster == RosterWith(m.to, m.from, m.st)
             newState == StateWith(m.to, m.from, m.st)
  <2>1. /\ muState' = [muState EXCEPT ![m.to] = newState]
        /\ muDoc' = [muDoc EXCEPT ![m.to] = roster]
        /\ muSum' = [muSum EXCEPT ![m.to] = IF newState = "solo" THEN {} ELSE roster]
        /\ UNCHANGED running
    BY <1>1 DEF SetPerformance, Summed
  <2> HIDE DEF roster, newState
  <2>. QED  BY <1>0, <2>1, PullsKept
<1>2. CASE m.topic = "startstop" /\ PmOnOff(m.to, m.on, rest)
  <2>1. m.on \in BOOLEAN  BY <1>2 DEF Messages
  <2>2. CASE l = m.to
    BY <1>0, <1>2, <2>1, <2>2, PullsKept DEF PmOnOff, Become
  <2>3. CASE l # m.to
    BY <1>0, <1>2, <2>1, <2>3, PullsKept DEF PmOnOff, Become, FailSafe
  <2>. QED  BY <2>2, <2>3
<1>3. CASE \/ m.topic = "muQueryTrailers" /\ Report(m.to, m.from, rest)
           \/ m.topic = "muMemberCheck" /\ MemberResponse(m.to, m.from, rest)
  BY <1>3, PullsKept DEF Report, MemberResponse, locoVars
<1>4. CASE m.topic = "muLeadStatus" /\ SetSpeed(m.to, m.consist, rest)
  BY <1>0, <1>4, PullsKept DEF SetSpeed, Become
<1>5. CASE m.topic = "muMemberResponse" /\ MemberAnswer(m.to, m.member, rest)
  BY <1>0, <1>5, PullsKept DEF MemberAnswer, Become
<1>. QED  BY <1>1, <1>2, <1>3, <1>4, <1>5 DEF Receive

\* Every step but the app's command to lead keeps what every lead pulls.
LEMMA StepPulls ==
  ASSUME CInv, ConsistNext, NEW l \in Locos, Pulls(l), ~ToldToLead(l)
  PROVE  Pulls(l)'
<1> USE DEF CInv, ConsistTypeOK
<1>1. CASE AppCommand
  <2>1. \A p \in Pairs : p[1] \in Locos /\ p[2] \in Locos
    BY PairsAssumption
  <2>2. ASSUME NEW p \in Pairs, Attach(p[1], p[2], net) \/ Detach(p[1], p[2], net)
        PROVE  Pulls(l)'
    BY <2>1, <2>2, PullsKept DEF Attach, Detach, Become
  <2>3. ASSUME NEW p \in Leads, MakeLead(p[1], p[2], net) PROVE Pulls(l)'
    <3>1. p[1] # l
      BY <1>1, <2>3 DEF ToldToLead, AppCommand
    <3>2. p[1] \in Locos
      BY PairsAssumption
    <3>. QED  BY <2>3, <3>1, <3>2, PullsKept DEF MakeLead, Become
  <2>4. ASSUME NEW x \in Locos, NEW on \in BOOLEAN, PmOnOff(x, on, net) PROVE Pulls(l)'
    <3>1. CASE l = x
      BY <2>4, <3>1, PullsKept DEF PmOnOff, Become
    <3>2. CASE l # x
      BY <2>4, <3>2, PullsKept DEF PmOnOff, Become, FailSafe
    <3>. QED  BY <3>1, <3>2
  <2>. QED  BY <1>1, <2>2, <2>3, <2>4 DEF AppCommand
<1>2. ASSUME NEW m \in net, Deliver(m) \/ Duplicate(m) PROVE Pulls(l)'
  BY <1>2, ReceivePulls DEF Deliver, Duplicate
<1>3. ASSUME NEW m \in net, Lose(m) PROVE Pulls(l)'
  BY <1>3, PullsKept DEF Lose, locoVars
<1>4. ASSUME NEW x \in Locos, ReportStatus(x) PROVE Pulls(l)'
  BY <1>4, PullsKept DEF ReportStatus, FailSafe, Become
<1>5. ASSUME NEW x \in Locos, MemberCheck(x) PROVE Pulls(l)'
  BY <1>5, PullsKept DEF MemberCheck, Become
<1>6. ASSUME NEW x \in Locos, NEW image, NEW rest, Boot(x, image, rest) PROVE Pulls(l)'
  BY <1>6, PullsKept DEF Boot
<1>7. ASSUME NEW x \in Locos, PowerCycle(x) PROVE Pulls(l)'
  BY <1>6, <1>7 DEF PowerCycle
<1>8. ASSUME NEW m \in net, CutOff(m) PROVE Pulls(l)'
  <2>1. m.to \in Locos  BY DEF Messages
  <2>. QED  BY <1>6, <1>8, <2>1 DEF CutOff
<1>9. CASE CalmDown
  BY <1>9, PullsKept DEF CalmDown, locoVars
<1>. QED  BY <1>1, <1>2, <1>3, <1>4, <1>5, <1>7, <1>8, <1>9 DEF ConsistNext

\* What a running lead pulls stays the sum of its roster, whatever the network,
\* the other units and power losses do, until the app tells that unit to lead.
THEOREM LeadPulls == ConsistSpec => LeadPullsRoster
<1>1. CInv /\ [ConsistNext]_vars
        => [\A l \in Locos : Pulls(l) => Pulls(l)' \/ ToldToLead(l)]_vars
  BY StepPulls
<1>. QED  BY <1>1, ConsistInductive, PTL DEF ConsistSpec, LeadPullsRoster

\* Where the app never tells a unit to lead, a running lead always computes
\* with exactly the units its roster lists.
THEOREM LeadsSumUp ==
  ASSUME Leads = {}
  PROVE  ConsistSpec => []LeadSumsUp
<1>1. ConsistInit => LeadSumsUp
  BY DEF ConsistInit, LeadSumsUp, Pulls
<1>2. LeadSumsUp /\ CInv /\ [ConsistNext]_vars => LeadSumsUp'
  <2>1. CASE ConsistNext
    <3>1. \A l \in Locos : ~ToldToLead(l)
      BY DEF ToldToLead
    <3>. QED  BY <2>1, <3>1, StepPulls DEF LeadSumsUp
  <2>2. CASE UNCHANGED vars
    BY <2>2 DEF vars, locoVars, LeadSumsUp, Pulls
  <2>. QED  BY <2>1, <2>2
<1>. QED  BY <1>1, <1>2, ConsistInductive, PTL DEF ConsistSpec
=============================================================================
