----------------------------- MODULE WiFiPortal -----------------------------
(***************************************************************************)
(* How a unit gets on the air (WiFiConfigurator.cpp), on top of the store  *)
(* that keeps its credentials.  begin(), called by setup(), tries the      *)
(* saved network for ten seconds and falls back on an access point of its  *)
(* own with a portal; the portal's page lists networks and posts the       *)
(* user's choice, which is saved before the unit restarts.  handle(),      *)
(* stopPortal and restartPortal, which would end the portal, have no       *)
(* caller.                                                                 *)
(*                                                                         *)
(* The radio is external: a station is linked only to a network that is in *)
(* the air, and reconnects by itself while it stays a station.  A network  *)
(* is a value of the setting "ssid", 0 the empty name.  `chosen` is a      *)
(* history variable: the network of the last answered /connect, unknown    *)
(* when its save was disturbed.                                            *)
(***************************************************************************)
EXTENDS ConfigStore

CONSTANT MaxChanges      \* bound of the changes of the air

\* The mileage is left to ConfigStore: it has nothing to do with the radio.
ASSUME PortalAssumption ==
  MaxChanges \in Nat /\ "odometer" \notin Keys /\ "ssid" \in Keys

Networks == Values \ {0}
Unknown == -1

VARIABLES mode,          \* WiFi.mode: "off", "sta" or "ap"
          joined,        \* the network WiFi.begin was called with, 0 none
          link,          \* WiFi.status() = WL_CONNECTED
          begun,         \* begin() has returned
          portalActive,
          scan,          \* scanComplete: "none" (-2), "running" (-1) or "done"
          air, changes,
          chosen

wifi == <<mode, joined, link, begun, portalActive, scan>>
portalVars == <<vars, wifi, air, changes, chosen>>

RadioOff ==
  /\ mode' = "off" /\ joined' = 0 /\ link' = FALSE /\ begun' = FALSE
  /\ portalActive' = FALSE /\ scan' = "none"

PortalInit ==
  /\ ConfigInit
  /\ mode = "off" /\ joined = 0 /\ link = FALSE /\ begun = FALSE
  /\ portalActive = FALSE /\ scan = "none"
  /\ air \in SUBSET Networks /\ changes = 0 /\ chosen = Unknown

-----------------------------------------------------------------------------
(* begin().                                                                *)

InBegin == stage = "setup" /\ Quiet /\ ~begun

\* Mutant of JoinSaved: the radio picks a network.
JoinAny ==
  /\ InBegin /\ mode = "off" /\ config["ssid"] # 0
  /\ mode' = "sta" /\ joined' \in Networks
  /\ UNCHANGED <<vars, link, begun, portalActive, scan, air, changes, chosen>>

\* connectToSavedHouseAP finds a name: connectSTA.
JoinSaved ==
  /\ InBegin /\ mode = "off" /\ config["ssid"] # 0
  /\ mode' = "sta" /\ joined' = config["ssid"]
  /\ UNCHANGED <<vars, link, begun, portalActive, scan, air, changes, chosen>>

Joined ==
  /\ InBegin /\ mode = "sta" /\ link /\ begun' = TRUE
  /\ UNCHANGED <<vars, mode, joined, link, portalActive, scan, air, changes, chosen>>

\* Mutants of OpenPortal: begin() does not notice its own portal; it waits
\* for the network without a limit.
OpenPortalUnnoticed ==
  /\ InBegin /\ ~link
  /\ mode = "sta" \/ config["ssid"] = 0
  /\ mode' = "ap" /\ joined' = 0 /\ begun' = TRUE
  /\ UNCHANGED <<vars, link, portalActive, scan, air, changes, chosen>>

OpenPortalUnnamed ==
  /\ InBegin /\ ~link
  /\ config["ssid"] = 0
  /\ mode' = "ap" /\ joined' = 0 /\ portalActive' = TRUE /\ begun' = TRUE
  /\ UNCHANGED <<vars, link, scan, air, changes, chosen>>

\* No name, or ten seconds without a link: startSoftAP.
OpenPortal ==
  /\ InBegin /\ ~link
  /\ mode = "sta" \/ config["ssid"] = 0
  /\ mode' = "ap" /\ joined' = 0 /\ portalActive' = TRUE /\ begun' = TRUE
  /\ UNCHANGED <<vars, link, scan, air, changes, chosen>>

-----------------------------------------------------------------------------
(* The radio and its surroundings.                                         *)

AirChanges ==
  /\ changes < MaxChanges /\ changes' = changes + 1
  /\ \E n \in Networks : air' = IF n \in air THEN air \ {n} ELSE air \union {n}
  /\ UNCHANGED <<vars, wifi, chosen>>

Associate ==
  /\ mode = "sta" /\ ~link /\ joined \in air /\ link' = TRUE
  /\ UNCHANGED <<vars, mode, joined, begun, portalActive, scan, air, changes, chosen>>

LoseLink ==
  /\ link /\ joined \notin air /\ link' = FALSE
  /\ UNCHANGED <<vars, mode, joined, begun, portalActive, scan, air, changes, chosen>>

ScanDone ==
  /\ scan = "running" /\ scan' = "done"
  /\ UNCHANGED <<vars, mode, joined, link, begun, portalActive, air, changes, chosen>>

-----------------------------------------------------------------------------
(* The requests of the portal's page.                                      *)

\* handleAPlist: starts a scan, answers that it is not done, or delivers it.
Poll ==
  /\ Serving("web") /\ pc["web"] = "idle" /\ scan # "running"
  /\ scan' = IF scan = "none" THEN "running" ELSE "none"
  /\ UNCHANGED <<vars, mode, joined, link, begun, portalActive, air, changes, chosen>>

-----------------------------------------------------------------------------
(* The store, as the radio sees it.                                        *)

Boot ==
  /\ PowerOn \/ (begun /\ Serve) \/ SetupPrefs
  /\ UNCHANGED <<wifi, air, changes, chosen>>

\* A handler begins; handleConnect refuses an empty name.
Names(w) == "ssid" \in DOMAIN w

Handle(t) ==
  \E h \in Active : \E w \in Wishes(h) :
    /\ Begin(t, h, w) /\ (Names(w) => w["ssid"] # 0)
    /\ chosen' = IF Names(w) THEN Unknown ELSE chosen
    /\ UNCHANGED <<wifi, air, changes>>

\* A handler goes on; the choice is known once its save is closed, and the
\* radio goes down with a restart.
GoOn(t) ==
  /\ Work(t)
  /\ IF stage' = "off" THEN RadioOff ELSE UNCHANGED wifi
  /\ chosen' = IF Names(job[t]) /\ pc[t] = "write" /\ pc'[t] = "answer" /\ ~disturbed
                 THEN job[t]["ssid"] ELSE chosen
  /\ UNCHANGED <<air, changes>>

LosePower == PowerLoss /\ RadioOff /\ UNCHANGED <<air, changes, chosen>>

PortalNext ==
  \/ JoinSaved \/ Joined \/ OpenPortal
  \/ AirChanges \/ Associate \/ LoseLink \/ ScanDone
  \/ Poll \/ Boot \/ LosePower
  \/ \E t \in Tasks : Handle(t) \/ GoOn(t)

\* The processor runs setup() and the handlers; the radio notices what is in
\* the air and ends its scans; the page polls.
PortalSpec ==
  /\ PortalInit /\ [][PortalNext]_portalVars
  /\ WF_portalVars(JoinSaved) /\ WF_portalVars(Joined) /\ WF_portalVars(OpenPortal)
  /\ WF_portalVars(Associate) /\ WF_portalVars(LoseLink) /\ WF_portalVars(ScanDone)
  /\ WF_portalVars(Poll) /\ WF_portalVars(stage # "off" /\ Boot)
  /\ \A t \in Tasks : WF_portalVars(GoOn(t))

-----------------------------------------------------------------------------
(* Properties.                                                             *)

\* The radio, the portal and what surrounds them keep their types.
PortalTypeOK ==
  /\ mode \in {"off", "sta", "ap"} /\ joined \in Values
  /\ link \in BOOLEAN /\ begun \in BOOLEAN /\ portalActive \in BOOLEAN
  /\ scan \in {"none", "running", "done"}
  /\ air \subseteq Networks /\ changes \in 0..MaxChanges
  /\ chosen \in Networks \union {Unknown}

\* A unit that serves is a station of a named network, which goes on calling
\* it but may have no link, or has its portal open and calls nobody: never
\* both, although setup() announces that it "will connect to a previously
\* selected AP simultaneously with the soft AP creation" (main.cpp:1153), and
\* never neither.  What the difference costs is ReconnectsHome.
StationOrPortal ==
  stage \in {"serving", "running"} =>
    /\ portalActive <=> mode = "ap"
    /\ portalActive => ~link /\ joined = 0
    /\ ~portalActive => mode = "sta" /\ joined # 0

\* However often the unit restarts or loses power after the user chose a
\* network, begin() tries that one, as long as the save was not disturbed
\* (handleConnect: "Force the cold boot to ... switch modes and connect").
JoinsChosen ==
  stage = "setup" /\ mode = "sta" /\ chosen # Unknown => joined = chosen

\* setup() never waits for ever on the network.
SetupEnds == stage = "setup" ~> stage \in {"running", "off"}

\* A posted choice ends in a restart.  Whether the restart finds it stored is
\* StoredWhenAnswered's and, for an overlapping save, ConfigLost's matter.
ChoiceApplied == Names(job["web"]) ~> stage = "off"

\* A unit whose network stays in the air is linked to it in the end: "soft
\* AP terminates automatically in 2 minutes / code will connect to a
\* previously selected AP simultaneously with the soft AP creation"
\* (main.cpp:1152-1153).  It is not: begin() tries the network for ten seconds
\* and never again, and nothing calls handle(), which would end the portal.
ReconnectsHome == <>[](stage = "running" /\ config["ssid"] \in air) => <>link
=============================================================================
