--------------------------- MODULE MCConfigStore ---------------------------
(* Small instances of ConfigStore: a few handlers of each task.             *)
EXTENDS ConfigStore, TLC
MuSetState == Handler("loop", <<Round({"mustate", "mureversed"}, {"mustate"}, {}),
                Own({"mustate"}), Round({}, {"mureversed"}, {"mustate"})>>, "prefs")
MuSetPerformance == Handler("loop", <<Own({"mustate"}),
                      Round({"consist"}, {"consist", "mustate"}, {})>>, "return")
PmOff == Handler("loop", <<Round({}, {"odometer"}, {})>>, "return")
Calibration(t) == Handler(t, <<Form({"speed2"})>>, "prefs")
LocoForm == Handler("web", <<Form({"dccaddress"})>>, "prefs")
FunctionForm == Handler("web", <<Form({"headlight", "horn"})>>, "return")

\* Two saves in one handler, the mileage, and a setting that both tasks store
\* and read back.
MCHandlers == {MuSetPerformance, PmOff, Calibration("loop"), Calibration("web")}
MCCopies == {MuSetState, MuSetPerformance, PmOff, LocoForm}
MCForms == {FunctionForm}
MCOverlap == {
  Handler("loop", <<Own({"mustate"})>>, "return"),
  Handler("web", <<Form({"ssid", "pass"})>>, "restart") }
MCChoices ==
  [k \in Keys |-> IF k \in {"dccaddress", "consist", "mureversed", "speed2"} THEN {1} ELSE Values]
=============================================================================
