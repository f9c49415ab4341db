---------------------------- MODULE MCWiFiPortal ----------------------------
(* Small instance of WiFiPortal: two networks, the user's choice and one     *)
(* handler of loop().                                                       *)
EXTENDS WiFiPortal, TLC
MCHandlers == {
  Handler("loop", <<Own({"mustate"})>>, "return"),
  Handler("web", <<Form({"ssid", "pass"})>>, "restart") }
MCChoices == [k \in Keys |-> CASE k = "ssid" -> Values [] k = "pass" -> {1} [] OTHER -> {0, 1}]
=============================================================================
