------------------------------ MODULE MCConsist ------------------------------
(* Small instances of Consist: a lead and a unit, or one unit wanted by two.  *)
EXTENDS Consist, TLC

CONSTANTS a, b, c
OnePair == {<<a, b>>}
Wanted == {<<b, b>>}
Either == {<<a, a>>, <<b, b>>}
Nobody == {}
TwoLeads == {<<a, b>>, <<a, c>>}
TwoUnits == {<<a, c>>, <<b, c>>}
==============================================================================
