--------------------------- MODULE MCEnforcement ----------------------------
(***************************************************************************)
(* Instances of Enforcement for TLC: schedules of two events, a steady     *)
(* profile and one with steps, with and without a donning grace.           *)
(***************************************************************************)
EXTENDS Enforcement

LOCAL Commit(crit, grace, steady) ==
  [crit |-> crit, grace |-> grace, steady |-> steady]

GetAway  == Commit("getAway", 0, TRUE)
StayNear == Commit("stayNear", 0, TRUE)
Donned   == Commit("getAway", 1, FALSE)
OnWifi   == Commit("getOnWifi", 2, TRUE)
Phone    == Commit("phoneAway", 0, FALSE)

Pairs == {<<Phone, OnWifi>>, <<GetAway, StayNear>>, <<StayNear, Donned>>}

Handled == {Donned}

=============================================================================
