---------------------------- MODULE MCFlightBus ----------------------------
(* The bridge alone with requests for its housekeeping.                     *)
EXTENDS FlightBus, TLC

Rates == [v \in 0..3 |-> 50]
Tc(n) == [mid |-> "ROVER_LAND_CMD", n |-> n]
OneTc == {Tc(1)}
BridgeId == {"ROS2_BRIDGE_HK"}
Nothing == {}
=============================================================================
