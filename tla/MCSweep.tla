------------------------------- MODULE MCSweep -------------------------------
(* Three of the conditions of remote-sweep.sh, the first of them its first. *)
EXTENDS Sweep

ThreeConditions == <<"clear", "delay", "loss">>
=============================================================================
