---------------------------- MODULE MCInstances -----------------------------
(***************************************************************************)
(* Instances with two processes and two ports: an engine, and a start or   *)
(* another command next to it; four launches, so that a number and a port  *)
(* are used again by the program itself, two faults, so that another       *)
(* program has them after a crash.                                         *)
(***************************************************************************)
EXTENDS Instances

CONSTANTS p1, p2

TwoPids == {p1, p2}
=============================================================================
