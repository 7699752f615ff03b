------------------------------ MODULE MCUsage ------------------------------
(***************************************************************************)
(* Usage with a TCP connection and a UDP flow, each of a program until it  *)
(* is handed over, at the end of a February with 29 days; the limit is     *)
(* reached by the second packet and its warning by the first.              *)
(***************************************************************************)
EXTENDS Usage

CONSTANTS p, q, t1, u1

MCApps == {p, q}
MCTcp  == {t1}
MCUdp  == {u1}
MCHome == [c \in MCTcp \cup MCUdp |-> IF c \in MCTcp THEN {p} ELSE {q}]
LeapDays == <<20240229, 20240301>>
=============================================================================
