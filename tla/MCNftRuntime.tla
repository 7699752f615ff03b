--------------------------- MODULE MCNftRuntime ----------------------------
(***************************************************************************)
(* NftRuntime with two processes, two programs and two sockets.            *)
(***************************************************************************)
EXTENDS NftRuntime, TLC

CONSTANTS p1, p2, a1, a2, s1, s2

MCPids  == {p1, p2}
MCPrograms == {a1, a2}
MCSocks == {s1, s2}

MCRunning ==
  {[p \in MCPids |-> IF p = p1 THEN a1 ELSE x] : x \in {None, a2}}

\* A connection or two of the first process.
MCHolding ==
  {[s \in MCSocks |-> IF s = s1 THEN {p1} ELSE Q] : Q \in {{}, {p1}}}

MCPolicies ==
  {[block |-> {a1}, allow |-> {a2}], [block |-> {}, allow |-> {a1}]}
=============================================================================
