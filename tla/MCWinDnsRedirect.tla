------------------------- MODULE MCWinDnsRedirect --------------------------
(***************************************************************************)
(* WinDnsRedirect with two adapters and three starts: a crash while the    *)
(* engine puts back what an earlier crash left, and a start after that.    *)
(***************************************************************************)
EXTENDS WinDnsRedirect, TLC

CONSTANTS a1, a2

MCAdapters == {a1, a2}
Symmetry == Permutations(MCAdapters)
=============================================================================
