--------------------------- MODULE MCDnsRedirect ---------------------------
(***************************************************************************)
(* DnsRedirect with three starts and two crashes: a crash while the engine *)
(* restores what an earlier crash left, and a start after that.            *)
(***************************************************************************)
EXTENDS DnsRedirect
=============================================================================
