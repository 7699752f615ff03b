----------------------------- MODULE MCDnsProxy -----------------------------
(***************************************************************************)
(* A small instance of DnsProxy: two slots for three queries, so that      *)
(* slots are reused and run out; two values for the random bits, so that   *)
(* they repeat and differ; time for two tries and for the deadline.        *)
(***************************************************************************)
EXTENDS DnsProxy

CONSTANTS q1, q2, q3, nobody, s1, s2

ThreeQueries == {q1, q2, q3}
TwoServers   == {s1, s2}
Lists        == {<<>>, <<s1, s2>>}

\* The queries are interchangeable: q1 is the one that asks first, and q2 the
\* next.
InTurn ==
  /\ status[q2] # "unsent" => status[q1] # "unsent"
  /\ status[q3] # "unsent" => status[q2] # "unsent"
=============================================================================
