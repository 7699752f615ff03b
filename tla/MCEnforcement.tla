--------------------------- MODULE MCEnforcement ---------------------------
(***************************************************************************)
(* A small instance of Enforcement for TLC.  Two handlers are enough for   *)
(* every race of two calls, two requests for a decision that overtakes     *)
(* another, and one program, decided in an earlier session or not, for     *)
(* every way to meet and decide one.                                       *)
(***************************************************************************)
EXTENDS Enforcement

CONSTANTS a1, r1, h1, h2, main, none

OneApp      == {a1}
OneRule     == {r1}
TwoHandlers == {h1, h2}

Saved(policy, filter) ==
  [posture |-> "on", default |-> [d \in Dirs |-> IF d = "out" THEN "ask" ELSE "block"],
   policy |-> policy, rules |-> [r \in Rules |-> "off"], dnsFilter |-> filter, doh |-> FALSE]

\* The very first start, nothing met yet.
FirstStart == {Saved([a \in Apps |-> "unseen"], FALSE)}

\* A later start: a1 was blocked.
LaterStart == {Saved([a \in Apps |-> "block"], f) : f \in BOOLEAN}

EitherStart == FirstStart \cup LaterStart

\* Switch the DNS filter off or on, with and without a change for the filter.
SomePatches ==
  {[default |-> [d \in Dirs |-> "allow"], dnsFilter |-> FALSE, doh |-> FALSE],
   [default |-> [d \in Dirs |-> "ask"], dnsFilter |-> TRUE, doh |-> FALSE],
   [default |-> [d \in Dirs |-> "ask"], dnsFilter |-> FALSE, doh |-> TRUE]}
=============================================================================
