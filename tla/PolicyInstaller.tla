-------------------------- MODULE PolicyInstaller --------------------------
(***************************************************************************)
(* What the control core promises, with one installer and no threads: the  *)
(* policy in force is always one that was wanted as a whole, and once      *)
(* nothing is owed it agrees with what is wanted on everything the user    *)
(* decided.  Programs nobody decided yet may be discovered at any time     *)
(* without a new installation.                                             *)
(*                                                                         *)
(* Module Enforcement shows that apply_enforcement, dns_apply and their    *)
(* callers (src/core/engine.c) implement this specification.               *)
(***************************************************************************)
CONSTANTS
  Apps,      \* programs
  Policies,  \* what a filter can be told: posture, defaults, programs, rules...
  Nothing    \* the policy of a filter that is not installed

VARIABLES
  want,      \* the policy the configuration asks for
  settled,   \* programs whose policy the user decided
  busy,      \* an installation is in progress
  taken,     \* the policy it installs
  inForce,   \* the policy in force
  ok,        \* the last installation succeeded
  open,      \* the filter is running
  owed       \* a decision waits for an installation that has not read it yet

vars == <<want, settled, busy, taken, inForce, ok, open, owed>>

\* p and q agree on everything but the programs outside S.
Same(p, q, S) ==
  /\ p.posture = q.posture /\ p.default = q.default
  /\ p.rules = q.rules /\ p.guard = q.guard /\ p.doh = q.doh
  /\ p.block \cap S = q.block \cap S
  /\ p.allow \cap S = q.allow \cap S

Init ==
  /\ want \in Policies /\ settled \subseteq Apps
  /\ busy = FALSE /\ taken = Nothing
  /\ inForce = Nothing /\ ok = TRUE /\ open \in BOOLEAN
  /\ owed = TRUE

Decide ==
  /\ want' \in Policies /\ settled \subseteq settled' /\ settled' \subseteq Apps
  /\ owed' = TRUE
  /\ UNCHANGED <<busy, taken, inForce, ok, open>>

Discover ==
  /\ want' \in Policies /\ Same(want', want, settled)
  /\ UNCHANGED <<settled, busy, taken, inForce, ok, open, owed>>

Take ==
  /\ open /\ ~busy /\ busy' = TRUE
  /\ taken' = want
  /\ owed' \in {owed, FALSE}
  /\ UNCHANGED <<want, settled, inForce, ok, open>>

Commit ==
  /\ busy /\ busy' = FALSE /\ taken' = Nothing
  /\ \/ inForce' = taken /\ ok' = TRUE
     \/ inForce' = inForce /\ ok' = FALSE
  /\ UNCHANGED <<want, settled, open, owed>>

\* Without a filter there is nothing to install.
Excuse ==
  /\ ~open /\ owed' \in BOOLEAN
  /\ UNCHANGED <<want, settled, busy, taken, inForce, ok, open>>

Close ==
  /\ ~busy /\ inForce' = Nothing /\ open' = FALSE /\ owed' \in BOOLEAN
  /\ UNCHANGED <<want, settled, busy, taken, ok>>

Next == Decide \/ Discover \/ Take \/ Commit \/ Excuse \/ Close

Spec == Init /\ [][Next]_vars

\* Nothing owed and nothing under way: what is in force is what is wanted.
Agreement == open /\ ok /\ ~owed /\ ~busy => Same(inForce, want, settled)

=============================================================================
