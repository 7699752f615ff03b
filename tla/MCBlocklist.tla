---------------------------- MODULE MCBlocklist -----------------------------
(***************************************************************************)
(* A small instance of Blocklist: a domain, one under it, and a top-level  *)
(* domain, whose probes run into each other and around the end of the      *)
(* index.  A top-level domain has no dot, which normalize refuses, but one *)
(* typed with a dot at its end it takes.                                   *)
(***************************************************************************)
EXTENDS Blocklist, TLC

CONSTANTS site, ads, top, topDot, adsWild, bad, h1, h2

TwoHandlers     == {h1, h2}
HandlerSymmetry == Permutations(TwoHandlers)

SomeDomains == {site, ads, top}
SomeTexts   == SomeDomains \cup {topDot, adsWild}

SomeNorm ==
  [t \in SomeTexts |-> CASE t = topDot -> top [] t = adsWild -> ads [] t = top -> bad [] OTHER -> t]

SomeSuffixes ==
  [d \in SomeDomains |-> CASE d = site -> {site, top} [] d = ads -> {ads, site, top} [] OTHER -> {d}]

SomeHash == [d \in SomeDomains |-> CASE d = top -> 0 [] OTHER -> 7]

SomeImports == {<<site, top, adsWild, ads>>}
=============================================================================
