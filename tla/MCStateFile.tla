---------------------------- MODULE MCStateFile ----------------------------
(***************************************************************************)
(* StateFile with a built in rule, room for another, an application and    *)
(* two devices.                                                            *)
(***************************************************************************)
EXTENDS StateFile, TLC

CONSTANTS h1, h2

MCHandlers == {h1, h2}
HandlerSymmetry == Permutations(MCHandlers)
OneBuiltin == <<"telnet">>
MCNames    == {"", "mine"}
MCActions  == {"", "block"}
=============================================================================
