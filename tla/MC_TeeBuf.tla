----------------------------- MODULE MC_TeeBuf -----------------------------
(***************************************************************************)
(* Two characters (so that order shows), two log files of which one       *)
(* cannot be opened, and one application whose log is a third file.       *)
(***************************************************************************)
EXTENDS TeeBuf

MC_Chars == {"a", "b"}
MC_Names == {"sim.log", "/ro/sim.log"}
MC_Apps == {"leon3"}
MC_Unopenable == {"/ro/sim.log"}
MC_MaxLog == 4
=============================================================================
