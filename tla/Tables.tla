-------------------------------- MODULE Tables --------------------------------
(***************************************************************************)
(* Tables: functions from names, put together.                             *)
(***************************************************************************)

\* What f says, and where it says nothing, g: TLC's @@, as a definition.
f ++ g == [x \in DOMAIN f \cup DOMAIN g |-> IF x \in DOMAIN f THEN f[x] ELSE g[x]]
=============================================================================
