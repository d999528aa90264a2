---------------------------- MODULE MCHotReload -----------------------------
(***************************************************************************)
(* Small instances of HotReload: three documents of which one is rejected, *)
(* and a half-written file that does or does not load.                     *)
(***************************************************************************)
EXTENDS HotReload

CONSTANTS good, better, bad

MCVersions == {good, better, bad}
MCLoads    == {good, better}
TornLoads  == {good, better, Torn}
=============================================================================
