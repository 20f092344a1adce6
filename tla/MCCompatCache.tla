--------------------------- MODULE MCCompatCache ---------------------------
(* Two callers, two targets: compatible, with a warning, too old, or down.  *)
EXTENDS CompatCache
MCVersions == {<<1, 5, 0>>, <<1, 4, 9>>, <<1, 2, 9>>}
MCMcp == <<1, 5, 0>>
MCMin == <<1, 3, 0>>
============================================================================
