--------------------------- MODULE MCBootVariables ---------------------------
(***************************************************************************)
(* Both builds, three detours, a machine with three variables besides the  *)
(* loader's, and one with a large variable.                                *)
(***************************************************************************)
EXTENDS BootVariables

MCOtherNames == {Named("BootNext"), Named("Boot0003"), Named("Timeout")}
Large == [Named("dbx") EXCEPT !.fits = FALSE]
MCOthers == {MCOtherNames, {Large}}
MCDebug == BOOLEAN
=============================================================================
