------------------------------- MODULE MCGnss -------------------------------
(* Gnss with one option of each kind.                                      *)
EXTENDS Gnss

MCOptions == <<"autogps", "apflash">>
=============================================================================
