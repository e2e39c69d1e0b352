----------------------------- MODULE MCOutputs -------------------------------
(* A folder of a library, and two free places.                                *)
EXTENDS Outputs, TLC

CONSTANTS library, desk, exports, album

Tidy == (library :> album) @@ (desk :> None) @@ (exports :> None)
===============================================================================
