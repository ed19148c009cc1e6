------------------------------ MODULE MCUserIO ------------------------------
(***************************************************************************)
(* Three pages of three bytes whose frames lie in another order, so that a *)
(* buffer over two pages is not contiguous in memory.                      *)
(***************************************************************************)
EXTENDS UserIO

MCPpnOf == <<2, 0, 1>>
=============================================================================
