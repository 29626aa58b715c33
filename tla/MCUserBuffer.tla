---------------------------- MODULE MCUserBuffer ----------------------------
(***************************************************************************)
(* UserBuffer with packets of two and of three units.                      *)
(***************************************************************************)
EXTENDS UserBuffer

\* The units 1 and 2 begin packets of two and of three units.
MCPacketLength == <<2, 3>>
=============================================================================
