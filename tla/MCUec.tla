-------------------------------- MODULE MCUec -----------------------------------
(* Instances of UecTransport for TLC: a flow of a few packets of two bytes, so  *)
(* that a window may hold a packet and a half.                                  *)
EXTENDS UecInvariants

OddWindows == {2, 3, 5, 8}
================================================================================
