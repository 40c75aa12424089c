--------------------------------- MODULE MCSwift ---------------------------------
(* Instances of Swift for TLC: windows of half a packet, one, and all.           *)
EXTENDS Swift

AnyWindow == {1, 2, 10}
================================================================================
