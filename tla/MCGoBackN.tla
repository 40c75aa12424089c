-------------------------------- MODULE MCGoBackN --------------------------------
(* Instances of GoBackN for TLC: three packets of two bytes, the last of them    *)
(* full or not.                                                                  *)
EXTENDS GoBackN

BothProtocols == {"roce", "hpcc"}
AnyFlow == {5, 6}
TwoWindows == {1, 2}
================================================================================
