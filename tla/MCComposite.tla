------------------------------ MODULE MCComposite --------------------------------
(* Instances of CompositeQueue for TLC. *)
EXTENDS CompositeQueue

\* Every setting of a UEC run without _use_mixed, and with it.
PlainConfigs == {c \in AllConfigs : ~c.mixed /\ (c.series => c.phantom)}
MixedConfigs == {c \in AllConfigs : c.mixed /\ ~c.phantom /\ ~c.series}
================================================================================
