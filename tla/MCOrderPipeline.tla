-------------------------- MODULE MCOrderPipeline --------------------------
(* Small instances of OrderPipeline.                                       *)
EXTENDS OrderPipeline, TLC

\* every order buys one unit of every variant
OneOfEach == [o \in Orders |-> [v \in Variants |-> 1]]

ProcessSymmetry == Permutations(Handlers) \cup Permutations(Workers)
=============================================================================
