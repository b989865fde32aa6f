----------------------------- MODULE MCDisruptor -----------------------------
(***************************************************************************)
(* The wirings of the four programs: DisruptorTest has one handler,        *)
(* DisruptorTest4 two that both see every message, DisruptorTest2 is the   *)
(* diamond 1 -> {2, 3} -> 4 and DisruptorTest3 the worker pool.            *)
(***************************************************************************)
EXTENDS DisruptorRing, TLC

CONSTANTS h1, h2, h3, h4

NoChain == [h \in Handlers |-> {}]
Single == [handlers |-> {h1}, after |-> NoChain, pool |-> FALSE]
Broadcast == [handlers |-> {h1, h2}, after |-> NoChain, pool |-> FALSE]
Diamond ==
  [handlers |-> Handlers, after |-> h1 :> {} @@ h2 :> {h1} @@ h3 :> {h1} @@ h4 :> {h2, h3},
   pool |-> FALSE]
WorkPool == [handlers |-> {h1, h2}, after |-> NoChain, pool |-> TRUE]

FourPrograms == {Single, Broadcast, Diamond, WorkPool}
=============================================================================
