-------------------------- MODULE MCPersistentMem --------------------------
EXTENDS PersistentMem

(* Every write that fits in three cells; writes of one cell; writes of one *)
(* cell, one of them StartMod cells past the start of the array.           *)
MCInside == {rq \in (0 .. 2) \X (1 .. 3) : rq[1] + rq[2] =< 3}
MCOneCell == (0 .. 2) \X {1}
MCPastEnd == {<<0, 1>>, <<4, 1>>}
=============================================================================
