------------------------------ MODULE MCAmpRpc ------------------------------
(* Two threads of RPCWORK against one call of Linux, which may never return, *)
(* and one notification.                                                     *)
EXTENDS AmpRpc

CONSTANTS w1, w2, n1, k1, s1

\* The hypothesis of the proof that the items suffice.
ASSUME ItemsFit == EnoughItems

\* MCAmpAsleep.cfg: while a call keeps one thread, another is up for what is
\* queued, or will be woken.
OthersServe ==
    (\E w \in Workers : InCall(w)) /\ queue # <<>> =>
        \/ pend
        \/ \E w \in Workers : ~InCall(w) /\ at[w] # "asleep"
=============================================================================
