------------------------------- MODULE MCKshm -------------------------------
(* Kshm for TLC, and two claims the driver does not keep, for the           *)
(* configurations that show where.                                          *)
EXTENDS Kshm

\* kshm_get_avail_packets answers no more pairs than the ring has room for,
\* unless a reset fell into an increment: the reader breaks it when it counts a
\* packet before the write thread has (kshm.c:482-483).
AvailInRing == (~stale /\ w.pc # "flip") => AvailPackets * 2 * Align <= Size

\* No grant at all takes the reserved bytes: the reset of an empty ring does
\* (kshm.c:432-435).
ReserveNeverTaken ==
    [][ (w.pc # "copy" /\ w'.pc = "copy") =>
          ReservedBytes \cap Bytes(w'.at, RoundUp(w'.len)) = {} ]_vars
=============================================================================
