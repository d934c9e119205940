---------------------------- MODULE AtomicStore ----------------------------
(***************************************************************************)
(* What the persistent-memory driver promises its callers: an array of     *)
(* cells that one write at a time changes, all of it or none of it.  A     *)
(* write that was not hit by a power cut is always applied; one that was   *)
(* hit is applied or lost as a whole, and nothing else ever changes the    *)
(* cells.                                                                  *)
(***************************************************************************)
EXTENDS Naturals, Sequences

CONSTANTS Cells,    \* the addresses, 0 .. size - 1
          Fresh,    \* what a cell holds that was never written
          Idle      \* "no write is in flight"

VARIABLES store,    \* what a reader sees once the driver is up
          pending   \* the write in flight: [start, data, cut], or Idle

avars == <<store, pending>>

(* A write that does not fit in the array changes no cell.                 *)
Fits(w) == \A k \in 1 .. Len(w.data) : w.start + k - 1 \in Cells

Applied(s, w) ==
    IF Fits(w)
    THEN [a \in Cells |-> IF a \in w.start .. w.start + Len(w.data) - 1
                          THEN w.data[a - w.start + 1] ELSE s[a]]
    ELSE s

AInit == store = [a \in Cells |-> Fresh] /\ pending = Idle

Request == /\ pending = Idle
           /\ pending' # Idle /\ ~pending'.cut
           /\ UNCHANGED store

(* The power fails while the write is in flight.                           *)
Hit == /\ pending # Idle
       /\ pending' = [pending EXCEPT !.cut = TRUE]
       /\ UNCHANGED store

Apply == /\ pending # Idle
         /\ store' = Applied(store, pending)
         /\ pending' = Idle

Lose == /\ pending # Idle /\ pending.cut
        /\ pending' = Idle
        /\ UNCHANGED store

ANext == Request \/ Hit \/ Apply \/ Lose

ASpec == AInit /\ [][ANext]_avars
=============================================================================
