--------------------------- MODULE MCWorkNotifier ---------------------------
(* Two threads of the HPWORK queue; a notification for one shot, as the     *)
(* sound driver sets up and tears down, and a lasting one, as the           *)
(* applications keep for the plugging of a cable.                           *)
EXTENDS WorkNotifier

CONSTANTS w1, w2, c1, e1, e2, x1
=============================================================================
