---------------------------- MODULE MCCastScene ----------------------------
(* The media player of DLNA, the session of DIAL and the mirror of AirCast  *)
(* take turns or overlap; one phone may come by Miracast.                   *)
EXTENDS CastScene

CONSTANT h

MCCasters == {"DLNA_PLAY", "DIAL_PLAY", "AIRCAST_MIRROR"}
=============================================================================
