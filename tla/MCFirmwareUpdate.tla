-------------------------- MODULE MCFirmwareUpdate --------------------------
(***************************************************************************)
(* A flash with the boot loader, the firmware, another partition and an    *)
(* old and a new place of user data, and the kinds of images the           *)
(* repository's generator writes (with and without the persistent memory,  *)
(* with and without a chip erase, the persistent memory with the image's   *)
(* version or the generator's default) or hcfota.h allows (remap entries).  *)
(***************************************************************************)
EXTENDS FirmwareUpdate

CONSTANTS boot, firm, user, moved

W(p) == [to |-> p, from |-> NoImage]
Plain(v) == [version |-> v, shipped |-> 0, ignore |-> FALSE, erase |-> FALSE,
             entries |-> <<W(boot), W(firm)>>]
Full(v, s) == [version |-> v, shipped |-> s, ignore |-> TRUE, erase |-> TRUE,
               entries |-> <<W(boot), W(firm), W(Store)>>]
Moving(v) == [version |-> v, shipped |-> 0, ignore |-> FALSE, erase |-> FALSE,
              entries |-> <<W(boot), W(user), W(firm), [to |-> moved, from |-> user]>>]

MCImages == {Plain(2), Full(3, 3), Moving(4), Full(5, 0)}
MCUnlabelled == {Plain(2), Full(3, 2)}
MCFaulty == {Plain(2), Moving(4)}
MCRefused == {Plain(1), Plain(2)}

\* They are such as the theorems of FirmwareUpdateProofs are about.
ASSUME ImagesFit == WholeFirmware /\ StoreNotFaulty /\ StoreBrought /\ MovesApart
=============================================================================
