------------------------------ MODULE NodeMap ------------------------------
(***************************************************************************)
(* What the node ioctls of the persistent-memory device promise: a map     *)
(* from ids to records of a fixed length, changed by one create, delete or *)
(* put at a time.                                                          *)
(***************************************************************************)
EXTENDS Naturals, Sequences

CONSTANT Fresh   \* what a cell of a new record holds
VARIABLE map     \* id -> sequence of cells

MInit == map = [id \in {} |-> <<>>]

Create(id, n) ==
    /\ id \notin DOMAIN map
    /\ map' = [i \in DOMAIN map \cup {id} |->
                  IF i = id THEN [k \in 1 .. n |-> Fresh] ELSE map[i]]

Delete(id) == map' = [i \in DOMAIN map \ {id} |-> map[i]]

Put(id, lo, hi, cell) ==
    map' = [map EXCEPT ![id] =
               [k \in DOMAIN @ |-> IF k \in lo .. hi THEN cell ELSE @[k]]]

MNext ==
    \/ \E id \in DOMAIN map' \ DOMAIN map : Create(id, Len(map'[id]))
    \/ \E id \in DOMAIN map :
        \/ Delete(id)
        \/ /\ DOMAIN map' = DOMAIN map
           /\ \E lo, hi \in DOMAIN map[id] : Put(id, lo, hi, map'[id][lo])

MSpec == MInit /\ [][MNext]_map
=============================================================================
