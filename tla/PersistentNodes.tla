-------------------------- MODULE PersistentNodes --------------------------
(***************************************************************************)
(* The node ioctls of the persistent-memory driver (persistent-memory.c):  *)
(* a chain of records kept in the array that PersistentMem makes durable.  *)
(* A record is one header word, its id and its size, and size words of     *)
(* data; the first header whose id is 0 ends the chain.  Every ioctl makes *)
(* at most one write, and AtomicStore says what becomes of that write.     *)
(***************************************************************************)
EXTENDS Naturals, Sequences

CONSTANTS Words,    \* words of the array (blk.buf_size / 4)
          Ids,      \* the ids callers use
          Sizes,    \* the bytes they ask for when they create a record
          SizeMod,  \* persistentmem_node_create.size counts modulo this (2^16)
          MaxCalls  \* bound on the calls that write

ASSUME NodesAssumption ==
    /\ Words \in Nat \ {0} /\ SizeMod \in Nat \ {0} /\ MaxCalls \in Nat
    /\ Ids \subseteq Nat \ {0} /\ Sizes \subseteq 0 .. SizeMod - 4

VARIABLES store, pending,  \* see AtomicStore
          valid,           \* gdev->valid
          calls            \* calls so far; a put stores its own number

vars == <<store, pending, valid, calls>>

(* A word is a pair: the id and the size of a header, or a datum and 0.    *)
Unused == <<0, 0>>
Idle == [start |-> 0, data |-> <<>>, cut |-> FALSE]
NULL == Words

Array == INSTANCE AtomicStore
         WITH Cells <- 0 .. Words - 1, Fresh <- Unused, Idle <- Idle

(* Of an array s, as it is or as it will be.                               *)
Id(s, p) == s[p][1]
Size(s, p) == s[p][2]
After(s, p) == p + 1 + Size(s, p)

(* node_find: the first header with the id, NULL if the chain ends before. *)
node_find(s, id) ==
    LET find[p \in 0 .. 2 * Words] ==
            IF p >= Words THEN NULL
            ELSE IF Id(s, p) = id THEN p
            ELSE IF Id(s, p) = 0 THEN NULL
            ELSE find[After(s, p)]
    IN  find[0]

(* The size an ioctl asks for, in words, after the rounding in 16 bits.    *)
Rounded(bytes) == ((((bytes + 3) \div 4) * 4) % SizeMod) \div 4

Init == Array!AInit /\ valid = TRUE /\ calls = 0

(* Under files_lock: the previous call has returned.                       *)
Entered == valid /\ pending = Idle

Log(start, data) ==
    /\ calls < MaxCalls /\ calls' = calls + 1
    /\ pending' = [start |-> start, data |-> data, cut |-> FALSE]
    /\ UNCHANGED <<store, valid>>

\* Mutant: a record may take the last word, where the end of the chain goes.
HasRoom_ToEnd(p, n) == p + 1 + n =< Words

HasRoom(p, n) == p + 1 + n < Words

NodeCreate(id, bytes) ==
    LET p == node_find(store, 0)
        n == Rounded(bytes)
    IN  /\ Entered /\ node_find(store, id) = NULL
        /\ HasRoom(p, n)
        /\ Log(p, <<<<id, n>>>>)

\* Mutant: the records behind are moved up, the words they leave not zeroed.
ClosedUp_NotZeroed(s, from, next, end) ==
    [i \in 1 .. end - from |->
        IF next + i =< end THEN s[next + i - 1] ELSE s[from + i - 1]]

ClosedUp(s, from, next, end) ==
    [i \in 1 .. end - from |->
        IF next + i =< end THEN s[next + i - 1] ELSE Unused]

NodeDelete(id) ==
    LET p == node_find(store, id)
    IN  /\ Entered /\ p # NULL
        /\ Log(p, ClosedUp(store, p, After(store, p), node_find(store, 0)))

(* Puts of n words at an offset; one of no bytes writes nothing.           *)
NodePut(id, offset, n) ==
    LET p == node_find(store, id)
    IN  /\ Entered /\ p # NULL
        /\ offset + n =< Size(store, p)
        /\ Log(p + 1 + offset, [i \in 1 .. n |-> <<calls + 1, 0>>])

(* PERSISTENTMEM_IOCTL_MARK_INVALID: no further call has an effect, until  *)
(* the next boot.                                                          *)
MarkInvalid == /\ Entered
               /\ valid' = FALSE
               /\ UNCHANGED <<store, pending, calls>>

Written == /\ Array!Apply \/ Array!Lose
           /\ UNCHANGED <<valid, calls>>

Reboot == /\ valid' = TRUE
          /\ IF pending = Idle THEN UNCHANGED <<store, pending>>
                               ELSE Array!Hit
          /\ UNCHANGED calls

Next == \/ \E id \in Ids : \/ \E b \in Sizes : NodeCreate(id, b)
                           \/ NodeDelete(id)
                           \/ \E o \in 0 .. Words, n \in 1 .. Words :
                                  NodePut(id, o, n)
        \/ MarkInvalid \/ Written \/ Reboot

Spec == Init /\ [][Next]_vars

-----------------------------------------------------------------------------
(* Properties.                                                             *)

(* The chain always ends inside the array, and every word from its end on  *)
(* is zero: node_create finds its place, and what it creates is followed   *)
(* by an end.                                                              *)
ChainEnds ==
    /\ node_find(store, 0) # NULL
    /\ \A a \in node_find(store, 0) .. Words - 1 : store[a] = Unused

(* The chain is a map: a create adds a record of zeros, a delete takes out *)
(* just one, a put changes just its own record, and a power cut during     *)
(* any of them does all of it or nothing.  No id heads two records, or a   *)
(* delete would bring the hidden one back; no put leaves its record.       *)
Stored(s) == {id \in Ids : node_find(s, id) # NULL}
Record(s, id) == LET p == node_find(s, id)
                 IN  [k \in 1 .. Size(s, p) |-> s[p + k]]
Records(s) == [id \in Stored(s) |-> Record(s, id)]

Map == INSTANCE NodeMap WITH Fresh <- Unused, map <- Records(store)

ImplementsMap == Map!MSpec

=============================================================================
