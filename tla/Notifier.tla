------------------------------ MODULE Notifier ------------------------------
(* What work_notifier_setup, _signal and _teardown promise: a registration  *)
(* is called for events that occur after it was set up, never more often    *)
(* than they occur, at least once after the last of them, and not at all    *)
(* after it was eliminated.                                                 *)
EXTENDS Naturals

CONSTANTS Events, OneShot, Keys

VARIABLES
    armed,  \* the registrations, as pairs of a key and an event
    used,   \* the keys that were given out
    due     \* for each key, the calls that are still to come

Init == armed = {} /\ used = {} /\ due = [k \in Keys |-> 0]

Setup == \E k \in Keys \ used, ev \in Events :
            /\ armed' = armed \cup {<<k, ev>>} /\ used' = used \cup {k}
            /\ UNCHANGED due

\* All registrations for an event are called; events may be joined while a
\* call for an earlier one is still to come.
Signal == \E ev \in Events :
            LET told == {k \in Keys : <<k, ev>> \in armed} IN
            /\ \A k \in Keys : IF k \in told
                               THEN due'[k] \in {due[k], due[k] + 1} \ {0}
                               ELSE due'[k] = due[k]
            /\ armed' = IF ev \in OneShot THEN armed \ (told \X {ev}) ELSE armed
            /\ UNCHANGED used

Call(k) == due[k] > 0 /\ due' = [due EXCEPT ![k] = @ - 1] /\ UNCHANGED <<armed, used>>

Teardown == \E p \in armed : /\ armed' = armed \ {p}
                             /\ due' = [due EXCEPT ![p[1]] = 0]
                             /\ UNCHANGED used

Next == Setup \/ Signal \/ Teardown \/ \E k \in Keys : Call(k)

\* What may happen, and that the calls that are due come.
Safety == Init /\ [][Next]_<<armed, used, due>>
Spec == /\ Safety
        /\ \A k \in Keys : WF_<<armed, used, due>>(Call(k))

=============================================================================
