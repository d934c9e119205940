------------------------------ MODULE KshmFifo ------------------------------
(* What the kshm ring promises to its two threads: a first-in first-out     *)
(* channel of packets that the writer may empty at once.                    *)
EXTENDS Sequences, Naturals

VARIABLES
    chan,   \* the packets sent and not yet received, each a sequence of bytes
    out     \* the packet received last

Init == chan = <<>> /\ out = <<>>

\* Some packet goes to the end of the channel.
Send ==
    /\ Len(chan') = Len(chan) + 1
    /\ SubSeq(chan', 1, Len(chan)) = chan
    /\ UNCHANGED out

Receive ==
    /\ chan # <<>>
    /\ out' = Head(chan)
    /\ chan' = Tail(chan)

Empty == chan' = <<>> /\ UNCHANGED out

Next == Send \/ Receive \/ Empty

Spec == Init /\ [][Next]_<<chan, out>>

=============================================================================
