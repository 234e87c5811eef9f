------------------------------- MODULE LossyFifo -------------------------------
(***************************************************************************)
(* What the backend promises a client about the frames of another one:     *)
(* some may never arrive, but none arrives twice, before it was sent, or   *)
(* after a later one.  A client that shows what it hears last therefore    *)
(* never goes back, and one that lists what it hears keeps the sender's    *)
(* order.  The nth frame of a sender is the number n.                      *)
(***************************************************************************)
EXTENDS Naturals

CONSTANTS Senders, Readers

VARIABLES
    sent,       \* how many frames each sender has sent
    seen        \* the last frame of each sender that each reader has been given

Init ==
    /\ sent = [s \in Senders |-> 0]
    /\ seen = [r \in Readers |-> [s \in Senders |-> 0]]

Send(s) ==
    /\ sent' = [sent EXCEPT ![s] = @ + 1]
    /\ UNCHANGED seen

\* The reader is given any frame it has not been given yet, and those before it are lost.
Deliver(r, s) ==
    /\ seen'[r][s] \in seen[r][s] + 1 .. sent[s]
    /\ seen' = [seen EXCEPT ![r][s] = seen'[r][s]]
    /\ UNCHANGED sent

Next ==
    \/ \E s \in Senders : Send(s)
    \/ \E r \in Readers, s \in Senders : Deliver(r, s)

Spec == Init /\ [][Next]_<<sent, seen>>
================================================================================
