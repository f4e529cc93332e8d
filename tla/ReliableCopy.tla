---------------------------- MODULE ReliableCopy ----------------------------
(****************************************************************************)
(* What a transfer promises, leg by leg: an ordered byte channel that is    *)
(* ended once.  The sink receives the bytes 1, 2, 3... in that order, none  *)
(* before it was sent and none after the end; the end is "clean" only when  *)
(* the peer closed and everything it sent has arrived.                      *)
(****************************************************************************)
EXTENDS Naturals, Sequences

CONSTANTS
    Legs,
    Burst      \* the most bytes that enter a leg at once

VARIABLES
    sent,      \* bytes that entered each leg
    closed,    \* the peer ended each leg
    got,       \* what came out of each leg
    end        \* "open", "clean" or "broken"

avars == <<sent, closed, got, end>>

AInit ==
    /\ sent = [l \in Legs |-> 0]
    /\ closed = [l \in Legs |-> FALSE]
    /\ got = [l \in Legs |-> <<>>]
    /\ end = [l \in Legs |-> "open"]

Send(l, k) ==
    /\ sent' = [sent EXCEPT ![l] = @ + k]
    /\ UNCHANGED <<closed, got, end>>

Close(l) ==
    /\ closed' = [closed EXCEPT ![l] = TRUE]
    /\ UNCHANGED <<sent, got, end>>

Deliver(l, k) ==
    /\ end[l] = "open"
    /\ got' = [got EXCEPT ![l] = [i \in 1 .. Len(@) + k |-> i]]
    /\ UNCHANGED <<sent, closed, end>>

EndClean(l) ==
    /\ end[l] = "open" /\ closed[l] /\ Len(got[l]) = sent[l]
    /\ end' = [end EXCEPT ![l] = "clean"]
    /\ UNCHANGED <<sent, closed, got>>

(* A failure may end several legs at once. *)
EndBroken ==
    /\ UNCHANGED <<sent, closed, got>>
    /\ DOMAIN end' = Legs
    /\ \A l \in Legs : end'[l] = end[l] \/ (end[l] = "open" /\ end'[l] = "broken")

ANext ==
    \/ \E l \in Legs : \/ \E k \in 1 .. Burst : Send(l, k)
                       \/ \E k \in 1 .. sent[l] - Len(got[l]) : Deliver(l, k)
                       \/ Close(l) \/ EndClean(l)
    \/ EndBroken

ASpec == AInit /\ [][ANext]_avars
=============================================================================
