------------------------------- MODULE Relay --------------------------------
(***************************************************************************)
(* What a proxied connection promises its two ends, with no sockets,       *)
(* buffers or callbacks: nothing passes before the request is granted, and *)
(* from then on each end receives what the other sent, from the first unit *)
(* on, in order, nothing twice and nothing left out.  It may receive less  *)
(* than was sent.  The unit sent n-th in a direction is the number n.      *)
(***************************************************************************)
EXTENDS Naturals, Sequences

CONSTANT MaxSent    \* bound: each end sends at most this much

VARIABLES granted,  \* the proxy has granted the request
          sent,     \* sent[d]: how much was sent in direction d
          got       \* got[d]: what the receiving end of d has received

rvars == <<granted, sent, got>>

\* From the client to the destination, and back.
Dirs == {"up", "down"}

Init ==
    /\ granted = FALSE
    /\ sent = [d \in Dirs |-> 0]
    /\ got = [d \in Dirs |-> <<>>]

Grant ==
    /\ ~granted /\ granted' = TRUE
    /\ UNCHANGED <<sent, got>>

Send(d) ==
    /\ granted /\ sent[d] < MaxSent
    /\ sent' = [sent EXCEPT ![d] = @ + 1]
    /\ UNCHANGED <<granted, got>>

Receive(d) ==
    /\ Len(got[d]) < sent[d]
    /\ got' = [got EXCEPT ![d] = Append(@, Len(@) + 1)]
    /\ UNCHANGED <<granted, sent>>

Next == Grant \/ \E d \in Dirs : Send(d) \/ Receive(d)

Spec == Init /\ [][Next]_rvars
=============================================================================
