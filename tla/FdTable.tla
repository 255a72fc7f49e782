------------------------------ MODULE FdTable ------------------------------
(***************************************************************************)
(* The server's file descriptor table, as far as np_single_proc.cpp can    *)
(* tell: every accept() and pipe() takes the lowest free numbers, close()  *)
(* frees a number whatever it refers to by then.  Descriptors 0 to 6 of    *)
(* the process (standard streams, their saved copies, the master socket)   *)
(* never change hands, so number f here is descriptor 6+f of the process.  *)
(***************************************************************************)
EXTENDS Integers, FiniteSets

CONSTANTS NFD,       \* descriptors the process may still open
          Clients,   \* the client programs that may ever connect
          NoClient   \* stands for "nobody"

ASSUME FdAssumption == NFD \in Nat /\ NoClient \notin Clients

FD == 1 .. NFD

\* -10 in the code: "no descriptor".
Nil == 0

(***************************************************************************)
(* What a descriptor refers to.  A pipe end remembers the numbers r and w  *)
(* pipe() returned, which identify the pipe as long as one end is open,    *)
(* who wrote the command that made it and, for a user pipe, for whom.      *)
(***************************************************************************)
Obj == [kind : {"free", "sock", "rd", "wr"},
        of : Clients \cup {NoClient}, to : Clients \cup {NoClient},
        r : FD \cup {Nil}, w : FD \cup {Nil}]

Closed == [kind |-> "free", of |-> NoClient, to |-> NoClient,
           r |-> Nil, w |-> Nil]

Sock(c) == [kind |-> "sock", of |-> c, to |-> NoClient, r |-> Nil, w |-> Nil]

\* An int[2] that pipe() fills, and one that still holds -10, -10.
Ends == [r : FD \cup {Nil}, w : FD \cup {Nil}]
NoEnds == [r |-> Nil, w |-> Nil]

ReadEnd(c, d, e) == [kind |-> "rd", of |-> c, to |-> d, r |-> e.r, w |-> e.w]
WriteEnd(c, d, e) == [kind |-> "wr", of |-> c, to |-> d, r |-> e.r, w |-> e.w]

FreeFds(F) == {f \in FD : F[f] = Closed}

Lowest(S) == CHOOSE f \in S : \A g \in S : f <= g

\* accept(): one number; pipe(): the two lowest, the read end first.
CanOpen(F) == FreeFds(F) # {}
NewFd(F) == Lowest(FreeFds(F))

CanPipe(F) == \E f, g \in FreeFds(F) : f # g
NewEnds(F) == [r |-> NewFd(F), w |-> Lowest(FreeFds(F) \ {NewFd(F)})]

OpenPipe(F, c, d) ==
    [F EXCEPT ![NewFd(F)] = ReadEnd(c, d, NewEnds(F)),
              ![NewEnds(F).w] = WriteEnd(c, d, NewEnds(F))]

\* close() of every number in S; those that are -10 or not open do nothing.
CloseAll(F, S) == [f \in FD |-> IF f \in S THEN Closed ELSE F[f]]

\* The numbers of S that, when closed, hit something that is open but is not
\* an end of the pipe e that c made for d.
Strays(F, c, d, e, S) ==
    {f \in S \cap FD : F[f] \notin {Closed, ReadEnd(c, d, e), WriteEnd(c, d, e)}}

\* The end-of-file of a read end never comes while the write end of the same
\* pipe is open in the process that made it (and so in its children).
HeldOpen(F, o) ==
    /\ o.kind = "rd"
    /\ o.w \in FD /\ F[o.w] = [o EXCEPT !.kind = "wr"]
=============================================================================
