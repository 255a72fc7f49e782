--------------------------- MODULE NpServerPipes ----------------------------
(***************************************************************************)
(* The pipes of NpServer, for every number of users, clients and           *)
(* descriptors, and every set of commands: as long as no close() has hit a *)
(* number that had been reused, every pipe that waits, for a user or for a *)
(* command, is open and is read by the one it is for.                      *)
(***************************************************************************)
EXTENDS NpServerProofs

\* The numbers that an end of a pipe remembers are its own and the other end's.
EndsNamed(T) ==
    \A f \in FD : T[f].kind \in {"rd", "wr"} =>
        /\ T[f].r \in FD /\ T[f].w \in FD /\ T[f].r # T[f].w
        /\ f = IF T[f].kind = "rd" THEN T[f].r ELSE T[f].w

\* An entry for a pipe holds two descriptors or none.
Whole(e) == e = NoEnds \/ (e.r \in FD /\ e.w \in FD)
EntriesWhole ==
    /\ \A i \in Users : \A n \in 1 .. MaxNum : Whole(nump[i][n].ends)
    /\ Whole(job.due) /\ Whole(job.tmp)

InNpshell == pc \in {"run", "wait"}
Apart(e) == \A n \in 1 .. MaxNum : nump[job.me][n].ends # e

\* The numbered pipe that the running command reads has its read end open until
\* the program is started, or a single program has ended, but not its write end;
\* no later command is due to read it.
DueOpen ==
    InNpshell /\ job.due # NoEnds /\ (job.stage = 0 \/ job.cmd.stages = 1) =>
        /\ F[job.due.r] = ReadEnd(slot[job.me], NoClient, job.due)
        /\ F[job.due.w] # WriteEnd(slot[job.me], NoClient, job.due)
        /\ Apart(job.due)

\* So has the last pipe of a pipeline that is being started.
LastOpen ==
    InNpshell /\ job.stage > 0 /\ job.stage < job.cmd.stages =>
        /\ job.tmp # NoEnds /\ F[job.tmp.r] = ReadEnd(slot[job.me], NoClient, job.tmp)
        /\ Apart(job.tmp)

\* The server has the write end of a user pipe closed once the command that
\* fills it has been started; not if the user pipes to himself.
BeingFilled(i, j) ==
    /\ InNpshell /\ job.me = i /\ job.cmd.to = j
    /\ job.cmd.stages = 1 \/ job.stage < job.cmd.stages
FilledClosed ==
    Running => \A i, j \in Users : upipe[i][j] # NoEnds /\ i # j =>
        \/ F[upipe[i][j].w] # WriteEnd(slot[i], slot[j], upipe[i][j])
        \/ BeingFilled(i, j)

\* A pipe that was announced as being received is there when the first program
\* is started; the server waits once the last program has been started.
FromPending ==
    pc = "run" /\ job.stage = 0 /\ job.cmd.from # 0 /\ ~job.badIn
        => upipe[job.cmd.from][job.me] # NoEnds
StagesCounted ==
    /\ pc = "run" => job.stage < job.cmd.stages
    /\ pc = "wait" => job.cmd.stages = 1 \/ job.stage = job.cmd.stages

HeldExplained == job.input = "held" => misclose \/ job.cmd.from = job.me

Wired ==
    /\ SocketsOpen /\ PendingPipesIntact /\ NumberedPipesIntact /\ NumberedApart
    /\ DueOpen /\ LastOpen /\ FilledClosed

PipesInv ==
    /\ EndsNamed(F) /\ EntriesWhole /\ FromPending /\ StagesCounted
    /\ HeldExplained /\ ReceivesFromSender
    /\ ~misclose => Wired

-----------------------------------------------------------------------------
(* What the parts are. *)

(* The objects in the table are told apart by kind, users and numbers. *)
LEMMA ObjsDiffer ==
  ASSUME NEW c, NEW d, NEW e \in Ends, NEW a, NEW b, NEW g \in Ends
  PROVE  /\ ReadEnd(c, d, e) = ReadEnd(a, b, g) => c = a /\ d = b /\ e = g
         /\ WriteEnd(c, d, e) = WriteEnd(a, b, g) => c = a /\ d = b /\ e = g
         /\ ReadEnd(c, d, e) # WriteEnd(a, b, g)
         /\ ReadEnd(c, d, e) # Closed /\ ReadEnd(c, d, e) # Sock(a)
         /\ WriteEnd(c, d, e) # Closed /\ WriteEnd(c, d, e) # Sock(a)
         /\ Sock(c) # Closed /\ (Sock(c) = Sock(a) => c = a)
<1>1. e = [r |-> e.r, w |-> e.w] /\ g = [r |-> g.r, w |-> g.w]
  BY DEF Ends
<1>2. /\ ReadEnd(c, d, e).kind = "rd" /\ WriteEnd(a, b, g).kind = "wr"
      /\ WriteEnd(c, d, e).kind = "wr" /\ Closed.kind = "free" /\ Sock(a).kind = "sock"
      /\ Sock(c).kind = "sock"
  BY DEF ReadEnd, WriteEnd, Closed, Sock
<1>3. /\ ReadEnd(c, d, e).of = c /\ ReadEnd(c, d, e).to = d
      /\ ReadEnd(c, d, e).r = e.r /\ ReadEnd(c, d, e).w = e.w
      /\ ReadEnd(a, b, g).of = a /\ ReadEnd(a, b, g).to = b
      /\ ReadEnd(a, b, g).r = g.r /\ ReadEnd(a, b, g).w = g.w
  BY DEF ReadEnd
<1>4. /\ WriteEnd(c, d, e).of = c /\ WriteEnd(c, d, e).to = d
      /\ WriteEnd(c, d, e).r = e.r /\ WriteEnd(c, d, e).w = e.w
      /\ WriteEnd(a, b, g).of = a /\ WriteEnd(a, b, g).to = b
      /\ WriteEnd(a, b, g).r = g.r /\ WriteEnd(a, b, g).w = g.w
  BY DEF WriteEnd
<1>5. Sock(c).of = c /\ Sock(a).of = a
  BY DEF Sock
<1>6. ReadEnd(c, d, e) = ReadEnd(a, b, g) => c = a /\ d = b /\ e = g
  BY <1>1, <1>3
<1>7. WriteEnd(c, d, e) = WriteEnd(a, b, g) => c = a /\ d = b /\ e = g
  BY <1>1, <1>4
<1>8. QED
  BY <1>2, <1>5, <1>6, <1>7

LEMMA Typing ==
  ASSUME IInv
  PROVE  /\ F \in Table /\ job \in Job /\ job.due \in Ends /\ job.tmp \in Ends
         /\ \A i \in Online : i \in Users /\ slot[i] \in Clients /\ slot[i] # NoClient
                              /\ ufd[i] \in FD
         /\ \A i, j \in Online : slot[i] = slot[j] => i = j
         /\ \A i, j \in Users : upipe[i][j] \in Ends
         /\ \A i \in Users : \A n \in 1 .. MaxNum : nump[i][n].ends \in Ends
         /\ NoEnds \in Ends
<1>1. F \in Table /\ job \in Job /\ job.due \in Ends /\ job.tmp \in Ends
  BY DEF IInv, TypeOK, Table, Job
<1>2. \A i \in Online : i \in Users /\ slot[i] \in Clients /\ slot[i] # NoClient
                        /\ ufd[i] \in FD
  BY DEF IInv, TypeOK, Members, FdIdentifiesUser, Online
<1>3. \A i, j \in Online : slot[i] = slot[j] => i = j
  BY DEF IInv, Members
<1>4. \A i, j \in Users : upipe[i][j] \in Ends
  BY DEF IInv, TypeOK
<1>5. \A i \in Users : \A n \in 1 .. MaxNum : nump[i][n].ends \in Ends
  BY DEF IInv, TypeOK, NumEntry
<1>6. QED
  BY <1>1, <1>2, <1>3, <1>4, <1>5 DEF NoEnds, Ends

(* pipe() opens an end on each of two numbers that were free. *)
LEMMA Opened ==
  ASSUME NEW T \in Table, CanPipe(T),
         NEW c \in Clients \cup {NoClient}, NEW d \in Clients \cup {NoClient}
  PROVE  LET e == NewEnds(T)
             G == OpenPipe(T, c, d)
         IN  /\ e \in Ends /\ e.r \in FD /\ e.w \in FD /\ e.r # e.w /\ e # NoEnds
             /\ T[e.r] = Closed /\ T[e.w] = Closed /\ G \in Table
             /\ G[e.r] = ReadEnd(c, d, e) /\ G[e.w] = WriteEnd(c, d, e)
             /\ \A f \in FD \ {e.r, e.w} : G[f] = T[f]
             /\ EndsNamed(T) => EndsNamed(G)
<1> DEFINE e == NewEnds(T)
           G == OpenPipe(T, c, d)
<1>1. /\ e \in Ends /\ e.r \in FD /\ e.w \in FD /\ e.r # e.w
      /\ T[e.r] = Closed /\ T[e.w] = Closed /\ NewFd(T) = e.r
  BY NewEndsAreFree
<1>2. /\ G \in Table /\ G[e.r] = ReadEnd(c, d, e) /\ G[e.w] = WriteEnd(c, d, e)
      /\ \A f \in FD \ {e.r, e.w} : G[f] = T[f]
  BY <1>1, OpenPipeTable
<1>3. e # NoEnds
  BY <1>1 DEF NoEnds, FD, Nil
<1> HIDE DEF e, G
<1>4. /\ G[e.r].kind = "rd" /\ G[e.r].r = e.r /\ G[e.r].w = e.w
      /\ G[e.w].kind = "wr" /\ G[e.w].r = e.r /\ G[e.w].w = e.w
  BY <1>2 DEF ReadEnd, WriteEnd
<1>5. EndsNamed(T) => EndsNamed(G)
  BY <1>1, <1>2, <1>4 DEF EndsNamed
<1>6. QED
  BY <1>1, <1>2, <1>3, <1>5 DEF e, G

LEMMA ClosedAll ==
  ASSUME NEW T \in Table, NEW S
  PROVE  /\ CloseAll(T, S) \in Table /\ (EndsNamed(T) => EndsNamed(CloseAll(T, S)))
         /\ \A f \in FD : CloseAll(T, S)[f] = IF f \in S THEN Closed ELSE T[f]
<1>1. \A f \in FD : CloseAll(T, S)[f] = IF f \in S THEN Closed ELSE T[f]
  BY CloseAllTable
<1>2. Closed.kind = "free"
  BY DEF Closed
<1>3. EndsNamed(T) => EndsNamed(CloseAll(T, S))
  BY <1>1, <1>2 DEF EndsNamed
<1>4. QED
  BY <1>1, <1>3, CloseAllTable

(* What the wiring says of each descriptor, pipe and entry. *)
LEMMA Sockets ==
  ASSUME IInv, SocketsOpen, NEW j \in Online
  PROVE  ufd[j] \in FD /\ F[ufd[j]] = Sock(slot[j]) /\ F[ufd[j]] # Closed
<1>1. ufd[j] \in FD /\ F[ufd[j]] = Sock(slot[j])
  BY Typing DEF SocketsOpen
<1>2. Sock(slot[j]) # Closed
  BY DEF Sock, Closed
<1>3. QED
  BY <1>1, <1>2

LEMMA Pendings ==
  ASSUME IInv, EndsNamed(F), PendingPipesIntact,
         NEW a \in Users, NEW b \in Users, upipe[a][b] # NoEnds
  PROVE  LET e == upipe[a][b]
         IN  /\ a \in Online /\ b \in Online /\ slot[b] # NoClient
             /\ e \in Ends /\ e.r \in FD /\ e.w \in FD /\ e.r # e.w
             /\ F[e.r] = ReadEnd(slot[a], slot[b], e) /\ F[e.r] # Closed
<1> DEFINE e == upipe[a][b]
<1>1. /\ a \in Online /\ b \in Online /\ slot[b] # NoClient
      /\ e \in Ends /\ e.r \in FD /\ e.w \in FD
  BY Typing DEF IInv, PipesBetweenOnline
<1>2. F[e.r] = ReadEnd(slot[a], slot[b], e)
  BY DEF PendingPipesIntact
<1> HIDE DEF e
<1>3. F[e.r].kind = "rd" /\ F[e.r].r = e.r /\ F[e.r].w = e.w
  BY <1>2 DEF ReadEnd
<1>4. e.r # e.w /\ F[e.r] # Closed
  BY <1>1, <1>3 DEF EndsNamed, Closed
<1>5. QED
  BY <1>1, <1>2, <1>4 DEF e

LEMMA Numbereds ==
  ASSUME IInv, EndsNamed(F), EntriesWhole, NumberedPipesIntact,
         NEW j \in Online, NEW n \in 1 .. MaxNum, nump[j][n].ends # NoEnds
  PROVE  LET e == nump[j][n].ends
         IN  /\ j \in Users /\ e \in Ends /\ e.r \in FD /\ e.w \in FD /\ e.r # e.w
             /\ F[e.r] = ReadEnd(slot[j], NoClient, e) /\ F[e.r] # Closed
             /\ F[e.w] = WriteEnd(slot[j], NoClient, e) /\ F[e.w] # Closed
<1> DEFINE e == nump[j][n].ends
<1>1. j \in Users /\ e \in Ends /\ e.r \in FD /\ e.w \in FD
  BY Typing DEF EntriesWhole, Whole
<1>2. F[e.r] = ReadEnd(slot[j], NoClient, e) /\ F[e.w] = WriteEnd(slot[j], NoClient, e)
  BY DEF NumberedPipesIntact
<1> HIDE DEF e
<1>3. F[e.r].kind = "rd" /\ F[e.r].r = e.r /\ F[e.r].w = e.w /\ F[e.w].kind = "wr"
  BY <1>2 DEF ReadEnd, WriteEnd
<1>4. e.r # e.w /\ F[e.r] # Closed /\ F[e.w] # Closed
  BY <1>1, <1>3 DEF EndsNamed, Closed
<1>5. QED
  BY <1>1, <1>2, <1>4 DEF e

(***************************************************************************)
(* Whose a descriptor is, from what it refers to: closing a free number or *)
(* an end of one pipe does nothing to the sockets and to the other pipes.  *)
(***************************************************************************)
LEMMA Whose ==
  ASSUME IInv, EndsNamed(F), EntriesWhole,
         SocketsOpen, PendingPipesIntact, NumberedPipesIntact,
         NEW f \in FD, NEW c, NEW d, NEW e \in Ends,
         F[f] \in {Closed, ReadEnd(c, d, e), WriteEnd(c, d, e)}
  PROVE  /\ \A j \in Online : ufd[j] # f
         /\ \A a, b \in Users : upipe[a][b] # NoEnds /\ f = upipe[a][b].r =>
               /\ F[f] # Closed /\ f = e.r
               /\ slot[a] = c /\ slot[b] = d /\ upipe[a][b] = e
         /\ \A j \in Online : \A n \in 1 .. MaxNum :
               nump[j][n].ends # NoEnds
                 /\ (f = nump[j][n].ends.r \/ f = nump[j][n].ends.w) =>
               /\ F[f] # Closed
               /\ slot[j] = c /\ d = NoClient /\ nump[j][n].ends = e
<1>1. ASSUME NEW j \in Online, ufd[j] = f
      PROVE  FALSE
  <2>1. F[f] = Sock(slot[j]) /\ F[f] # Closed
    BY <1>1, Sockets
  <2>2. QED
    BY <2>1 DEF Sock, ReadEnd, WriteEnd
<1>2. ASSUME NEW a \in Users, NEW b \in Users, upipe[a][b] # NoEnds, f = upipe[a][b].r
      PROVE  /\ F[f] # Closed /\ f = e.r
             /\ slot[a] = c /\ slot[b] = d /\ upipe[a][b] = e
  <2>1. PICK g \in Ends : g = upipe[a][b]
    BY Typing
  <2>2. F[f] = ReadEnd(slot[a], slot[b], g) /\ F[f] # Closed
    BY <1>2, <2>1, Pendings
  <2>3. slot[a] = c /\ slot[b] = d /\ g = e
    BY <2>2, ObjsDiffer
  <2>4. QED
    BY <1>2, <2>1, <2>2, <2>3
<1>3. ASSUME NEW j \in Online, NEW n \in 1 .. MaxNum, nump[j][n].ends # NoEnds,
             f = nump[j][n].ends.r \/ f = nump[j][n].ends.w
      PROVE  /\ F[f] # Closed
             /\ slot[j] = c /\ d = NoClient /\ nump[j][n].ends = e
  <2>1. PICK g \in Ends : g = nump[j][n].ends
    BY Typing DEF Online
  <2>2. /\ F[g.r] = ReadEnd(slot[j], NoClient, g) /\ F[g.r] # Closed
        /\ F[g.w] = WriteEnd(slot[j], NoClient, g) /\ F[g.w] # Closed
    BY <1>3, <2>1, Numbereds
  <2>3. slot[j] = c /\ d = NoClient /\ g = e /\ F[f] # Closed
    BY <1>3, <2>1, <2>2, ObjsDiffer
  <2>4. QED
    BY <2>1, <2>3
<1>4. QED
  BY <1>1, <1>2, <1>3

-----------------------------------------------------------------------------
(* A server that has just started satisfies the invariant. *)
LEMMA InitPipes == Init => PipesInv
<1> SUFFICES ASSUME Init PROVE PipesInv
  OBVIOUS
<1>1. Online = {} /\ Closed.kind = "free" /\ pc = "select" /\ job = NoJob
  BY DEF Init, Online, Closed
<1>2. EndsNamed(F)
  BY <1>1 DEF Init, EndsNamed
<1>3. EntriesWhole
  BY <1>1 DEF Init, EntriesWhole, Whole, NoPipes, NoEntry, NoJob
<1>4. FromPending /\ StagesCounted /\ HeldExplained /\ ReceivesFromSender
  BY <1>1 DEF FromPending, StagesCounted, HeldExplained, ReceivesFromSender, Started, NoJob
<1>5. Wired
  BY <1>1 DEF Init, Wired, SocketsOpen, PendingPipesIntact, NumberedPipesIntact,
     NumberedApart, DueOpen, LastOpen, FilledClosed, InNpshell
<1>6. QED
  BY <1>2, <1>3, <1>4, <1>5 DEF PipesInv

-----------------------------------------------------------------------------
(* What a step must leave alone for the wiring to stay right. *)

\* A user's pipes for his next commands: as they were, or those left after one
\* more command (none of them, for a new user).
Later(p, q) ==
    \/ \A n \in 1 .. MaxNum : q[n].ends = p[n].ends
    \/ \A n \in 1 .. MaxNum : q[n].ends # NoEnds =>
           n + 1 \in 1 .. MaxNum /\ q[n].ends = p[n + 1].ends

LEMMA Ticked ==
  ASSUME NEW p \in [1 .. MaxNum -> NumEntry], NEW n \in 1 .. MaxNum
  PROVE  /\ Tick(p) \in [1 .. MaxNum -> NumEntry]
         /\ n = MaxNum => Tick(p)[n] = NoEntry
         /\ n # MaxNum => n + 1 \in 1 .. MaxNum /\ Tick(p)[n] = p[n + 1]
<1>1. MaxNum \in Nat /\ NoEntry \in NumEntry
  BY ServerAssumption DEF NoEntry, NumEntry, NoEnds, Ends
<1>2. \A m \in 1 .. MaxNum : m # MaxNum => m + 1 \in 1 .. MaxNum
  BY <1>1
<1>3. QED
  BY <1>1, <1>2 DEF Tick

LEMMA TickedLater ==
  ASSUME NEW p \in [1 .. MaxNum -> NumEntry]
  PROVE  Later(p, Tick(p))
<1>1. NoEntry.ends = NoEnds
  BY DEF NoEntry
<1>2. QED
  BY <1>1, Ticked DEF Later

LEMMA WiringKept ==
  ASSUME IInv, IInv', EndsNamed(F), EntriesWhole,
         SocketsOpen, PendingPipesIntact, NumberedPipesIntact, NumberedApart,
         \A j \in Online' :
            \/ /\ j \in Online /\ slot'[j] = slot[j] /\ ufd'[j] = ufd[j]
               /\ F'[ufd[j]] = F[ufd[j]] /\ Later(nump[j], nump'[j])
            \/ F'[ufd'[j]] = Sock(slot'[j]) /\ nump'[j] = NoPipes,
         \A a, b \in Users : upipe'[a][b] # NoEnds =>
            /\ upipe'[a][b] = upipe[a][b] /\ slot'[a] = slot[a] /\ slot'[b] = slot[b]
            /\ F'[upipe[a][b].r] = F[upipe[a][b].r],
         \A j \in Online : \A n \in 1 .. MaxNum :
            j \in Online' /\ nump[j][n].ends # NoEnds =>
            /\ F'[nump[j][n].ends.r] = F[nump[j][n].ends.r]
            /\ F'[nump[j][n].ends.w] = F[nump[j][n].ends.w]
  PROVE  (SocketsOpen /\ PendingPipesIntact /\ NumberedPipesIntact /\ NumberedApart)'
<1>1. \A n \in 1 .. MaxNum : NoPipes[n].ends = NoEnds
  BY DEF NoPipes, NoEntry
<1>2. SocketsOpen'
  BY DEF SocketsOpen
<1>3. PendingPipesIntact'
  <2> SUFFICES ASSUME NEW a \in Users, NEW b \in Users, upipe'[a][b] # NoEnds
               PROVE  /\ a \in Online' /\ b \in Online'
                      /\ F'[upipe'[a][b].r]
                           = ReadEnd(slot'[a], slot'[b], upipe'[a][b])
    BY DEF PendingPipesIntact
  <2>1. a \in Online' /\ b \in Online'
    BY DEF IInv, PipesBetweenOnline
  <2>2. F[upipe[a][b].r] = ReadEnd(slot[a], slot[b], upipe[a][b])
    BY DEF PendingPipesIntact
  <2>3. QED
    BY <2>1, <2>2
<1>4. ASSUME NEW j \in Online', NEW n \in 1 .. MaxNum, nump'[j][n].ends # NoEnds
      PROVE  /\ j \in Online /\ slot'[j] = slot[j] /\ Later(nump[j], nump'[j])
             /\ \E m \in 1 .. MaxNum : nump'[j][n].ends = nump[j][m].ends
  <2>1. j \in Online /\ slot'[j] = slot[j] /\ Later(nump[j], nump'[j])
    BY <1>1, <1>4
  <2>2. \E m \in 1 .. MaxNum : nump'[j][n].ends = nump[j][m].ends
    BY <1>4, <2>1 DEF Later
  <2>3. QED
    BY <2>1, <2>2
<1>5. NumberedPipesIntact'
  <2> SUFFICES ASSUME NEW j \in Online', NEW n \in 1 .. MaxNum, nump'[j][n].ends # NoEnds
               PROVE  LET e == nump'[j][n].ends
                      IN  /\ F'[e.r] = ReadEnd(slot'[j], NoClient, e)
                          /\ F'[e.w] = WriteEnd(slot'[j], NoClient, e)
    BY DEF NumberedPipesIntact
  <2>1. j \in Online /\ slot'[j] = slot[j]
    BY <1>4
  <2>2. PICK m \in 1 .. MaxNum : nump'[j][n].ends = nump[j][m].ends
    BY <1>4
  <2>3. LET e == nump[j][m].ends
        IN  /\ F[e.r] = ReadEnd(slot[j], NoClient, e)
            /\ F[e.w] = WriteEnd(slot[j], NoClient, e)
            /\ F'[e.r] = F[e.r] /\ F'[e.w] = F[e.w]
    BY <2>1, <2>2, Numbereds
  <2>4. QED
    BY <2>1, <2>2, <2>3
<1>6. NumberedApart'
  <2> SUFFICES ASSUME NEW j \in Online', NEW m \in 1 .. MaxNum, NEW n \in 1 .. MaxNum,
                      nump'[j][m].ends = nump'[j][n].ends, nump'[j][n].ends # NoEnds
               PROVE  m = n
    BY DEF NumberedApart
  <2>1. j \in Online /\ Later(nump[j], nump'[j])
    BY <1>4
  <2>2. CASE \A k \in 1 .. MaxNum : nump'[j][k].ends = nump[j][k].ends
    BY <2>1, <2>2 DEF NumberedApart
  <2>3. CASE \A k \in 1 .. MaxNum : nump'[j][k].ends # NoEnds =>
                k + 1 \in 1 .. MaxNum /\ nump'[j][k].ends = nump[j][k + 1].ends
    <3>1. m + 1 = n + 1
      BY <2>1, <2>3 DEF NumberedApart
    <3>2. QED
      BY <3>1
  <2>4. QED
    BY <2>1, <2>2, <2>3 DEF Later
<1>7. QED
  BY <1>2, <1>3, <1>5, <1>6

LEMMA FilledKept ==
  ASSUME FilledClosed, Running' => Running,
         \A a, b \in Users : Running' /\ upipe'[a][b] # NoEnds /\ a # b =>
            /\ upipe'[a][b] = upipe[a][b] /\ slot'[a] = slot[a] /\ slot'[b] = slot[b]
            /\ \/ F'[upipe[a][b].w] # WriteEnd(slot[a], slot[b], upipe[a][b])
               \/ /\ F'[upipe[a][b].w] = F[upipe[a][b].w]
                  /\ BeingFilled(a, b) => BeingFilled(a, b)'
  PROVE  FilledClosed'
BY DEF FilledClosed

-----------------------------------------------------------------------------
(* One lemma for each group of steps. *)

(* Nothing that the invariant is about changes. *)
LEMMA SameServer ==
  ASSUME PipesInv, UNCHANGED <<slot, ufd, nump, upipe, F, misclose, pc, job>>
  PROVE  PipesInv'
<1>1. /\ Online' = Online /\ InNpshell' = InNpshell /\ Running' = Running
      /\ Started' = Started
  BY DEF Online, InNpshell, Running, Started
<1>2. EndsNamed(F)' /\ EntriesWhole' /\ FromPending' /\ StagesCounted' /\ HeldExplained'
  BY DEF PipesInv, EndsNamed, EntriesWhole, Whole, FromPending, StagesCounted,
     HeldExplained
<1>3. ReceivesFromSender'
  BY <1>1 DEF PipesInv, ReceivesFromSender
<1>4. Wired => (SocketsOpen /\ PendingPipesIntact /\ NumberedPipesIntact /\ NumberedApart)'
  BY <1>1 DEF Wired, SocketsOpen, PendingPipesIntact, NumberedPipesIntact, NumberedApart
<1>5. Wired => (DueOpen /\ LastOpen)'
  BY <1>1 DEF Wired, DueOpen, LastOpen, Apart
<1>6. Wired => FilledClosed'
  BY <1>1 DEF Wired, FilledClosed, BeingFilled
<1>7. QED
  BY <1>2, <1>3, <1>4, <1>5, <1>6 DEF PipesInv, Wired

(* What only concerns npshell() holds outside of it. *)
LEMMA Outside ==
  ASSUME HeldExplained, misclose => misclose', job' \in {job, NoJob},
         pc' \notin {"run", "wait"}
  PROVE  /\ (FromPending /\ StagesCounted /\ HeldExplained /\ ReceivesFromSender)'
         /\ (DueOpen /\ LastOpen)'
<1>1. NoJob.input = "ends"
  BY DEF NoJob
<1>2. HeldExplained'
  BY <1>1 DEF HeldExplained
<1>3. QED
  BY <1>2 DEF FromPending, StagesCounted, ReceivesFromSender, Started, DueOpen, LastOpen,
     InNpshell

LEMMA OutsideWhole ==
  ASSUME IInv, EntriesWhole, job' \in {job, NoJob},
         \A i \in Users : Later(nump[i], nump'[i])
  PROVE  EntriesWhole'
<1>1. Whole(job'.due) /\ Whole(job'.tmp)
  BY DEF EntriesWhole, NoJob, Whole
<1>2. \A i \in Users : \A n \in 1 .. MaxNum : Whole(nump'[i][n].ends)
  BY DEF EntriesWhole, Later, Whole
<1>3. QED
  BY <1>1, <1>2 DEF EntriesWhole, Whole

(***************************************************************************)
(* A step outside npshell(), or out of it, that moves no user and no       *)
(* descriptor: at most a command of one user is counted.                   *)
(***************************************************************************)
LEMMA QuietStep ==
  ASSUME IInv, IInv', PipesInv, UNCHANGED <<slot, ufd, upipe, F, misclose>>,
         job' \in {job, NoJob}, pc' \notin {"run", "wait"},
         \A i \in Users : Later(nump[i], nump'[i]),
         Running' => Running /\ \A a, b \in Users : ~BeingFilled(a, b)
  PROVE  PipesInv'
<1> USE DEF PipesInv
<1>1. Online' = Online
  BY DEF Online
<1>2. (FromPending /\ StagesCounted /\ HeldExplained /\ ReceivesFromSender)'
      /\ (DueOpen /\ LastOpen)'
  BY Outside
<1>3. EndsNamed(F)' /\ EntriesWhole'
  BY OutsideWhole DEF EndsNamed
<1>4. ASSUME Wired
      PROVE  Wired'
  <2>1. (SocketsOpen /\ PendingPipesIntact /\ NumberedPipesIntact /\ NumberedApart)'
    BY <1>1, <1>4, WiringKept DEF Wired, Online
  <2>2. FilledClosed'
    BY <1>4, FilledKept DEF Wired
  <2>3. QED
    BY <1>2, <2>1, <2>2 DEF Wired
<1>5. QED
  BY <1>2, <1>3, <1>4

LEMMA LoopPipes ==
  ASSUME IInv, IInv', PipesInv,
         \/ SelectFails \/ Select \/ AcceptFails
         \/ \E fd \in FD : ReadNothing(fd) \/ ReadPipe(fd)
  PROVE  PipesInv'
<1>1. /\ UNCHANGED <<slot, ufd, upipe, nump, F, misclose, job>>
      /\ pc \in {"select", "accept", "serve"} /\ pc' \in PC \ {"run", "wait"}
  BY DEF SelectFails, Select, AcceptFails, ReadNothing, ReadPipe, Turn, Loop,
     AfterSelect, PC, uvars, pvars
<1>2. \A i \in Users : Later(nump[i], nump'[i])
  BY <1>1 DEF Later
<1>3. Running /\ \A a, b \in Users : ~BeingFilled(a, b)
  BY <1>1 DEF Running, BeingFilled, InNpshell
<1>4. QED
  BY <1>1, <1>2, <1>3, QuietStep DEF PC

LEMMA BuiltinPipes ==
  ASSUME IInv, IInv', PipesInv, NEW fd \in FD, NEW c \in Clients,
         \/ BlankLine(fd, c) \/ Chat(fd, c) \/ ShellExit(fd, c)
         \/ \E n \in Names : Rename(fd, c, n)
         \/ \E v \in Vars, x \in Vals : Setenv(fd, c, v, x)
  PROVE  PipesInv'
<1>1. TakeLine(fd, c) /\ UNCHANGED <<slot, ufd, upipe, F, misclose, job>>
  BY DEF BlankLine, Chat, ShellExit, Rename, Setenv, uvars, pvars
<1>2. pc = "serve" /\ Index(fd) \in Users
  BY <1>1, TakeLineFacts DEF Online
<1>3. pc' \notin {"run", "wait"}
  BY OutcomesAre DEF BlankLine, Chat, ShellExit, Rename, Setenv, Finish, Loop
<1>4. CountCommand(Index(fd)) \/ UNCHANGED nump
  BY DEF BlankLine, Chat, ShellExit, Rename, Setenv, pvars
<1>5. \A i \in Users : Later(nump[i], nump'[i])
  <2>1. Later(nump[Index(fd)], Tick(nump[Index(fd)]))
    BY <1>2, TickedLater DEF IInv, TypeOK
  <2>2. \A i \in Users : Later(nump[i], nump[i])
    BY DEF Later
  <2>3. CASE CountCommand(Index(fd))
    <3>1. nump' = [nump EXCEPT ![Index(fd)] = Tick(nump[Index(fd)])]
      BY <2>3 DEF CountCommand
    <3>2. QED
      BY <1>2, <2>1, <2>2, <3>1 DEF IInv, TypeOK
  <2>4. QED
    BY <1>4, <2>2, <2>3
<1>6. Running /\ \A a, b \in Users : ~BeingFilled(a, b)
  BY <1>2 DEF Running, BeingFilled, InNpshell
<1>7. QED
  BY <1>1, <1>3, <1>5, <1>6, QuietStep

(* The end of a pipeline, and a pipe() that fails within one. *)
LEMMA PipelineEnds ==
  ASSUME IInv, IInv', PipesInv, ReapPipeline \/ StageFails
  PROVE  PipesInv'
<1>1. UNCHANGED <<slot, ufd, upipe, nump, F, misclose>> /\ job' \in {job, NoJob}
  BY DEF ReapPipeline, StageFails, uvars, pvars
<1>2. \A i \in Users : Later(nump[i], nump'[i])
  BY <1>1 DEF Later
<1>3. CASE ReapPipeline
  <2>1. pc = "wait" /\ job.cmd.stages > 1 /\ pc' \notin {"run", "wait"}
    BY <1>3, OutcomesAre DEF ReapPipeline, CanReap, Loop
  <2>2. job.cmd.stages \in Nat /\ job.stage \in Nat
    BY DEF IInv, TypeOK, Job, Cmd
  <2>3. job.stage = job.cmd.stages /\ job.cmd.stages # 1
    BY <2>1, <2>2 DEF PipesInv, StagesCounted
  <2>4. \A a, b \in Users : ~BeingFilled(a, b)
    BY <2>2, <2>3 DEF BeingFilled
  <2>5. QED
    BY <1>1, <1>2, <2>1, <2>4, QuietStep DEF Running
<1>4. CASE StageFails
  BY <1>1, <1>2, <1>4, QuietStep DEF StageFails, Running
<1>5. QED
  BY <1>3, <1>4

\* The step leaves every socket and every waiting pipe as they were (the write
\* end of a user pipe may have been closed before, and its number be reused).
SparesAll ==
    /\ \A j \in Online : F'[ufd[j]] = F[ufd[j]]
    /\ \A a, b \in Users : upipe[a][b] # NoEnds =>
          /\ F'[upipe[a][b].r] = F[upipe[a][b].r]
          /\ \/ F'[upipe[a][b].w] = F[upipe[a][b].w]
             \/ F'[upipe[a][b].w] # WriteEnd(slot[a], slot[b], upipe[a][b])
    /\ \A j \in Online : \A n \in 1 .. MaxNum : nump[j][n].ends # NoEnds =>
          /\ F'[nump[j][n].ends.r] = F[nump[j][n].ends.r]
          /\ F'[nump[j][n].ends.w] = F[nump[j][n].ends.w]

(* A new connection takes a free number, so it is none of a pipe's. *)
LEMMA NewSocketKeeps ==
  ASSUME IInv, PipesInv, NEW c \in Clients, CanOpen(F), NEW s \in FD, s = NewFd(F),
         F' = [F EXCEPT ![s] = Sock(c)]
  PROVE  /\ F'[s] = Sock(c) /\ \A f \in FD \ {s} : F'[f] = F[f]
         /\ EndsNamed(F)'
         /\ Wired => SparesAll
<1> USE DEF PipesInv
<1>1. F[s] = Closed
  BY NewFdIsFree DEF IInv, TypeOK, Table
<1>2. F'[s] = Sock(c) /\ \A f \in FD \ {s} : F'[f] = F[f]
  BY DEF IInv, TypeOK
<1>3. Sock(c).kind = "sock" /\ \A a, b, e : WriteEnd(a, b, e).kind = "wr"
  BY DEF Sock, WriteEnd
<1>4. EndsNamed(F)'
  BY <1>2, <1>3 DEF EndsNamed
<1>5. ASSUME Wired
      PROVE  \A j \in Online : F'[ufd[j]] = F[ufd[j]]
  BY <1>1, <1>2, <1>5, Sockets DEF Wired
<1>6. ASSUME Wired, NEW a \in Users, NEW b \in Users, upipe[a][b] # NoEnds
      PROVE  /\ F'[upipe[a][b].r] = F[upipe[a][b].r]
             /\ \/ F'[upipe[a][b].w] = F[upipe[a][b].w]
                \/ F'[upipe[a][b].w] # WriteEnd(slot[a], slot[b], upipe[a][b])
  <2>1. /\ upipe[a][b].r \in FD /\ upipe[a][b].w \in FD
        /\ F[upipe[a][b].r] # Closed
    BY <1>6, Pendings DEF Wired
  <2>2. QED
    BY <1>1, <1>2, <1>3, <2>1
<1>7. ASSUME Wired, NEW j \in Online, NEW n \in 1 .. MaxNum, nump[j][n].ends # NoEnds
      PROVE  /\ F'[nump[j][n].ends.r] = F[nump[j][n].ends.r]
             /\ F'[nump[j][n].ends.w] = F[nump[j][n].ends.w]
  <2>1. /\ nump[j][n].ends.r \in FD /\ nump[j][n].ends.w \in FD
        /\ F[nump[j][n].ends.r] # Closed /\ F[nump[j][n].ends.w] # Closed
    BY <1>7, Numbereds DEF Wired
  <2>2. QED
    BY <1>1, <1>2, <2>1
<1>8. QED
  BY <1>2, <1>4, <1>5, <1>6, <1>7 DEF SparesAll

(* A new user has no pipes; without a free entry nothing but the table changes. *)
LEMMA AcceptPipes ==
  ASSUME IInv, IInv', PipesInv, NEW c \in Clients, Accept(c)
  PROVE  PipesInv'
<1> USE DEF PipesInv
<1> DEFINE i == FreeEntry
           s == NewFd(F)
<1>1. /\ pc = "accept" /\ CanOpen(F) /\ Online # Users
      /\ F' = [F EXCEPT ![s] = Sock(c)]
      /\ slot' = [slot EXCEPT ![i] = c] /\ ufd' = [ufd EXCEPT ![i] = s]
      /\ nump' = [nump EXCEPT ![i] = NoPipes]
      /\ UNCHANGED <<upipe, misclose, job>>
  BY DEF Accept, UserinInit
<1>2. i \in Users /\ i \notin Online /\ s \in FD
  BY <1>1, FreeEntryIsFree, NewFdIsFree DEF IInv, TypeOK, Table, Online
<1>3. pc' \notin {"run", "wait"}
  BY OutcomesAre DEF Accept, Loop
<1>4. F'[s] = Sock(c) /\ EndsNamed(F)' /\ (Wired => SparesAll)
  <2> HIDE DEF s
  <2>1. QED
    BY <1>1, <1>2, NewSocketKeeps DEF s
<1> HIDE DEF i, s
<1>5. /\ slot'[i] = c /\ ufd'[i] = s /\ nump'[i] = NoPipes
      /\ \A j \in Users \ {i} :
            slot'[j] = slot[j] /\ ufd'[j] = ufd[j] /\ nump'[j] = nump[j]
  BY <1>1, <1>2 DEF IInv, TypeOK
<1>6. \A j \in Users : Later(nump[j], nump'[j])
  <2>1. \A n \in 1 .. MaxNum : NoPipes[n].ends = NoEnds
    BY DEF NoPipes, NoEntry
  <2>2. QED
    BY <1>5, <2>1 DEF Later
<1>7. (FromPending /\ StagesCounted /\ HeldExplained /\ ReceivesFromSender)'
      /\ (DueOpen /\ LastOpen)' /\ EntriesWhole'
  BY <1>1, <1>3, <1>6, Outside, OutsideWhole
<1>8. ASSUME Wired
      PROVE  Wired'
  <2>1. \A j \in Online' :
          \/ /\ j \in Online /\ slot'[j] = slot[j] /\ ufd'[j] = ufd[j]
             /\ F'[ufd[j]] = F[ufd[j]] /\ Later(nump[j], nump'[j])
          \/ F'[ufd'[j]] = Sock(slot'[j]) /\ nump'[j] = NoPipes
    BY <1>4, <1>5, <1>6, <1>8 DEF Online, SparesAll
  <2>2. \A a, b \in Users : upipe'[a][b] # NoEnds =>
          /\ upipe'[a][b] = upipe[a][b] /\ slot'[a] = slot[a] /\ slot'[b] = slot[b]
          /\ F'[upipe[a][b].r] = F[upipe[a][b].r]
          /\ \/ F'[upipe[a][b].w] = F[upipe[a][b].w]
             \/ F'[upipe[a][b].w] # WriteEnd(slot[a], slot[b], upipe[a][b])
    BY <1>1, <1>2, <1>4, <1>5, <1>8 DEF SparesAll, IInv, PipesBetweenOnline
  <2>3. (SocketsOpen /\ PendingPipesIntact /\ NumberedPipesIntact /\ NumberedApart)'
    BY <1>4, <1>8, <2>1, <2>2, WiringKept DEF SparesAll, Wired
  <2>4. Running /\ \A a, b \in Users : ~BeingFilled(a, b)
    BY <1>1 DEF Running, BeingFilled, InNpshell
  <2>5. FilledClosed'
    BY <1>8, <2>2, <2>4, FilledKept DEF Wired
  <2>6. QED
    BY <1>7, <2>3, <2>5 DEF Wired
<1>9. QED
  BY <1>1, <1>4, <1>7, <1>8

LEMMA AcceptOverflowsPipes ==
  ASSUME IInv, IInv', PipesInv, NEW c \in Clients, AcceptOverflows(c)
  PROVE  PipesInv'
<1> USE DEF PipesInv
<1> DEFINE s == NewFd(F)
<1>1. /\ pc = "accept" /\ pc' = "wild" /\ CanOpen(F)
      /\ F' = [F EXCEPT ![s] = Sock(c)]
      /\ UNCHANGED <<slot, ufd, nump, upipe, misclose, job>>
  BY DEF AcceptOverflows, uvars
<1>2. s \in FD
  BY <1>1, NewFdIsFree DEF IInv, TypeOK, Table
<1>3. EndsNamed(F)' /\ (Wired => SparesAll)
  <2> HIDE DEF s
  <2>1. QED
    BY <1>1, <1>2, NewSocketKeeps DEF s
<1>4. Online' = Online /\ \A j \in Users : Later(nump[j], nump'[j])
  BY <1>1 DEF Online, Later
<1>5. (FromPending /\ StagesCounted /\ HeldExplained /\ ReceivesFromSender)'
      /\ (DueOpen /\ LastOpen)' /\ EntriesWhole'
  BY <1>1, <1>4, Outside, OutsideWhole
<1>6. ASSUME Wired
      PROVE  Wired'
  <2>1. (SocketsOpen /\ PendingPipesIntact /\ NumberedPipesIntact /\ NumberedApart)'
    BY <1>1, <1>3, <1>4, <1>6, WiringKept DEF SparesAll, Wired, Online
  <2>2. FilledClosed'
    BY <1>1 DEF FilledClosed, Running
  <2>3. QED
    BY <1>5, <2>1, <2>2 DEF Wired
<1>7. QED
  BY <1>1, <1>3, <1>5, <1>6

(* "exit" closes the user's socket and the ends of his own pipes.          *)
LEMMA LogoutPipes ==
  ASSUME IInv, IInv', PipesInv, NEW fd \in FD, NEW c \in Clients, Logout(fd, c)
  PROVE  PipesInv'
<1> USE DEF PipesInv
<1> DEFINE i == Index(fd)
           P == Unreceived(i)
           S == ClosedAtLogout(fd, P)
<1>1. /\ TakeLine(fd, c) /\ F' = CloseAll(F, S)
      /\ misclose' = (misclose \/ \E p \in P : PairStrays(p) # {})
      /\ upipe' = [a \in Users |-> [b \in Users |->
                      IF <<a, b>> \in P THEN NoEnds ELSE upipe[a][b]]]
      /\ slot' = [slot EXCEPT ![i] = NoClient] /\ ufd' = [ufd EXCEPT ![i] = Nil]
      /\ UNCHANGED <<nump, job>>
  BY DEF Logout
<1>2. /\ pc = "serve" /\ i \in Online /\ ufd[i] = fd /\ slot[i] = c /\ F[fd] = Sock(c)
  BY <1>1, TakeLineFacts
<1>3. pc' \notin {"run", "wait"}
  BY OutcomesAre DEF Logout, Finish, Loop
<1>4. \A p \in P : /\ p \in Users \X Users /\ upipe[p[1]][p[2]] # NoEnds
                   /\ p[1] \in Online /\ p[2] \in Online
  BY DEF Unreceived, NoEnds, IInv, PipesBetweenOnline
<1>5. \A a, b \in Users : <<a, b>> \notin P /\ upipe[a][b] # NoEnds => a # i /\ b # i
  <2> SUFFICES ASSUME NEW a \in Users, NEW b \in Users,
                      <<a, b>> \notin P, upipe[a][b] # NoEnds
               PROVE  a # i /\ b # i
    OBVIOUS
  <2>1. upipe[a][b].r # Nil
    BY DEF IInv, PipesBetweenOnline, FD, Nil
  <2>2. QED
    BY <2>1 DEF Unreceived
<1>6. \A f \in FD : f \in S => f = fd \/ \E p \in P : f \in PairEnds(p)
  BY DEF ClosedAtLogout
<1>7. \A j \in Users \ {i} : slot'[j] = slot[j] /\ ufd'[j] = ufd[j]
  <2> HIDE DEF i
  <2>1. QED
    BY <1>1 DEF IInv, TypeOK
<1>8. \A j \in Online' : j \in Online /\ j # i
  <2> HIDE DEF i
  <2>1. i \in Users
    BY <1>2 DEF Online
  <2>2. slot'[i] = NoClient
    BY <1>1, <2>1 DEF IInv, TypeOK
  <2>3. QED
    BY <1>7, <2>2 DEF Online
<1>9. \A f \in FD : F'[f] = IF f \in S THEN Closed ELSE F[f]
  <2>1. F \in Table
    BY Typing
  <2> HIDE DEF S
  <2>2. QED
    BY <1>1, <2>1, ClosedAll
<1>10. EndsNamed(F)'
  <2>1. F \in Table
    BY Typing
  <2> HIDE DEF S
  <2>2. QED
    BY <1>1, <2>1, ClosedAll
<1>11. \A j \in Users : Later(nump[j], nump'[j])
  BY <1>1 DEF Later
<1>12. (FromPending /\ StagesCounted /\ HeldExplained /\ ReceivesFromSender)'
       /\ (DueOpen /\ LastOpen)' /\ EntriesWhole'
  BY <1>1, <1>3, <1>11, Outside, OutsideWhole
<1>13. ASSUME ~misclose', NEW p \in P, NEW f \in FD, f \in PairEnds(p)
       PROVE  LET e == upipe[p[1]][p[2]]
              IN  F[f] \in {Closed, ReadEnd(slot[p[1]], slot[p[2]], e),
                                    WriteEnd(slot[p[1]], slot[p[2]], e)}
  <2>1. PairStrays(p) = {}
    BY <1>1, <1>13
  <2>2. QED
    BY <1>13, <2>1 DEF PairStrays, Strays
<1>14. \A a, b \in Users : upipe'[a][b] # NoEnds =>
          /\ <<a, b>> \notin P /\ upipe'[a][b] = upipe[a][b]
  BY <1>1
<1> HIDE DEF i, P, S
<1>15. ASSUME Wired, ~misclose'
       PROVE  Wired'
  <2> USE <1>15 DEF Wired
  <2>1. ASSUME NEW p \in P, NEW f \in FD, f \in PairEnds(p)
        PROVE  /\ \A j \in Online : ufd[j] # f
               /\ \A a, b \in Users : upipe[a][b] # NoEnds /\ f = upipe[a][b].r =>
                     <<a, b>> \in P
               /\ \A j \in Online : \A n \in 1 .. MaxNum : nump[j][n].ends # NoEnds =>
                     f # nump[j][n].ends.r /\ f # nump[j][n].ends.w
    <3>1. PICK x \in Users, y \in Users : p = <<x, y>>
      BY <1>4
    <3>2. PICK e \in Ends : e = upipe[x][y]
      BY Typing
    <3>3. F[f] \in {Closed, ReadEnd(slot[x], slot[y], e), WriteEnd(slot[x], slot[y], e)}
      BY <1>13, <2>1, <3>1, <3>2
    <3>4. /\ \A j \in Online : ufd[j] # f
          /\ \A a, b \in Users : upipe[a][b] # NoEnds /\ f = upipe[a][b].r =>
                slot[a] = slot[x] /\ slot[b] = slot[y]
          /\ \A j \in Online : \A n \in 1 .. MaxNum :
                nump[j][n].ends # NoEnds
                  /\ (f = nump[j][n].ends.r \/ f = nump[j][n].ends.w) =>
                slot[y] = NoClient
      BY <3>3, Whose
    <3>5. x \in Online /\ y \in Online /\ slot[y] # NoClient
      BY <1>4, <3>1, Typing
    <3>6. ASSUME NEW a \in Users, NEW b \in Users, upipe[a][b] # NoEnds, f = upipe[a][b].r
          PROVE  <<a, b>> \in P
      <4>1. a \in Online /\ b \in Online
        BY <3>6, Pendings
      <4>2. a = x /\ b = y
        BY <3>4, <3>5, <3>6, <4>1, Typing
      <4>3. QED
        BY <3>1, <4>2
    <3>7. QED
      BY <3>4, <3>5, <3>6
  <2>2. \A j \in Online' : /\ j \in Online /\ slot'[j] = slot[j] /\ ufd'[j] = ufd[j]
                           /\ F'[ufd[j]] = F[ufd[j]]
    <3> SUFFICES ASSUME NEW j \in Online'
                 PROVE  /\ j \in Online /\ slot'[j] = slot[j] /\ ufd'[j] = ufd[j]
                        /\ F'[ufd[j]] = F[ufd[j]]
      OBVIOUS
    <3>1. /\ j \in Online /\ j # i /\ slot'[j] = slot[j] /\ ufd'[j] = ufd[j]
          /\ ufd[j] \in FD
      BY <1>7, <1>8, Typing
    <3>2. ufd[j] # fd
      BY <1>2, <3>1 DEF IInv, Members, FdIdentifiesUser
    <3>3. QED
      BY <1>6, <1>9, <2>1, <3>1, <3>2
  <2>3. \A a, b \in Users : upipe'[a][b] # NoEnds =>
          /\ upipe'[a][b] = upipe[a][b] /\ slot'[a] = slot[a] /\ slot'[b] = slot[b]
          /\ F'[upipe[a][b].r] = F[upipe[a][b].r]
          /\ \/ F'[upipe[a][b].w] = F[upipe[a][b].w]
             \/ F'[upipe[a][b].w] # WriteEnd(slot[a], slot[b], upipe[a][b])
    <3> SUFFICES ASSUME NEW a \in Users, NEW b \in Users, upipe'[a][b] # NoEnds
                 PROVE  /\ upipe'[a][b] = upipe[a][b]
                        /\ slot'[a] = slot[a] /\ slot'[b] = slot[b]
                        /\ F'[upipe[a][b].r] = F[upipe[a][b].r]
                        /\ \/ F'[upipe[a][b].w] = F[upipe[a][b].w]
                           \/ F'[upipe[a][b].w] # WriteEnd(slot[a], slot[b], upipe[a][b])
      OBVIOUS
    <3>1. <<a, b>> \notin P /\ upipe'[a][b] = upipe[a][b] /\ upipe[a][b] # NoEnds
      BY <1>14
    <3>2. a # i /\ b # i
      BY <1>5, <3>1
    <3>3. PICK e \in Ends : e = upipe[a][b]
      BY Typing
    <3>4. e.r \in FD /\ e.w \in FD /\ F[e.r] = ReadEnd(slot[a], slot[b], e)
      BY <3>1, <3>3, Pendings
    <3>5. e.r # fd
      BY <1>2, <3>4 DEF Sock, ReadEnd
    <3>6. F'[e.r] = F[e.r]
      BY <1>6, <1>9, <2>1, <3>1, <3>3, <3>4, <3>5
    <3>7. F'[e.w] = F[e.w] \/ F'[e.w] # WriteEnd(slot[a], slot[b], e)
      BY <1>9, <3>4 DEF Closed, WriteEnd
    <3>8. QED
      BY <1>7, <3>1, <3>2, <3>3, <3>6, <3>7
  <2>4. \A j \in Online : \A n \in 1 .. MaxNum : nump[j][n].ends # NoEnds =>
          /\ F'[nump[j][n].ends.r] = F[nump[j][n].ends.r]
          /\ F'[nump[j][n].ends.w] = F[nump[j][n].ends.w]
    <3> SUFFICES ASSUME NEW j \in Online, NEW n \in 1 .. MaxNum, nump[j][n].ends # NoEnds
                 PROVE  /\ F'[nump[j][n].ends.r] = F[nump[j][n].ends.r]
                        /\ F'[nump[j][n].ends.w] = F[nump[j][n].ends.w]
      OBVIOUS
    <3>1. PICK e \in Ends : e = nump[j][n].ends
      BY Typing DEF Online
    <3>2. /\ e.r \in FD /\ F[e.r] = ReadEnd(slot[j], NoClient, e)
          /\ e.w \in FD /\ F[e.w] = WriteEnd(slot[j], NoClient, e)
      BY <3>1, Numbereds
    <3>3. e.r # fd /\ e.w # fd
      BY <1>2, <3>2 DEF Sock, ReadEnd, WriteEnd
    <3>4. QED
      BY <1>6, <1>9, <2>1, <3>1, <3>2, <3>3
  <2>5. (SocketsOpen /\ PendingPipesIntact /\ NumberedPipesIntact /\ NumberedApart)'
    <3>1. \A j \in Online' : j \in Online /\ Later(nump[j], nump'[j])
      BY <1>11, <2>2, Typing
    <3>2. QED
      BY <2>2, <2>3, <2>4, <3>1, WiringKept
  <2>6. Running /\ \A a, b \in Users : ~BeingFilled(a, b)
    BY <1>2 DEF Running, BeingFilled, InNpshell
  <2>7. FilledClosed'
    BY <2>3, <2>6, FilledKept
  <2>8. QED
    BY <1>12, <2>5, <2>7
<1>16. QED
  BY <1>1, <1>10, <1>12, <1>15

\* G is the table T in which a pipe e of c for d has been opened, if open.
Grown(T, G, open, c, d, e) ==
    /\ G \in Table /\ (EndsNamed(T) => EndsNamed(G))
    /\ \A f \in FD : T[f] # Closed => G[f] = T[f]
    /\ \A f \in FD : \/ G[f] = T[f]
                     \/ open /\ G[f] \in {ReadEnd(c, d, e), WriteEnd(c, d, e)}
    /\ open => /\ e \in Ends /\ e # NoEnds /\ e.r \in FD /\ e.w \in FD /\ e.r # e.w
               /\ T[e.r] = Closed /\ G[e.r] = ReadEnd(c, d, e)
               /\ T[e.w] = Closed /\ G[e.w] = WriteEnd(c, d, e)

LEMMA MayOpen ==
  ASSUME NEW T \in Table, NEW open \in BOOLEAN, open => CanPipe(T), NEW G,
         NEW c \in Clients \cup {NoClient}, NEW d,
         open => d \in Clients \cup {NoClient},
         G = IF open THEN OpenPipe(T, c, d) ELSE T
  PROVE  Grown(T, G, open, c, d, NewEnds(T))
<1>1. CASE open
  <2>1. PICK e : e = NewEnds(T)
    OBVIOUS
  <2>2. /\ e \in Ends /\ e.r \in FD /\ e.w \in FD /\ e.r # e.w /\ e # NoEnds
        /\ T[e.r] = Closed /\ T[e.w] = Closed /\ G \in Table
        /\ G[e.r] = ReadEnd(c, d, e) /\ G[e.w] = WriteEnd(c, d, e)
        /\ \A f \in FD \ {e.r, e.w} : G[f] = T[f]
        /\ EndsNamed(T) => EndsNamed(G)
    BY <1>1, <2>1, Opened
  <2>3. Grown(T, G, open, c, d, e)
    BY <1>1, <2>2 DEF Grown
  <2>4. QED
    BY <2>1, <2>3
<1>2. CASE ~open
  BY <1>2 DEF Grown
<1>3. QED
  BY <1>1, <1>2

LEMMA NumberedNext ==
  ASSUME IInv', slot' = slot, Online' = Online,
         \A j \in Online : \A n \in 1 .. MaxNum : \A e \in Ends :
            e = nump'[j][n].ends /\ e # NoEnds =>
            /\ F'[e.r] = ReadEnd(slot[j], NoClient, e)
            /\ F'[e.w] = WriteEnd(slot[j], NoClient, e)
  PROVE  NumberedPipesIntact'
<1>1. nump' \in [Users -> [1 .. MaxNum -> NumEntry]]
  BY DEF IInv, TypeOK
<1>2. \A j \in Users : \A n \in 1 .. MaxNum : nump'[j][n] \in NumEntry
  BY <1>1
<1>3. \A j \in Online : \A n \in 1 .. MaxNum : nump'[j][n].ends \in Ends
  BY <1>2 DEF NumEntry, Online
<1>4. QED
  BY <1>3 DEF NumberedPipesIntact

(***************************************************************************)
(* What npshell() does before its first fork(), for the wiring: the user   *)
(* pipe e1 (if user) and the numbered pipe e2 (if num) are new, and of the *)
(* pipe that is due, the write end is closed.                              *)
(***************************************************************************)
ShellChange(i, cmd, due, user, e1, F1, num, e2, F2) ==
    /\ UNCHANGED <<slot, ufd>> /\ pc = "serve" /\ pc' \in {"run", "dead"}
    /\ i \in Online /\ due \in Ends /\ user \in BOOLEAN /\ num \in BOOLEAN
    /\ user => cmd.to \in Online
    /\ Grown(F, F1, user, slot[i], slot[cmd.to], e1)
    /\ Grown(F1, F2, num, slot[i], NoClient, e2)
    /\ due = NoEnds \/ (1 \in 1 .. MaxNum /\ due = nump[i][1].ends)
    /\ F' = CloseAll(F2, {due.w})
    /\ \A a, b \in Users :
          upipe'[a][b] = IF user /\ a = i /\ b = cmd.to THEN e1 ELSE upipe[a][b]
    /\ \A j \in Users \ {i} : nump'[j] = nump[j]
    /\ \A n \in 1 .. MaxNum :
          \/ nump'[i][n].ends = NoEnds
          \/ n + 1 \in 1 .. MaxNum /\ nump'[i][n].ends = nump[i][n + 1].ends
          \/ num /\ n = cmd.num /\ nump'[i][n].ends = e2
    /\ job'.me = i /\ job'.cmd = cmd /\ job'.due = due /\ job'.stage = 0
    /\ 0 < cmd.stages

LEMMA ShellWires ==
  ASSUME IInv, IInv', EndsNamed(F), EntriesWhole, Wired,
         NEW i, NEW cmd, NEW due, NEW user, NEW e1, NEW F1, NEW num, NEW e2, NEW F2,
         ShellChange(i, cmd, due, user, e1, F1, num, e2, F2)
  PROVE  Wired'
<1> USE DEF Wired, ShellChange
<1>1. Online' = Online /\ F \in Table /\ i \in Users
  BY Typing DEF Online
<1>2. F1 \in Table /\ F2 \in Table
  BY DEF Grown
<1>3. \A f \in FD : F'[f] = IF f = due.w THEN Closed ELSE F2[f]
  BY <1>2, ClosedAll
<1>4. due # NoEnds =>
        /\ due.r \in FD /\ due.w \in FD /\ due.r # due.w
        /\ F[due.r] = ReadEnd(slot[i], NoClient, due) /\ F[due.r] # Closed
        /\ F[due.w] = WriteEnd(slot[i], NoClient, due) /\ F[due.w] # Closed
  BY Numbereds
<1>5. due = NoEnds => due.w \notin FD
  BY DEF NoEnds, Nil, FD
<1>6. \A f \in FD : F1[f] # Closed /\ f # due.w => F'[f] = F1[f]
  BY <1>3 DEF Grown
<1>7. \A f \in FD : F[f] # Closed /\ f # due.w => F'[f] = F[f]
  BY <1>6 DEF Grown
<1>8. \A f \in FD : f = due.w => F[f] # Closed /\ F1[f] # Closed
  BY <1>4, <1>5 DEF Grown
<1>9. \A f \in FD : F[f] # WriteEnd(slot[i], NoClient, due) => f # due.w
  BY <1>4, <1>5
<1>10. SocketsOpen'
  <2> SUFFICES ASSUME NEW j \in Online
               PROVE  F'[ufd[j]] = Sock(slot[j])
    BY <1>1 DEF SocketsOpen
  <2>1. ufd[j] \in FD /\ F[ufd[j]] = Sock(slot[j]) /\ F[ufd[j]] # Closed
    BY Sockets
  <2>2. QED
    BY <1>7, <1>9, <2>1 DEF Sock, WriteEnd
<1>11. PendingPipesIntact'
  <2> SUFFICES ASSUME NEW a \in Users, NEW b \in Users, upipe'[a][b] # NoEnds
               PROVE  /\ a \in Online' /\ b \in Online'
                      /\ F'[upipe'[a][b].r]
                           = ReadEnd(slot[a], slot[b], upipe'[a][b])
    BY DEF PendingPipesIntact
  <2>1. a \in Online' /\ b \in Online'
    BY DEF IInv, PipesBetweenOnline
  <2>2. CASE user /\ a = i /\ b = cmd.to
    <3>1. /\ e1 \in Ends /\ e1.r \in FD /\ F[e1.r] = Closed
          /\ F1[e1.r] = ReadEnd(slot[a], slot[b], e1)
      BY <2>2 DEF Grown
    <3>2. F1[e1.r] # Closed
      BY <3>1 DEF ReadEnd, Closed
    <3>3. F'[e1.r] = F1[e1.r]
      BY <1>6, <1>8, <3>1, <3>2
    <3>4. QED
      BY <2>1, <2>2, <3>1, <3>3
  <2>3. CASE ~(user /\ a = i /\ b = cmd.to)
    <3>1. PICK e \in Ends : e = upipe[a][b]
      BY Typing
    <3>2. /\ upipe'[a][b] = e /\ e.r \in FD
          /\ F[e.r] = ReadEnd(slot[a], slot[b], e) /\ F[e.r] # Closed
      BY <2>3, <3>1, Pendings
    <3>3. F'[e.r] = F[e.r]
      <4>1. F[e.r] # WriteEnd(slot[i], NoClient, due)
        BY <3>2 DEF ReadEnd, WriteEnd
      <4>2. e.r # due.w
        BY <1>9, <3>2, <4>1
      <4>3. QED
        BY <1>7, <3>2, <4>2
    <3>4. QED
      BY <2>1, <3>2, <3>3
  <2>4. QED
    BY <2>2, <2>3
<1>12. ASSUME NEW j \in Online, NEW m \in 1 .. MaxNum, NEW e \in Ends,
              e = nump[j][m].ends, e # NoEnds, j = i => m # 1
       PROVE  F'[e.r] = F[e.r] /\ F'[e.w] = F[e.w]
  <2>2. /\ e.r \in FD /\ F[e.r] = ReadEnd(slot[j], NoClient, e) /\ F[e.r] # Closed
        /\ e.w \in FD /\ F[e.w] = WriteEnd(slot[j], NoClient, e) /\ F[e.w] # Closed
    BY <1>12, Numbereds
  <2>3. e.r # due.w
    BY <1>9, <2>2, ObjsDiffer
  <2>4. e.w # due.w
    <3> SUFFICES ASSUME e.w = due.w PROVE FALSE
      OBVIOUS
    <3>1. slot[j] = slot[i] /\ e = due /\ due # NoEnds
      BY <1>4, <1>5, <2>2, ObjsDiffer
    <3>2. j = i
      BY <3>1, Typing
    <3>3. nump[i][m].ends = nump[i][1].ends /\ 1 \in 1 .. MaxNum
      BY <1>12, <3>1, <3>2
    <3>4. QED
      BY <1>12, <3>1, <3>2, <3>3 DEF NumberedApart
  <2>5. QED
    BY <1>7, <2>2, <2>3, <2>4
<1>13. num => /\ e2 \in Ends /\ e2 # NoEnds /\ e2.r \in FD /\ e2.w \in FD
              /\ F1[e2.r] = Closed /\ F1[e2.w] = Closed
              /\ F'[e2.r] = ReadEnd(slot[i], NoClient, e2)
              /\ F'[e2.w] = WriteEnd(slot[i], NoClient, e2)
  BY <1>3, <1>8 DEF Grown
<1>14. NumberedPipesIntact'
  <2> SUFFICES ASSUME NEW j \in Online, NEW n \in 1 .. MaxNum, NEW e \in Ends,
                      e = nump'[j][n].ends, e # NoEnds
               PROVE  /\ F'[e.r] = ReadEnd(slot[j], NoClient, e)
                      /\ F'[e.w] = WriteEnd(slot[j], NoClient, e)
    BY <1>1, NumberedNext
  <2>1. ASSUME NEW m \in 1 .. MaxNum, e = nump[j][m].ends, j = i => m # 1
        PROVE  /\ F'[e.r] = ReadEnd(slot[j], NoClient, e)
               /\ F'[e.w] = WriteEnd(slot[j], NoClient, e)
    <3>1. /\ F[e.r] = ReadEnd(slot[j], NoClient, e)
          /\ F[e.w] = WriteEnd(slot[j], NoClient, e)
      BY <2>1, Numbereds
    <3>2. F'[e.r] = F[e.r] /\ F'[e.w] = F[e.w]
      BY <1>12, <2>1
    <3>3. QED
      BY <3>1, <3>2
  <2>2. CASE j # i
    BY <2>1, <2>2, Typing
  <2>3. CASE j = i /\ n + 1 \in 1 .. MaxNum /\ nump'[i][n].ends = nump[i][n + 1].ends
    <3>1. n + 1 # 1
      OBVIOUS
    <3>2. QED
      BY <2>1, <2>3, <3>1
  <2>4. CASE j = i /\ num /\ nump'[i][n].ends = e2
    BY <1>13, <2>4
  <2>5. QED
    BY <2>2, <2>3, <2>4
<1>15. ASSUME NEW m \in 1 .. MaxNum, nump[i][m].ends # NoEnds, num
       PROVE  nump[i][m].ends # e2
  <2>1. nump[i][m].ends.r \in FD /\ F1[nump[i][m].ends.r] # Closed
    BY <1>15, Numbereds DEF Grown
  <2>2. QED
    BY <1>13, <1>15, <2>1
<1>16. NumberedApart'
  <2> SUFFICES ASSUME NEW j \in Online, NEW m \in 1 .. MaxNum, NEW n \in 1 .. MaxNum,
                      nump'[j][m].ends = nump'[j][n].ends, nump'[j][n].ends # NoEnds
               PROVE  m = n
    BY <1>1 DEF NumberedApart
  <2>1. CASE j # i
    BY <2>1, Typing DEF NumberedApart
  <2>2. ASSUME j = i, m + 1 \in 1 .. MaxNum, nump'[i][m].ends = nump[i][m + 1].ends,
               n + 1 \in 1 .. MaxNum, nump'[i][n].ends = nump[i][n + 1].ends
        PROVE  m = n
    <3>1. m + 1 = n + 1
      BY <2>2 DEF NumberedApart
    <3>2. QED
      BY <3>1
  <2>3. CASE j = i
    BY <1>15, <2>2, <2>3
  <2>4. QED
    BY <2>1, <2>3
<1>17. DueOpen'
  <2> SUFFICES ASSUME due # NoEnds
               PROVE  /\ F'[due.r] = ReadEnd(slot[i], NoClient, due)
                      /\ F'[due.w] # WriteEnd(slot[i], NoClient, due)
                      /\ \A n \in 1 .. MaxNum : nump'[i][n].ends # due
    BY DEF DueOpen, Apart
  <2>1. F'[due.r] = ReadEnd(slot[i], NoClient, due) /\ F'[due.w] = Closed
    BY <1>3, <1>4, <1>7
  <2>2. due = nump[i][1].ends /\ 1 \in 1 .. MaxNum
    OBVIOUS
  <2>3. ASSUME NEW n \in 1 .. MaxNum, nump'[i][n].ends = due
        PROVE  FALSE
    <3>1. CASE n + 1 \in 1 .. MaxNum /\ nump'[i][n].ends = nump[i][n + 1].ends
      <4>1. PICK m \in 1 .. MaxNum : m = n + 1 /\ nump[i][m].ends = due
        BY <2>3, <3>1
      <4>2. m = 1
        BY <2>2, <4>1 DEF NumberedApart
      <4>3. QED
        BY <4>1, <4>2
    <3>2. CASE num /\ nump'[i][n].ends = e2
      BY <1>15, <2>2, <2>3, <3>2
    <3>3. QED
      BY <2>3, <3>1, <3>2
  <2>4. QED
    BY <2>1, <2>3, ObjsDiffer
<1>18. LastOpen'
  BY DEF LastOpen
<1>19. FilledClosed'
  <2> SUFFICES ASSUME pc' = "run", NEW a \in Users, NEW b \in Users,
                      upipe'[a][b] # NoEnds, a # b, ~BeingFilled(a, b)'
               PROVE  F'[upipe'[a][b].w] # WriteEnd(slot[a], slot[b], upipe'[a][b])
    BY DEF FilledClosed, Running
  <2>1. ~(user /\ a = i /\ b = cmd.to)
    BY DEF BeingFilled, InNpshell
  <2>2. PICK e \in Ends : e = upipe[a][b]
    BY Typing
  <2>3. /\ upipe'[a][b] = e /\ e.r \in FD /\ e.w \in FD /\ F[e.r] # Closed
        /\ slot[b] # NoClient
    BY <2>1, <2>2, Pendings
  <2>4. F[e.w] # WriteEnd(slot[a], slot[b], e)
    BY <2>2, <2>3 DEF FilledClosed, Running, BeingFilled, InNpshell
  <2>5. F1[e.w] # WriteEnd(slot[a], slot[b], e)
    <3>1. user => e1 \in Ends /\ e1.r # e.r
      BY <2>3 DEF Grown
    <3>2. \/ F1[e.w] = F[e.w]
          \/ user /\ F1[e.w] \in {ReadEnd(slot[i], slot[cmd.to], e1),
                                  WriteEnd(slot[i], slot[cmd.to], e1)}
      BY <2>3 DEF Grown
    <3>3. QED
      BY <2>4, <3>1, <3>2, ObjsDiffer
  <2>6. F2[e.w] # WriteEnd(slot[a], slot[b], e)
    <3>1. \/ F2[e.w] = F1[e.w]
          \/ num /\ F2[e.w] \in {ReadEnd(slot[i], NoClient, e2),
                                 WriteEnd(slot[i], NoClient, e2)}
      BY <2>3 DEF Grown
    <3>2. QED
      BY <1>13, <2>3, <2>5, <3>1, ObjsDiffer
  <2>7. F'[e.w] # WriteEnd(slot[a], slot[b], e)
    <3>1. Closed # WriteEnd(slot[a], slot[b], e)
      BY DEF Closed, WriteEnd
    <3>2. QED
      BY <1>3, <2>3, <2>6, <3>1
  <2>8. QED
    BY <2>3, <2>7
<1>20. QED
  BY <1>10, <1>11, <1>14, <1>16, <1>17, <1>18, <1>19

LEMMA ShellPipes ==
  ASSUME IInv, IInv', PipesInv, NEW fd \in FD, NEW c \in Clients, NEW k \in Users,
         NEW cmd \in Commands[k], NEW seen \in BOOLEAN, Shell(fd, c, cmd, seen)
  PROVE  PipesInv'
<1> USE DEF PipesInv
<1> DEFINE i == Index(fd)
           badIn == /\ cmd.from # 0
                    /\ ~(cmd.from \in Online /\ upipe[cmd.from][i] # NoEnds)
           badOut == /\ cmd.to # 0
                     /\ ~(cmd.to \in Online /\ upipe[i][cmd.to].r = Nil)
           toUser == cmd.to # 0 /\ ~badOut
           F1 == IF toUser /\ CanPipe(F) THEN OpenPipe(F, slot[i], slot[cmd.to])
                 ELSE F
           left == Tick(nump[i])
           toNum == cmd.num # 0 /\ ~MadeFor(left, cmd.num)
           F2 == IF toNum /\ CanPipe(F1) THEN OpenPipe(F1, slot[i], NoClient)
                 ELSE F1
           due == IF seen THEN Due(nump[i]).ends ELSE NoEnds
           entry == [made |-> TRUE,
                     ends |-> IF CanPipe(F1) THEN NewEnds(F1) ELSE NoEnds]
           user == toUser /\ CanPipe(F)
           num == toNum /\ CanPipe(F1)
           e1 == NewEnds(F)
           e2 == NewEnds(F1)
<1>1. /\ TakeLine(fd, c) /\ UNCHANGED <<slot, ufd>> /\ cmd \in Commands[i]
      /\ upipe' = IF user THEN [upipe EXCEPT ![i][cmd.to] = e1] ELSE upipe
      /\ nump' = [nump EXCEPT ![i] =
                    IF ~toNum THEN left ELSE [left EXCEPT ![cmd.num] = entry]]
      /\ F' = CloseAll(F2, {due.w})
      /\ misclose => misclose'
      /\ job' = [NoJob EXCEPT !.me = i, !.cmd = cmd, !.badIn = badIn,
                              !.badOut = badOut, !.due = due]
  BY DEF Shell, uvars
<1>2. pc' \in {"run", "dead"}
  BY OutcomesAre DEF Shell
<1>3. pc = "serve" /\ i \in Online
  BY <1>1, TakeLineFacts
<1>4. i \in Users /\ F \in Table /\ slot[i] \in Clients
  BY <1>3, Typing
<1>5. toUser => cmd.to \in Online /\ cmd.to \in Users /\ slot[cmd.to] \in Clients
  BY Typing
<1>6. 0 < cmd.stages
  BY <1>1, <1>4, ServerAssumption
<1>7. cmd.from # 0 /\ ~badIn => cmd.from \in Users /\ upipe[cmd.from][i] # NoEnds
  BY DEF Online
<1>8. due = NoEnds \/ (1 \in 1 .. MaxNum /\ due = nump[i][1].ends)
  <2>1. NoEntry.ends = NoEnds
    BY DEF NoEntry
  <2>2. MaxNum # 0 => 1 \in 1 .. MaxNum
    BY ServerAssumption
  <2>3. QED
    BY <2>1, <2>2 DEF Due
<1>9. due \in Ends
  BY <1>4, <1>8, Typing
<1>10. left \in [1 .. MaxNum -> NumEntry]
       /\ \A n \in 1 .. MaxNum :
            \/ left[n].ends = NoEnds
            \/ n + 1 \in 1 .. MaxNum /\ left[n].ends = nump[i][n + 1].ends
  <2>1. nump[i] \in [1 .. MaxNum -> NumEntry] /\ NoEntry.ends = NoEnds
    BY <1>4 DEF IInv, TypeOK, NoEntry
  <2>2. PICK p \in [1 .. MaxNum -> NumEntry] : p = nump[i] /\ left = Tick(p)
    BY <2>1
  <2>3. \A n \in 1 .. MaxNum : Tick(p)[n] = NoEntry \/ n # MaxNum
    BY Ticked
  <2>4. /\ Tick(p) \in [1 .. MaxNum -> NumEntry]
        /\ \A n \in 1 .. MaxNum :
              \/ Tick(p)[n] = NoEntry
              \/ n + 1 \in 1 .. MaxNum /\ Tick(p)[n] = p[n + 1]
    BY <2>3, Ticked, ServerAssumption DEF Tick
  <2>5. QED
    BY <2>1, <2>2, <2>4
<1> HIDE DEF badIn, badOut, left, due
<1>11. Grown(F, F1, user, slot[i], slot[cmd.to], e1)
  <2>1. user \in BOOLEAN
    BY DEF badOut
  <2> HIDE DEF i, toUser
  <2>2. F1 = IF user THEN OpenPipe(F, slot[i], slot[cmd.to]) ELSE F
    OBVIOUS
  <2>3. user => CanPipe(F) /\ slot[cmd.to] \in Clients
    BY <1>5
  <2> HIDE DEF user, F1
  <2>4. QED
    BY <1>4, <2>1, <2>2, <2>3, MayOpen
<1>12. Grown(F1, F2, num, slot[i], NoClient, e2)
  <2>1. num \in BOOLEAN /\ (num => CanPipe(F1))
    BY DEF MadeFor
  <2>2. F1 \in Table
    <3> HIDE DEF F1, i, user, e1
    <3>1. QED
      BY <1>11 DEF Grown
  <2> HIDE DEF i, F1
  <2>3. F2 = IF num THEN OpenPipe(F1, slot[i], NoClient) ELSE F1
    BY DEF toNum
  <2> HIDE DEF num, F2
  <2>4. QED
    BY <1>4, <2>1, <2>2, <2>3, MayOpen
<1> HIDE DEF i, F1, F2, e1, e2
<1>13. entry.ends = IF CanPipe(F1) THEN e2 ELSE NoEnds
  BY DEF e2
<1> HIDE DEF entry
<1>14. /\ \A j \in Users \ {i} : nump'[j] = nump[j]
       /\ \A n \in 1 .. MaxNum :
            \/ nump'[i][n].ends = NoEnds
            \/ n + 1 \in 1 .. MaxNum /\ nump'[i][n].ends = nump[i][n + 1].ends
            \/ num /\ n = cmd.num /\ nump'[i][n].ends = e2
  <2>1. /\ nump'[i] = IF ~toNum THEN left ELSE [left EXCEPT ![cmd.num] = entry]
        /\ \A j \in Users \ {i} : nump'[j] = nump[j]
    BY <1>1, <1>4 DEF IInv, TypeOK
  <2> HIDE DEF toNum
  <2>2. \A n \in 1 .. MaxNum :
          nump'[i][n] = left[n] \/ (toNum /\ n = cmd.num /\ nump'[i][n] = entry)
    BY <1>10, <2>1
  <2>3. QED
    BY <1>10, <1>13, <2>1, <2>2
<1>15. \A a, b \in Users :
          upipe'[a][b] = IF user /\ a = i /\ b = cmd.to THEN e1 ELSE upipe[a][b]
  <2> HIDE DEF toUser
  <2>1. user => cmd.to \in Users
    BY <1>5
  <2> HIDE DEF user
  <2>2. QED
    BY <1>1, <1>4, <2>1 DEF IInv, TypeOK
<1>16. job'.me = i /\ job'.cmd = cmd /\ job'.due = due /\ job'.stage = 0
       /\ job'.tmp = NoEnds /\ job'.input = "ends" /\ job'.badIn = badIn
  BY <1>1 DEF NoJob
<1>17. user \in BOOLEAN /\ num \in BOOLEAN /\ (user => cmd.to \in Online)
  BY <1>5 DEF badOut, MadeFor
<1> HIDE DEF toUser, toNum, user, num
<1>18. EndsNamed(F)'
  <2>1. F2 \in Table /\ EndsNamed(F2)
    BY <1>11, <1>12 DEF Grown
  <2>2. QED
    BY <1>1, <2>1, ClosedAll
<1>19. EntriesWhole'
  <2>1. Whole(due) /\ Whole(NoEnds)
    BY <1>4, <1>8 DEF EntriesWhole, Whole
  <2>2. num => Whole(e2)
    BY <1>12 DEF Grown, Whole
  <2>3. \A j \in Users : \A n \in 1 .. MaxNum : Whole(nump'[j][n].ends)
    BY <1>14, <2>1, <2>2 DEF EntriesWhole
  <2>4. QED
    BY <1>16, <2>1, <2>3 DEF EntriesWhole, Whole
<1>20. FromPending'
  <2>1. user => e1 # NoEnds
    BY <1>11 DEF Grown
  <2>2. QED
    BY <1>4, <1>7, <1>15, <1>16, <2>1 DEF FromPending
<1>21. (StagesCounted /\ HeldExplained /\ ReceivesFromSender)'
  BY <1>2, <1>6, <1>16 DEF StagesCounted, HeldExplained, ReceivesFromSender, Started
<1>22. ASSUME Wired
       PROVE  Wired'
  <2>1. /\ UNCHANGED <<slot, ufd>> /\ F' = CloseAll(F2, {due.w})
        /\ pc = "serve" /\ i \in Online
    BY <1>1, <1>3
  <2>2. \E x, d, e, g, T, G : /\ x = i /\ d = due /\ e = e1 /\ g = e2
                             /\ T = F1 /\ G = F2
    OBVIOUS
  <2>3. PICK x, d, e, g, T, G : /\ x = i /\ d = due /\ e = e1 /\ g = e2
                               /\ T = F1 /\ G = F2
    BY <2>2
  <2>4. PICK u \in BOOLEAN, v \in BOOLEAN : u = user /\ v = num
    BY <1>17
  <2>5. /\ x \in Online /\ d \in Ends /\ F' = CloseAll(G, {d.w})
        /\ Grown(F, T, u, slot[x], slot[cmd.to], e)
        /\ Grown(T, G, v, slot[x], NoClient, g)
        /\ u => cmd.to \in Online
        /\ d = NoEnds \/ (1 \in 1 .. MaxNum /\ d = nump[x][1].ends)
    BY <1>8, <1>9, <1>11, <1>12, <1>17, <2>1, <2>3, <2>4
  <2>6. \A n \in 1 .. MaxNum :
             \/ nump'[x][n].ends = NoEnds
             \/ n + 1 \in 1 .. MaxNum /\ nump'[x][n].ends = nump[x][n + 1].ends
             \/ v /\ n = cmd.num /\ nump'[x][n].ends = g
    BY <1>14, <2>3, <2>4
  <2>7. \A a, b \in Users :
             upipe'[a][b] = IF u /\ a = x /\ b = cmd.to THEN e ELSE upipe[a][b]
    BY <1>15, <2>3, <2>4
  <2>8. \A j \in Users \ {x} : nump'[j] = nump[j]
    BY <1>14, <2>3
  <2>9. job'.me = x /\ job'.cmd = cmd /\ job'.due = d /\ job'.stage = 0
    BY <1>16, <2>3
  <2>10. ShellChange(x, cmd, d, u, e, T, v, g, G)
    BY <1>2, <1>6, <2>1, <2>5, <2>6, <2>7, <2>8, <2>9 DEF ShellChange
  <2>11. QED
    BY <1>22, <2>10, ShellWires
<1>23. QED
  BY <1>1, <1>18, <1>19, <1>20, <1>21, <1>22

-----------------------------------------------------------------------------
(* The steps of a running command. *)

\* Descriptor f is no socket of a user and no end of a pipe that still waits.
Spared(f) ==
    /\ \A j \in Online : ufd[j] # f
    /\ \A a, b \in Users : upipe'[a][b] # NoEnds => upipe[a][b].r # f
    /\ \A j \in Online : \A n \in 1 .. MaxNum :
          nump[j][n].ends # NoEnds => nump[j][n].ends.r # f /\ nump[j][n].ends.w # f

\* An object that is no end of a user pipe.
Private(o) ==
    o = Closed \/ \E c, e : o \in {ReadEnd(c, NoClient, e), WriteEnd(c, NoClient, e)}

(* Closing a pipe of the command that no later command is to read. *)
LEMMA OwnSpared ==
  ASSUME IInv, PipesInv, Wired, job.me \in Online,
         \A a, b \in Users : upipe'[a][b] # NoEnds => upipe'[a][b] = upipe[a][b],
         NEW e \in Ends, Apart(e), NEW f \in FD,
         F[f] \in {ReadEnd(slot[job.me], NoClient, e), WriteEnd(slot[job.me], NoClient, e)}
  PROVE  Spared(f)
<1> DEFINE c == slot[job.me]
<1>1. /\ \A j \in Online : ufd[j] # f
      /\ \A a, b \in Users : upipe[a][b] # NoEnds /\ f = upipe[a][b].r =>
            slot[b] = NoClient
      /\ \A j \in Online : \A n \in 1 .. MaxNum :
            nump[j][n].ends # NoEnds
              /\ (f = nump[j][n].ends.r \/ f = nump[j][n].ends.w) =>
            slot[j] = c /\ nump[j][n].ends = e
  BY Whose DEF PipesInv, Wired
<1>2. ASSUME NEW a \in Users, NEW b \in Users, upipe'[a][b] # NoEnds
      PROVE  upipe[a][b].r # f
  <2>1. upipe[a][b] # NoEnds /\ slot[b] # NoClient
    BY <1>2, Pendings DEF PipesInv, Wired
  <2>2. QED
    BY <1>1, <2>1
<1>3. ASSUME NEW j \in Online, NEW n \in 1 .. MaxNum, nump[j][n].ends # NoEnds
      PROVE  nump[j][n].ends.r # f /\ nump[j][n].ends.w # f
  <2>1. slot[j] = c => j = job.me
    BY Typing
  <2>2. QED
    BY <1>1, <1>3, <2>1 DEF Apart
<1>4. QED
  BY <1>1, <1>2, <1>3 DEF Spared

(* Closing an end of a user pipe: the write end, or one of a pipe that goes. *)
LEMMA UserSpared ==
  ASSUME IInv, PipesInv, Wired,
         \A a, b \in Users : upipe'[a][b] # NoEnds => upipe'[a][b] = upipe[a][b],
         NEW x \in Users, NEW y \in Users, NEW e \in Ends, e = upipe[x][y], e # NoEnds,
         NEW f \in FD, F[f] \in {Closed, ReadEnd(slot[x], slot[y], e),
                                         WriteEnd(slot[x], slot[y], e)},
         f = e.w \/ upipe'[x][y] = NoEnds
  PROVE  Spared(f)
<1>1. /\ \A j \in Online : ufd[j] # f
      /\ \A a, b \in Users : upipe[a][b] # NoEnds /\ f = upipe[a][b].r =>
            f = e.r /\ slot[a] = slot[x] /\ slot[b] = slot[y]
      /\ \A j \in Online : \A n \in 1 .. MaxNum :
            nump[j][n].ends # NoEnds
              /\ (f = nump[j][n].ends.r \/ f = nump[j][n].ends.w) =>
            slot[y] = NoClient
  <2>1. PICK c, d : c = slot[x] /\ d = slot[y]
    OBVIOUS
  <2>2. F[f] \in {Closed, ReadEnd(c, d, e), WriteEnd(c, d, e)}
    BY <2>1
  <2>3. /\ EndsNamed(F) /\ EntriesWhole
        /\ SocketsOpen /\ PendingPipesIntact /\ NumberedPipesIntact
    BY DEF PipesInv, Wired
  <2>4. /\ \A j \in Online : ufd[j] # f
        /\ \A a, b \in Users : upipe[a][b] # NoEnds /\ f = upipe[a][b].r =>
              /\ F[f] # Closed /\ f = e.r
              /\ slot[a] = c /\ slot[b] = d /\ upipe[a][b] = e
        /\ \A j \in Online : \A n \in 1 .. MaxNum :
              nump[j][n].ends # NoEnds
                /\ (f = nump[j][n].ends.r \/ f = nump[j][n].ends.w) =>
              /\ F[f] # Closed
              /\ slot[j] = c /\ d = NoClient /\ nump[j][n].ends = e
    <3> HIDE <2>1
    <3>1. CASE F[f] = Closed
      BY <2>3, <3>1, Whose
    <3>2. CASE F[f] = ReadEnd(c, d, e)
      BY <2>3, <3>2, Whose
    <3>3. CASE F[f] = WriteEnd(c, d, e)
      BY <2>3, <3>3, Whose
    <3>4. QED
      BY <2>2, <3>1, <3>2, <3>3
  <2>5. QED
    BY <2>1, <2>4
<1>2. x \in Online /\ y \in Online /\ slot[y] # NoClient /\ e.r # e.w
  BY Pendings DEF PipesInv, Wired
<1>3. ASSUME NEW a \in Users, NEW b \in Users, upipe'[a][b] # NoEnds, upipe[a][b].r = f
      PROVE  FALSE
  <2>1. upipe[a][b] # NoEnds /\ a \in Online /\ b \in Online
    BY <1>3, Pendings DEF PipesInv, Wired
  <2>2. a = x /\ b = y /\ f = e.r
    BY <1>1, <1>2, <1>3, <2>1, Typing
  <2>3. QED
    BY <1>2, <1>3, <2>2
<1>4. QED
  BY <1>1, <1>2, <1>3 DEF Spared

(***************************************************************************)
(* A step of a command that changes only free numbers and spared ones,     *)
(* opens no user pipe, and does not leave the write end of one open when   *)
(* the program that fills it has been started.                             *)
(***************************************************************************)
LEMMA RunWires ==
  ASSUME IInv, IInv', PipesInv, Wired, UNCHANGED <<slot, ufd, nump>>,
         pc \in {"run", "wait"},
         \A a, b \in Users : upipe'[a][b] # NoEnds => upipe'[a][b] = upipe[a][b],
         \A f \in FD : F'[f] # F[f] => (F[f] = Closed \/ Spared(f)) /\ Private(F'[f]),
         \A a, b \in Users :
            Running' /\ a # b /\ BeingFilled(a, b) /\ upipe'[a][b] # NoEnds =>
               \/ BeingFilled(a, b)'
               \/ F'[upipe[a][b].w] # WriteEnd(slot[a], slot[b], upipe[a][b])
  PROVE  /\ (SocketsOpen /\ PendingPipesIntact /\ NumberedPipesIntact /\ NumberedApart)'
         /\ FilledClosed'
<1> USE DEF PipesInv, Wired
<1>1. Online' = Online
  BY DEF Online
<1>2. ASSUME NEW j \in Online
      PROVE  F'[ufd[j]] = F[ufd[j]]
  BY Sockets DEF Spared
<1>3. ASSUME NEW a \in Users, NEW b \in Users, upipe'[a][b] # NoEnds
      PROVE  /\ F'[upipe[a][b].r] = F[upipe[a][b].r]
             /\ \/ F'[upipe[a][b].w] = F[upipe[a][b].w]
                \/ F'[upipe[a][b].w] # WriteEnd(slot[a], slot[b], upipe[a][b])
  <2>1. PICK e \in Ends : e = upipe[a][b]
    BY Typing
  <2>2. /\ e.r \in FD /\ e.w \in FD /\ F[e.r] # Closed /\ slot[b] # NoClient
    BY <1>3, <2>1, Pendings
  <2>3. F'[e.r] = F[e.r]
    BY <1>3, <2>1, <2>2 DEF Spared
  <2>4. Private(F'[e.w]) => F'[e.w] # WriteEnd(slot[a], slot[b], e)
    <3>1. WriteEnd(slot[a], slot[b], e).to = slot[b]
          /\ WriteEnd(slot[a], slot[b], e).kind = "wr" /\ Closed.kind = "free"
          /\ \A c, g : ReadEnd(c, NoClient, g).to = NoClient
                       /\ WriteEnd(c, NoClient, g).to = NoClient
      BY DEF WriteEnd, ReadEnd, Closed
    <3>2. QED
      BY <2>2, <3>1 DEF Private
  <2>5. QED
    BY <2>1, <2>2, <2>3, <2>4
<1>4. ASSUME NEW j \in Online, NEW n \in 1 .. MaxNum, nump[j][n].ends # NoEnds
      PROVE  /\ F'[nump[j][n].ends.r] = F[nump[j][n].ends.r]
             /\ F'[nump[j][n].ends.w] = F[nump[j][n].ends.w]
  <2>1. /\ nump[j][n].ends.r \in FD /\ F[nump[j][n].ends.r] # Closed
        /\ nump[j][n].ends.w \in FD /\ F[nump[j][n].ends.w] # Closed
    BY <1>4, Numbereds
  <2>2. QED
    BY <1>4, <2>1 DEF Spared
<1>5. \A j \in Users : Later(nump[j], nump'[j])
  BY DEF Later
<1>6. (SocketsOpen /\ PendingPipesIntact /\ NumberedPipesIntact /\ NumberedApart)'
  <2>1. \A j \in Online' : /\ j \in Online /\ slot'[j] = slot[j] /\ ufd'[j] = ufd[j]
                           /\ F'[ufd[j]] = F[ufd[j]] /\ Later(nump[j], nump'[j])
    BY <1>1, <1>2, <1>5, Typing
  <2>2. QED
    BY <1>3, <1>4, <2>1, WiringKept
<1>7. FilledClosed'
  BY <1>3, FilledKept DEF Running
<1>8. QED
  BY <1>6, <1>7

(***************************************************************************)
(* What the first program may read: the user pipe and the numbered pipe it *)
(* is given are there and, except for a pipe of the user to himself,       *)
(* nobody but other programs holds their write ends.                       *)
(***************************************************************************)
LEMMA InputIs ==
  ASSUME IInv, PipesInv, Wired, pc = "run", job.stage = 0
  PROVE  /\ job.me \in Online
         /\ InEnds # NoEnds =>
              /\ job.cmd.from \in Users /\ InEnds = upipe[job.cmd.from][job.me]
              /\ InEnds \in Ends /\ InEnds.r \in FD
              /\ F[InEnds.r] = ReadEnd(slot[job.cmd.from], slot[job.me], InEnds)
              /\ F[InEnds.r] # Closed
              /\ job.cmd.from # job.me => ~HeldOpen(F, F[InEnds.r])
         /\ job.due # NoEnds =>
              /\ job.due.r \in FD
              /\ F[job.due.r] = ReadEnd(slot[job.me], NoClient, job.due)
              /\ F[job.due.r] # Closed /\ ~HeldOpen(F, F[job.due.r]) /\ Apart(job.due)
         /\ ~HeldOpen(F, Closed)
         /\ job.cmd.from # 0 /\ ~job.badIn => InEnds # NoEnds
         /\ NoEnds.r \notin FD
<1> USE DEF PipesInv, Wired
<1>1. job.me \in Online
  BY DEF IInv, JobOnline
<1>2. \A c, d, e : [ReadEnd(c, d, e) EXCEPT !.kind = "wr"] = WriteEnd(c, d, e)
                   /\ ReadEnd(c, d, e).w = e.w
  BY DEF ReadEnd, WriteEnd
<1>3. ASSUME InEnds # NoEnds
      PROVE  /\ job.cmd.from \in Users /\ InEnds = upipe[job.cmd.from][job.me]
             /\ InEnds \in Ends /\ InEnds.r \in FD
             /\ F[InEnds.r] = ReadEnd(slot[job.cmd.from], slot[job.me], InEnds)
             /\ F[InEnds.r] # Closed
             /\ job.cmd.from # job.me => ~HeldOpen(F, F[InEnds.r])
  <2>1. PICK x : x = job.cmd.from
    OBVIOUS
  <2>2. x # 0 /\ ~job.badIn
    BY <1>3, <2>1 DEF InEnds
  <2>3. x \in Users /\ job.me \in Users
    BY <1>1, <2>1, <2>2 DEF IInv, JobOnline, Online
  <2>4. PICK e \in Ends : e = upipe[x][job.me]
    BY <2>3, Typing
  <2>5. InEnds = e
    BY <2>1, <2>2, <2>4 DEF InEnds
  <2>6. /\ e.r \in FD /\ e.w \in FD /\ F[e.r] # Closed
        /\ F[e.r] = ReadEnd(slot[x], slot[job.me], e)
    BY <1>3, <2>3, <2>4, <2>5, Pendings
  <2>7. ASSUME x # job.me
        PROVE  ~HeldOpen(F, F[e.r])
    <3>1. F[e.w] # WriteEnd(slot[x], slot[job.me], e)
      BY <1>3, <2>3, <2>4, <2>5, <2>7 DEF FilledClosed, Running, BeingFilled
    <3>2. QED
      BY <1>2, <2>6, <3>1 DEF HeldOpen
  <2>8. QED
    BY <2>1, <2>3, <2>4, <2>5, <2>6, <2>7
<1>4. ASSUME job.due # NoEnds
      PROVE  /\ job.due.r \in FD
             /\ F[job.due.r] = ReadEnd(slot[job.me], NoClient, job.due)
             /\ F[job.due.r] # Closed /\ ~HeldOpen(F, F[job.due.r]) /\ Apart(job.due)
  <2>1. PICK e \in Ends : e = job.due
    BY Typing
  <2>2. e.r \in FD /\ e.w \in FD
    BY <1>4, <2>1 DEF EntriesWhole, Whole
  <2>3. /\ F[e.r] = ReadEnd(slot[job.me], NoClient, e)
        /\ F[e.w] # WriteEnd(slot[job.me], NoClient, e) /\ Apart(e)
    BY <1>4, <2>1 DEF DueOpen, InNpshell
  <2>4. F[e.r] # Closed
    BY <2>3, ObjsDiffer
  <2>5. QED
    BY <1>2, <2>1, <2>2, <2>3, <2>4 DEF HeldOpen
<1>5. ~HeldOpen(F, Closed)
  BY DEF HeldOpen, Closed
<1>6. job.cmd.from # 0 /\ ~job.badIn => InEnds # NoEnds
  BY DEF InEnds, FromPending
<1>7. NoEnds.r \notin FD
  BY DEF NoEnds, Nil, FD
<1>8. QED
  BY <1>1, <1>3, <1>4, <1>5, <1>6, <1>7

(* So the first program reads what was announced, and its input ends. *)
LEMMA FirstReads ==
  ASSUME IInv, PipesInv, pc = "run", job.stage = 0, slot' = slot, misclose => misclose',
         NEW in, \/ in = IF job.badIn THEN Closed ELSE Stdin(InEnds.r, job.due.r)
                 \/ in = Stdin(job.due.r, InEnds.r),
         job'.me = job.me, job'.cmd = job.cmd, job'.badIn = job.badIn,
         job'.due = job.due, job'.in = in, job'.input = InputOf(in)
  PROVE  (HeldExplained /\ ReceivesFromSender)'
<1>1. CASE misclose
  BY <1>1 DEF HeldExplained, ReceivesFromSender
<1>2. CASE ~misclose
  <2>1. Wired
    BY <1>2 DEF PipesInv
  <2>2. \/ in = Closed /\ (job.badIn \/ (InEnds = NoEnds /\ job.due = NoEnds))
        \/ in = F[InEnds.r] /\ InEnds # NoEnds
        \/ in = F[job.due.r] /\ job.due # NoEnds
    BY <2>1, InputIs DEF Stdin
  <2>3. HeldOpen(F, in) => job.cmd.from = job.me
    BY <2>1, <2>2, InputIs
  <2>4. HeldExplained'
    BY <2>3 DEF HeldExplained, InputOf
  <2>5. ASSUME job.cmd.from # 0, ~job.badIn, job.due = NoEnds
        PROVE  /\ in.kind = "rd"
               /\ in.of = slot[job.cmd.from] /\ in.to = slot[job.me]
    <3>1. InEnds # NoEnds
      BY <2>1, <2>5, InputIs
    <3>2. in = F[InEnds.r]
      BY <2>2, <2>5, <3>1
    <3>3. in = ReadEnd(slot[job.cmd.from], slot[job.me], InEnds)
      BY <2>1, <3>1, <3>2, InputIs
    <3>4. QED
      BY <3>3 DEF ReadEnd
  <2>6. ReceivesFromSender'
    BY <2>5 DEF ReceivesFromSender
  <2>7. QED
    BY <2>4, <2>6
<1>3. QED
  BY <1>1, <1>2

LEMMA ForkPipes ==
  ASSUME IInv, IInv', PipesInv, Fork
  PROVE  PipesInv'
<1> USE DEF PipesInv
<1>1. PICK in : /\ in = IF job.badIn THEN Closed ELSE Stdin(InEnds.r, job.due.r)
                /\ job' = [job EXCEPT !.stage = 1, !.in = in, !.input = InputOf(in)]
  BY DEF Fork
<1>2. /\ pc = "run" /\ pc' = "wait" /\ job.cmd.stages = 1
      /\ UNCHANGED <<slot, ufd, nump, upipe, F, misclose>>
  BY DEF Fork, uvars, pvars
<1>3. job \in Job
  BY Typing
<1>4. /\ job'.stage = 1 /\ job'.in = in /\ job'.input = InputOf(in)
      /\ job'.me = job.me /\ job'.cmd = job.cmd /\ job'.badIn = job.badIn
      /\ job'.due = job.due /\ job'.tmp = job.tmp
  BY <1>1, <1>3 DEF Job
<1>5. job.stage = 0
  BY <1>2, <1>3 DEF StagesCounted, Job
<1>6. (HeldExplained /\ ReceivesFromSender)'
  BY <1>1, <1>2, <1>4, <1>5, FirstReads
<1>7. EndsNamed(F)' /\ EntriesWhole' /\ (FromPending /\ StagesCounted)'
  BY <1>2, <1>4 DEF EndsNamed, EntriesWhole, Whole, FromPending, StagesCounted
<1>8. ASSUME Wired
      PROVE  Wired'
  <2>1. \A a, b \in Users : BeingFilled(a, b) => BeingFilled(a, b)'
    BY <1>2, <1>4 DEF BeingFilled, InNpshell
  <2>2. /\ (SocketsOpen /\ PendingPipesIntact /\ NumberedPipesIntact /\ NumberedApart)'
        /\ FilledClosed'
    BY <1>2, <1>8, <2>1, RunWires
  <2>3. DueOpen' /\ LastOpen'
    BY <1>2, <1>4, <1>8 DEF Wired, DueOpen, LastOpen, InNpshell, Apart
  <2>4. QED
    BY <2>2, <2>3 DEF Wired
<1>9. QED
  BY <1>2, <1>6, <1>7, <1>8

(* The end of a single program. *)
LEMMA ReapPipes ==
  ASSUME IInv, IInv', PipesInv, Reap
  PROVE  PipesInv'
<1> USE DEF PipesInv
<1>1. PICK i, from, to : i = job.me /\ from = job.cmd.from /\ to = job.cmd.to
  OBVIOUS
<1>2. PICK outW, inR, S :
        /\ outW = IF ClosesOut(i, to) THEN upipe[i][to].w ELSE Nil
        /\ inR = IF from \in Users THEN upipe[from][i].r ELSE Nil
        /\ S = {job.due.r, outW, inR}
  OBVIOUS
<1>3. /\ pc = "wait" /\ job.cmd.stages = 1 /\ F' = CloseAll(F, S) /\ job' = NoJob
      /\ misclose => misclose'
      /\ ~misclose' /\ ClosesOut(i, to) =>
            Strays(F, slot[i], slot[to], upipe[i][to], {outW}) = {}
      /\ upipe' = IF from \in Users THEN [upipe EXCEPT ![from][i] = NoEnds] ELSE upipe
      /\ UNCHANGED <<slot, ufd, nump>>
  BY <1>1, <1>2 DEF Reap, CanReap, uvars
<1>4. pc' \notin {"run", "wait"}
  BY OutcomesAre DEF Reap, Loop
<1>5. i \in Online /\ i \in Users /\ F \in Table
  BY <1>1, <1>3, Typing DEF IInv, JobOnline, Online
<1>6. /\ EndsNamed(F)'
      /\ \A f \in FD : F'[f] = IF f \in S THEN Closed ELSE F[f]
  BY <1>3, <1>5, ClosedAll
<1>7. \A a, b \in Users : upipe'[a][b] = IF from \in Users /\ a = from /\ b = i
                                         THEN NoEnds ELSE upipe[a][b]
  BY <1>3, <1>5 DEF IInv, TypeOK
<1>8. \A j \in Users : Later(nump[j], nump'[j])
  BY <1>3 DEF Later
<1>9. (FromPending /\ StagesCounted /\ HeldExplained /\ ReceivesFromSender)'
      /\ (DueOpen /\ LastOpen)' /\ EntriesWhole'
  BY <1>3, <1>4, <1>8, Outside, OutsideWhole
<1>10. ASSUME Wired, ~misclose'
       PROVE  Wired'
  <2>1. \A a, b \in Users : upipe'[a][b] # NoEnds => upipe'[a][b] = upipe[a][b]
    BY <1>7
  <2>2. \A f \in FD : f = job.due.r => Spared(f)
    <3>1. PICK e \in Ends : e = job.due
      BY Typing
    <3>2. e.r \in FD => e # NoEnds
      BY DEF NoEnds, Nil, FD
    <3>3. e.r \in FD => F[e.r] = ReadEnd(slot[job.me], NoClient, e) /\ Apart(e)
      BY <1>3, <1>10, <3>1, <3>2 DEF Wired, DueOpen, InNpshell
    <3>4. QED
      BY <1>1, <1>5, <1>10, <2>1, <3>1, <3>3, OwnSpared
  <2>3. \A f \in FD : f = inR => Spared(f)
    <3> SUFFICES ASSUME NEW f \in FD, f = inR PROVE Spared(f)
      OBVIOUS
    <3>1. from \in Users /\ f = upipe[from][i].r
      BY <1>2 DEF Nil, FD
    <3>2. PICK e \in Ends : e = upipe[from][i]
      BY <1>5, <3>1, Typing
    <3>3. e # NoEnds
      BY <3>1, <3>2 DEF NoEnds, Nil, FD
    <3>4. F[f] = ReadEnd(slot[from], slot[i], e)
      BY <1>5, <1>10, <3>1, <3>2, <3>3, Pendings DEF Wired
    <3>5. upipe'[from][i] = NoEnds
      BY <1>5, <1>7, <3>1
    <3>6. QED
      BY <1>5, <1>10, <2>1, <3>1, <3>2, <3>3, <3>4, <3>5, UserSpared
  <2>4. \A f \in FD : f = outW => Spared(f)
    <3> SUFFICES ASSUME NEW f \in FD, f = outW PROVE Spared(f)
      OBVIOUS
    <3>1. ClosesOut(i, to) /\ to \in Users /\ f = upipe[i][to].w
      BY <1>2 DEF Nil, FD, ClosesOut
    <3>2. PICK e \in Ends : e = upipe[i][to]
      BY <1>5, <3>1, Typing
    <3>3. e # NoEnds
      BY <3>1, <3>2 DEF NoEnds, Nil, FD
    <3>4. F[f] \in {Closed, ReadEnd(slot[i], slot[to], e), WriteEnd(slot[i], slot[to], e)}
      BY <1>3, <1>10, <3>1, <3>2 DEF Strays
    <3>5. QED
      BY <1>5, <1>10, <2>1, <3>1, <3>2, <3>3, <3>4, UserSpared
  <2>5. \A f \in FD : F'[f] # F[f] => Spared(f) /\ Private(F'[f])
    BY <1>2, <1>6, <2>2, <2>3, <2>4 DEF Private
  <2>6. ASSUME NEW a \in Users, NEW b \in Users, a # b, BeingFilled(a, b),
               upipe'[a][b] # NoEnds
        PROVE  F'[upipe[a][b].w] # WriteEnd(slot[a], slot[b], upipe[a][b])
    <3>1. a = i /\ b = to /\ ClosesOut(i, to)
      BY <1>1, <2>6 DEF BeingFilled, ClosesOut
    <3>2. upipe[a][b].w \in FD /\ upipe[a][b].w \in S
      BY <1>2, <1>10, <2>1, <2>6, <3>1, Pendings DEF Wired
    <3>3. F'[upipe[a][b].w] = Closed
      BY <1>6, <3>2
    <3>4. QED
      BY <3>3 DEF Closed, WriteEnd
  <2>7. /\ (SocketsOpen /\ PendingPipesIntact /\ NumberedPipesIntact /\ NumberedApart)'
        /\ FilledClosed'
    BY <1>3, <1>10, <2>1, <2>5, <2>6, RunWires
  <2>8. QED
    BY <1>9, <2>7 DEF Wired
<1>11. QED
  BY <1>3, <1>6, <1>9, <1>10

(* What opening the next pipe of a pipeline does to the table. *)
LEMMA StageOpens ==
  ASSUME IInv, PipesInv, pc = "run", CanPipe(F),
         NEW G, G = OpenPipe(F, slot[job.me], NoClient), NEW e, e = NewEnds(F)
  PROVE  /\ e \in Ends /\ e # NoEnds /\ e.r \in FD /\ e.w \in FD /\ e.r # e.w
         /\ F[e.r] = Closed /\ F[e.w] = Closed /\ G \in Table /\ EndsNamed(G)
         /\ G[e.r] = ReadEnd(slot[job.me], NoClient, e)
         /\ G[e.w] = WriteEnd(slot[job.me], NoClient, e)
         /\ \A f \in FD \ {e.r, e.w} : G[f] = F[f]
         /\ job.me \in Online /\ job.me \in Users
         /\ Wired => Apart(e)
<1>1. job.me \in Online /\ job.me \in Users /\ slot[job.me] \in Clients /\ F \in Table
  BY Typing DEF IInv, JobOnline
<1>2. /\ e \in Ends /\ e # NoEnds /\ e.r \in FD /\ e.w \in FD /\ e.r # e.w
      /\ F[e.r] = Closed /\ F[e.w] = Closed /\ G \in Table /\ EndsNamed(G)
      /\ G[e.r] = ReadEnd(slot[job.me], NoClient, e)
      /\ G[e.w] = WriteEnd(slot[job.me], NoClient, e)
      /\ \A f \in FD \ {e.r, e.w} : G[f] = F[f]
  BY <1>1, Opened DEF PipesInv
<1>3. ASSUME Wired, NEW n \in 1 .. MaxNum, nump[job.me][n].ends = e
      PROVE  FALSE
  BY <1>1, <1>2, <1>3, Numbereds DEF PipesInv, Wired
<1>4. QED
  BY <1>1, <1>2, <1>3 DEF Apart

(* The first program of a pipeline takes the pipes the command reads. *)
LEMMA FirstStagePipes ==
  ASSUME IInv, IInv', PipesInv, FirstStage
  PROVE  PipesInv'
<1> USE DEF PipesInv
<1>1. PICK i, from, e, G, in, S :
        /\ i = job.me /\ from = job.cmd.from /\ e = NewEnds(F)
        /\ G = OpenPipe(F, slot[job.me], NoClient) /\ in = Stdin(job.due.r, InEnds.r)
        /\ S = {e.w, InEnds.r, job.due.r}
  OBVIOUS
<1>2. /\ pc = "run" /\ pc' = "run" /\ job.cmd.stages > 1 /\ job.stage = 0 /\ CanPipe(F)
      /\ F' = CloseAll(G, S) /\ (misclose => misclose')
      /\ upipe' = IF InEnds # NoEnds THEN [upipe EXCEPT ![from][i] = NoEnds] ELSE upipe
      /\ job' = [job EXCEPT !.stage = 1, !.tmp = e, !.in = in, !.input = InputOf(in)]
      /\ UNCHANGED <<slot, ufd, nump>>
  BY <1>1 DEF FirstStage, uvars
<1>3. /\ e \in Ends /\ e # NoEnds /\ e.r \in FD /\ e.w \in FD /\ e.r # e.w
      /\ F[e.r] = Closed /\ F[e.w] = Closed /\ G \in Table /\ EndsNamed(G)
      /\ G[e.r] = ReadEnd(slot[i], NoClient, e)
      /\ \A f \in FD \ {e.r, e.w} : G[f] = F[f]
      /\ i \in Online /\ i \in Users /\ (Wired => Apart(e))
  BY <1>1, <1>2, StageOpens
<1>4. job \in Job /\ job.cmd.stages \in Nat
  BY Typing DEF Job, Cmd
<1>5. /\ job'.stage = 1 /\ job'.tmp = e /\ job'.in = in /\ job'.input = InputOf(in)
      /\ job'.me = job.me /\ job'.cmd = job.cmd /\ job'.badIn = job.badIn
      /\ job'.due = job.due
  BY <1>2, <1>4 DEF Job
<1>6. /\ EndsNamed(F)'
      /\ \A f \in FD : F'[f] = IF f \in S THEN Closed ELSE G[f]
  BY <1>2, <1>3, ClosedAll
<1>7. EntriesWhole' /\ (FromPending /\ StagesCounted)'
  <2>1. Whole(e)
    BY <1>3 DEF Whole
  <2>2. EntriesWhole'
    BY <1>2, <1>5, <2>1 DEF EntriesWhole, Whole
  <2>3. (FromPending /\ StagesCounted)'
    BY <1>2, <1>4, <1>5 DEF FromPending, StagesCounted
  <2>4. QED
    BY <2>2, <2>3
<1>8. (HeldExplained /\ ReceivesFromSender)'
  BY <1>1, <1>2, <1>5, FirstReads
<1>9. ASSUME Wired
      PROVE  Wired'
  <2>1. /\ InEnds # NoEnds =>
              /\ from \in Users /\ InEnds = upipe[from][i]
              /\ InEnds \in Ends /\ InEnds.r \in FD
              /\ F[InEnds.r] = ReadEnd(slot[from], slot[i], InEnds)
              /\ F[InEnds.r] # Closed
        /\ job.due # NoEnds =>
              /\ job.due.r \in FD
              /\ F[job.due.r] = ReadEnd(slot[i], NoClient, job.due)
              /\ F[job.due.r] # Closed /\ Apart(job.due)
        /\ NoEnds.r \notin FD
    BY <1>1, <1>2, <1>9, InputIs
  <2>2. \A a, b \in Users : upipe'[a][b] = IF InEnds # NoEnds /\ a = from /\ b = i
                                           THEN NoEnds ELSE upipe[a][b]
    BY <1>2, <1>3, <2>1 DEF IInv, TypeOK
  <2>3. \A a, b \in Users : upipe'[a][b] # NoEnds => upipe'[a][b] = upipe[a][b]
    BY <2>2
  <2>4. \A f \in FD : f = job.due.r => Spared(f)
    BY <1>1, <1>3, <1>9, <2>1, <2>3, Typing, OwnSpared
  <2>5. \A f \in FD : f = InEnds.r => Spared(f)
    <3> SUFFICES ASSUME NEW f \in FD, f = InEnds.r PROVE Spared(f)
      OBVIOUS
    <3>1. PICK g \in Ends : g = InEnds /\ g # NoEnds
      BY <2>1
    <3>2. /\ from \in Users /\ g = upipe[from][i] /\ F[f] = ReadEnd(slot[from], slot[i], g)
          /\ upipe'[from][i] = NoEnds
      BY <1>3, <2>1, <2>2, <3>1
    <3>3. QED
      BY <1>3, <1>9, <2>3, <3>1, <3>2, UserSpared
  <2>6. \A f \in FD : F'[f] # F[f] => (F[f] = Closed \/ Spared(f)) /\ Private(F'[f])
    BY <1>1, <1>3, <1>6, <2>4, <2>5 DEF Private
  <2>7. \A a, b \in Users : BeingFilled(a, b) => BeingFilled(a, b)'
    BY <1>2, <1>4, <1>5 DEF BeingFilled, InNpshell
  <2>8. /\ (SocketsOpen /\ PendingPipesIntact /\ NumberedPipesIntact /\ NumberedApart)'
        /\ FilledClosed'
    BY <1>2, <1>9, <2>3, <2>6, <2>7, RunWires
  <2>9. DueOpen'
    BY <1>2, <1>4, <1>5 DEF DueOpen
  <2>10. LastOpen'
    <3>1. e.r \notin S
      BY <1>1, <1>3, <2>1
    <3>2. F'[e.r] = ReadEnd(slot[i], NoClient, e)
      BY <1>3, <1>6, <3>1
    <3>3. QED
      BY <1>1, <1>2, <1>3, <1>5, <1>9, <3>2 DEF LastOpen, Apart
  <2>11. QED
    BY <2>8, <2>9, <2>10 DEF Wired
<1>10. QED
  BY <1>2, <1>6, <1>7, <1>8, <1>9

LEMMA MiddleStagePipes ==
  ASSUME IInv, IInv', PipesInv, MiddleStage
  PROVE  PipesInv'
<1> USE DEF PipesInv
<1>1. PICK i, e, G, S :
        /\ i = job.me /\ e = NewEnds(F) /\ G = OpenPipe(F, slot[job.me], NoClient)
        /\ S = {job.tmp.r, e.w}
  OBVIOUS
<1>2. /\ pc = "run" /\ pc' = "run" /\ job.stage > 0 /\ job.stage + 1 < job.cmd.stages
      /\ CanPipe(F) /\ F' = CloseAll(G, S)
      /\ job' = [job EXCEPT !.stage = job.stage + 1, !.tmp = e]
      /\ UNCHANGED <<slot, ufd, nump, upipe, misclose>>
  BY <1>1 DEF MiddleStage, NextStage, uvars
<1>3. /\ e \in Ends /\ e # NoEnds /\ e.r \in FD /\ e.w \in FD /\ e.r # e.w
      /\ F[e.r] = Closed /\ F[e.w] = Closed /\ G \in Table /\ EndsNamed(G)
      /\ G[e.r] = ReadEnd(slot[i], NoClient, e)
      /\ \A f \in FD \ {e.r, e.w} : G[f] = F[f]
      /\ i \in Online /\ i \in Users /\ (Wired => Apart(e))
  BY <1>1, <1>2, StageOpens
<1>4. job \in Job /\ job.stage \in Nat /\ job.cmd.stages \in Nat
  BY Typing DEF Job, Cmd
<1>5. /\ job'.stage = job.stage + 1 /\ job'.tmp = e
      /\ job'.me = job.me /\ job'.cmd = job.cmd /\ job'.badIn = job.badIn
      /\ job'.due = job.due /\ job'.in = job.in /\ job'.input = job.input
  BY <1>2, <1>4 DEF Job
<1>6. job'.stage > 1 /\ job'.stage < job'.cmd.stages /\ job.stage < job.cmd.stages
  BY <1>2, <1>4, <1>5
<1>7. /\ EndsNamed(F)'
      /\ \A f \in FD : F'[f] = IF f \in S THEN Closed ELSE G[f]
  BY <1>2, <1>3, ClosedAll
<1>8. EntriesWhole' /\ (FromPending /\ StagesCounted)'
  <2>1. Whole(e)
    BY <1>3 DEF Whole
  <2>2. EntriesWhole'
    BY <1>2, <1>5, <2>1 DEF EntriesWhole, Whole
  <2>3. (FromPending /\ StagesCounted)'
    BY <1>2, <1>6 DEF FromPending, StagesCounted
  <2>4. QED
    BY <2>2, <2>3
<1>9. (HeldExplained /\ ReceivesFromSender)'
  BY <1>2, <1>5 DEF HeldExplained, ReceivesFromSender, Started
<1>10. ASSUME Wired
       PROVE  Wired'
  <2>1. PICK g \in Ends : g = job.tmp
    BY Typing
  <2>2. F[g.r] = ReadEnd(slot[i], NoClient, g) /\ Apart(g) /\ g # NoEnds
    BY <1>1, <1>2, <1>6, <1>10, <2>1 DEF Wired, LastOpen, InNpshell
  <2>3. g.r \in FD /\ F[g.r] # Closed
    BY <2>1, <2>2, ObjsDiffer DEF EntriesWhole, Whole
  <2>4. Spared(g.r)
    BY <1>1, <1>2, <1>3, <1>10, <2>2, <2>3, OwnSpared
  <2>5. \A f \in FD : F'[f] # F[f] => (F[f] = Closed \/ Spared(f)) /\ Private(F'[f])
    BY <1>1, <1>3, <1>7, <2>1, <2>4 DEF Private
  <2>6. \A a, b \in Users : BeingFilled(a, b) => BeingFilled(a, b)'
    BY <1>2, <1>5, <1>6 DEF BeingFilled, InNpshell
  <2>7. /\ (SocketsOpen /\ PendingPipesIntact /\ NumberedPipesIntact /\ NumberedApart)'
        /\ FilledClosed'
    BY <1>2, <1>10, <2>5, <2>6, RunWires
  <2>8. DueOpen'
    <3>1. job'.stage # 0 /\ job'.cmd.stages # 1
      BY <1>4, <1>5, <1>6
    <3>2. QED
      BY <3>1 DEF DueOpen
  <2>9. LastOpen'
    <3>1. e.r \notin S
      BY <1>1, <1>3, <2>1, <2>3
    <3>2. F'[e.r] = ReadEnd(slot[i], NoClient, e)
      BY <1>3, <1>7, <3>1
    <3>3. QED
      BY <1>1, <1>2, <1>3, <1>5, <1>10, <3>2 DEF LastOpen, Apart
  <2>10. QED
    BY <2>7, <2>8, <2>9 DEF Wired
<1>11. QED
  BY <1>2, <1>7, <1>8, <1>9, <1>10

(* The last program's pipe is left open; the pipe it fills is closed. *)
LEMMA LastStagePipes ==
  ASSUME IInv, IInv', PipesInv, LastStage
  PROVE  PipesInv'
<1> USE DEF PipesInv
<1>1. PICK i, to, e, G, outW, S :
        /\ i = job.me /\ to = job.cmd.to
        /\ e = NewEnds(F) /\ G = OpenPipe(F, slot[job.me], NoClient)
        /\ outW = IF to \in Users THEN upipe[i][to].w ELSE Nil
        /\ S = {job.tmp.r, outW}
  OBVIOUS
<1>2. /\ pc = "run" /\ pc' = "wait" /\ job.stage > 0 /\ job.stage + 1 = job.cmd.stages
      /\ CanPipe(F) /\ F' = CloseAll(G, S) /\ (misclose => misclose')
      /\ (~misclose' /\ to \in Users =>
              Strays(G, slot[i], slot[to], upipe[i][to], {outW}) = {})
      /\ job' = [job EXCEPT !.stage = job.stage + 1, !.tmp = NoEnds]
      /\ UNCHANGED <<slot, ufd, nump, upipe>>
  BY <1>1 DEF LastStage, NextStage, uvars
<1>3. /\ e \in Ends /\ e.r \in FD /\ e.w \in FD /\ e.r # e.w
      /\ F[e.r] = Closed /\ F[e.w] = Closed /\ G \in Table /\ EndsNamed(G)
      /\ G[e.r] = ReadEnd(slot[i], NoClient, e) /\ G[e.w] = WriteEnd(slot[i], NoClient, e)
      /\ \A f \in FD \ {e.r, e.w} : G[f] = F[f]
      /\ i \in Online /\ i \in Users
  BY <1>1, <1>2, StageOpens
<1>4. job \in Job /\ job.stage \in Nat /\ job.cmd.stages \in Nat
  BY Typing DEF Job, Cmd
<1>5. /\ job'.stage = job.stage + 1 /\ job'.tmp = NoEnds
      /\ job'.me = job.me /\ job'.cmd = job.cmd /\ job'.badIn = job.badIn
      /\ job'.due = job.due /\ job'.in = job.in /\ job'.input = job.input
  BY <1>2, <1>4 DEF Job
<1>6. job'.stage > 1 /\ job'.stage = job'.cmd.stages /\ job.stage < job.cmd.stages
  BY <1>2, <1>4, <1>5
<1>7. /\ EndsNamed(F)'
      /\ \A f \in FD : F'[f] = IF f \in S THEN Closed ELSE G[f]
  BY <1>2, <1>3, ClosedAll
<1>8. EntriesWhole' /\ (FromPending /\ StagesCounted)'
  BY <1>2, <1>5, <1>6 DEF EntriesWhole, Whole, FromPending, StagesCounted
<1>9. (HeldExplained /\ ReceivesFromSender)'
  BY <1>2, <1>5 DEF HeldExplained, ReceivesFromSender, Started
<1>10. ASSUME Wired, ~misclose'
       PROVE  Wired'
  <2>1. PICK g \in Ends : g = job.tmp
    BY Typing
  <2>2. F[g.r] = ReadEnd(slot[i], NoClient, g) /\ Apart(g) /\ g # NoEnds
    BY <1>1, <1>2, <1>6, <1>10, <2>1 DEF Wired, LastOpen, InNpshell
  <2>3. g.r \in FD
    BY <2>1, <2>2 DEF EntriesWhole, Whole
  <2>4. Spared(g.r)
    BY <1>1, <1>2, <1>3, <1>10, <2>2, <2>3, OwnSpared
  <2>5. \A f \in FD : f = outW => F[f] = Closed \/ Spared(f)
    <3> SUFFICES ASSUME NEW f \in FD, f = outW, F[f] # Closed PROVE Spared(f)
      OBVIOUS
    <3>1. to \in Users /\ f = upipe[i][to].w
      BY <1>1 DEF Nil, FD
    <3>2. PICK h \in Ends : h = upipe[i][to]
      BY <1>3, <3>1, Typing
    <3>3. h # NoEnds
      BY <3>1, <3>2 DEF NoEnds, Nil, FD
    <3>4. G[f] \in {Closed, ReadEnd(slot[i], slot[to], h), WriteEnd(slot[i], slot[to], h)}
      BY <1>2, <1>10, <3>1, <3>2 DEF Strays
    <3>5. G[f] = F[f]
      BY <1>3
    <3>6. QED
      BY <1>2, <1>3, <1>10, <3>1, <3>2, <3>3, <3>4, <3>5, UserSpared
  <2>6. \A f \in FD : F'[f] # F[f] => (F[f] = Closed \/ Spared(f)) /\ Private(F'[f])
    BY <1>1, <1>3, <1>7, <2>1, <2>4, <2>5 DEF Private
  <2>7. ASSUME NEW a \in Users, NEW b \in Users, a # b, BeingFilled(a, b),
               upipe'[a][b] # NoEnds
        PROVE  F'[upipe[a][b].w] # WriteEnd(slot[a], slot[b], upipe[a][b])
    <3>1. a = i /\ b = to
      BY <1>1, <2>7 DEF BeingFilled
    <3>2. upipe[a][b].w \in FD /\ upipe[a][b].w \in S
      BY <1>1, <1>2, <1>10, <2>7, <3>1, Pendings DEF Wired
    <3>3. F'[upipe[a][b].w] = Closed
      BY <1>7, <3>2
    <3>4. QED
      BY <3>3 DEF Closed, WriteEnd
  <2>8. /\ (SocketsOpen /\ PendingPipesIntact /\ NumberedPipesIntact /\ NumberedApart)'
        /\ FilledClosed'
    BY <1>2, <1>10, <2>6, <2>7, RunWires
  <2>9. DueOpen' /\ LastOpen'
    <3>1. /\ job'.stage # 0 /\ job'.cmd.stages # 1
          /\ ~(job'.stage < job'.cmd.stages)
      BY <1>4, <1>5, <1>6
    <3>2. QED
      BY <3>1 DEF DueOpen, LastOpen
  <2>10. QED
    BY <2>8, <2>9 DEF Wired
<1>11. QED
  BY <1>2, <1>7, <1>8, <1>9, <1>10

-----------------------------------------------------------------------------
(* Every step keeps the invariant. *)
LEMMA NextPipes == IInv /\ IInv' /\ PipesInv /\ [Next]_vars => PipesInv'
<1> SUFFICES ASSUME IInv, IInv', PipesInv, [Next]_vars PROVE PipesInv'
  OBVIOUS
<1>1. CASE UNCHANGED vars
  BY <1>1, SameServer DEF vars, uvars, pvars, lvars
<1>2. ASSUME NEW c \in Clients, Client(c)
      PROVE  PipesInv'
  BY <1>2, SameServer DEF Client, Connect, Type, FinishLine, Drop, uvars, pvars, lvars
<1>3. CASE \/ SelectFails \/ Select \/ AcceptFails
           \/ \E fd \in FD : ReadNothing(fd) \/ ReadPipe(fd)
  BY <1>3, LoopPipes
<1>4. ASSUME NEW c \in Clients, Accept(c) \/ AcceptOverflows(c)
      PROVE  PipesInv'
  BY <1>4, AcceptPipes, AcceptOverflowsPipes
<1>5. ASSUME NEW fd \in FD, NEW c \in Clients, ServeLine(fd, c)
      PROVE  PipesInv'
  <2>1. CASE Logout(fd, c)
    BY <2>1, LogoutPipes
  <2>2. CASE \/ BlankLine(fd, c) \/ Chat(fd, c) \/ ShellExit(fd, c)
             \/ \E n \in Names : Rename(fd, c, n)
             \/ \E v \in Vars, x \in Vals : Setenv(fd, c, v, x)
    BY <2>2, BuiltinPipes
  <2>3. ASSUME NEW k \in Users, NEW cmd \in Commands[k], NEW seen \in BOOLEAN,
               Shell(fd, c, cmd, seen)
        PROVE  PipesInv'
    BY <2>3, ShellPipes
  <2>4. QED
    BY <1>5, <2>1, <2>2, <2>3 DEF ServeLine
<1>6. CASE RunCommand
  <2>1. CASE SwallowLine
    BY <2>1, SameServer DEF SwallowLine, uvars, pvars, lvars
  <2>2. QED
    BY <1>6, <2>1, ForkPipes, ReapPipes, FirstStagePipes, MiddleStagePipes,
       LastStagePipes, PipelineEnds DEF RunCommand
<1>7. QED
  BY <1>1, <1>2, <1>3, <1>4, <1>5, <1>6 DEF Next, Server, Terminated

-----------------------------------------------------------------------------
(* The invariant holds in every state of every behaviour of the server. *)
THEOREM PipesInvariant == Spec => []PipesInv
<1>1. Init => IInv /\ PipesInv
  BY InitInvariant, InitPipes
<1>2. IInv /\ PipesInv /\ [Next]_vars => (IInv /\ PipesInv)'
  BY NextInvariant, NextPipes
<1>3. QED
  BY <1>1, <1>2, PTL DEF Spec

(***************************************************************************)
(* As long as no close() of npshell() or logout() has hit a number that    *)
(* had been handed out again, the socket of every user in user[] is open   *)
(* and his own.                                                            *)
(***************************************************************************)
THEOREM SocketsStayOpen == Spec => []SocketsOpenUnlessMisclosed
<1>1. PipesInv => SocketsOpenUnlessMisclosed
  BY DEF PipesInv, Wired, SocketsOpenUnlessMisclosed
<1>2. QED
  BY <1>1, PipesInvariant, PTL

(***************************************************************************)
(* Nor is a user pipe broken that waits in user_pipe[][]: it is between    *)
(* two online users, and its read end is open and its own.                 *)
(***************************************************************************)
THEOREM UserPipesStayIntact == Spec => []PendingPipesIntactUnlessMisclosed
<1>1. PipesInv => PendingPipesIntactUnlessMisclosed
  BY DEF PipesInv, Wired, PendingPipesIntactUnlessMisclosed
<1>2. QED
  BY <1>1, PipesInvariant, PTL

(* Nor is a numbered pipe that waits in a user's pipe table, and it waits for
   one command only. *)
THEOREM NumberedPipesStayIntact == Spec => []NumberedPipesIntactUnlessMisclosed
<1>1. PipesInv => NumberedPipesIntactUnlessMisclosed
  BY DEF PipesInv, Wired, NumberedPipesIntactUnlessMisclosed
<1>2. QED
  BY <1>1, PipesInvariant, PTL

(***************************************************************************)
(* The server waits in npshell() for a program that waits for the server   *)
(* only if a user pipes to himself or a close() has hit a reused number:   *)
(* otherwise the server has closed its write end of whatever the first     *)
(* program reads.                                                          *)
(***************************************************************************)
THEOREM NeverHangs == Spec => []ServerNeverHangs
<1>1. PipesInv => ServerNeverHangs
  BY DEF PipesInv, HeldExplained, ServerNeverHangs, Hung
<1>2. QED
  BY <1>1, PipesInvariant, PTL

(***************************************************************************)
(* A program started with `<from` that was announced reads the pipe from   *)
(* that user to this one, unless the command was due to read a numbered    *)
(* pipe or a close() has hit a reused number.                              *)
(***************************************************************************)
THEOREM ReadsSender == Spec => []ReceivesFromSender
<1>1. PipesInv => ReceivesFromSender
  BY DEF PipesInv
<1>2. QED
  BY <1>1, PipesInvariant, PTL

-----------------------------------------------------------------------------
(* The turn of a numbered pipe. *)
KeepsTurn(p, q) ==
    \A n \in 1 .. MaxNum - 1 :
        p[n + 1].made => q[n + 1] = p[n + 1] \/ q[n] = p[n + 1]

LEMMA Turns ==
  ASSUME NEW p \in [1 .. MaxNum -> NumEntry], NEW k, NEW x,
         NEW q, \/ q = Tick(p)
                \/ q = [Tick(p) EXCEPT ![k] = x] /\ ~MadeFor(Tick(p), k)
  PROVE  KeepsTurn(p, q)
<1> SUFFICES ASSUME NEW n \in 1 .. MaxNum - 1, p[n + 1].made
             PROVE  q[n] = p[n + 1]
  BY DEF KeepsTurn
<1>1. MaxNum \in Nat
  BY ServerAssumption
<1>2. n \in 1 .. MaxNum /\ n # MaxNum
  BY <1>1
<1>3. /\ Tick(p) \in [1 .. MaxNum -> NumEntry] /\ Tick(p)[n] = p[n + 1]
  BY <1>2, Ticked
<1> DEFINE t == Tick(p)
<1>4. t[n].made
  BY <1>3
<1> HIDE DEF t
<1>5. CASE q = t
  BY <1>3, <1>5 DEF t
<1>6. CASE q = [t EXCEPT ![k] = x] /\ ~t[k].made
  BY <1>2, <1>3, <1>4, <1>6 DEF t
<1>7. QED
  BY <1>5, <1>6 DEF t, MadeFor

(***************************************************************************)
(* A numbered pipe that has been made moves up by one with each command of *)
(* its user, whatever the other users do, and no other takes its place: an *)
(* accept() empties the table only of an id that was free, and npshell()   *)
(* makes a pipe for |N only if there is none (numpipe_exist).              *)
(***************************************************************************)
THEOREM TurnKept == Spec => NumberedPipesKeepTurn
<1>1. ASSUME IInv, [Next]_vars
      PROVE  [\A i \in Users : \A n \in 1 .. MaxNum - 1 :
                 nump[i][n + 1].made /\ slot'[i] = slot[i] =>
                     \/ nump'[i][n + 1] = nump[i][n + 1]
                     \/ nump'[i][n] = nump[i][n + 1]]_vars
  <2> SUFFICES ASSUME NEW i \in Users, slot'[i] = slot[i]
               PROVE  KeepsTurn(nump[i], nump'[i])
    BY DEF KeepsTurn
  <2>1. nump \in [Users -> [1 .. MaxNum -> NumEntry]] /\ slot \in [Users -> Clients \cup {NoClient}]
    BY <1>1 DEF IInv, TypeOK
  <2>2. nump' = nump => KeepsTurn(nump[i], nump'[i])
    BY DEF KeepsTurn
  <2>3. ASSUME NEW j \in Users, nump' = [nump EXCEPT ![j] = Tick(nump[j])]
        PROVE  KeepsTurn(nump[i], nump'[i])
    <3>1. CASE j = i
      BY <2>1, <2>3, <3>1, Turns
    <3>2. CASE j # i
      BY <2>1, <2>3, <3>2 DEF KeepsTurn
    <3>3. QED
      BY <3>1, <3>2
  <2>4. ASSUME NEW c \in Clients, Accept(c)
        PROVE  KeepsTurn(nump[i], nump'[i])
    <3>1. FreeEntry \in Users /\ slot[FreeEntry] = NoClient
      <4>1. TypeOK /\ Online # Users
        BY <1>1, <2>4 DEF Accept, IInv
      <4>2. QED
        BY <4>1, FreeEntryIsFree
    <3>2. slot'[FreeEntry] = c /\ c # NoClient
      BY <2>1, <2>4, <3>1, FdAssumption DEF Accept
    <3>3. nump'[i] = nump[i]
      BY <2>1, <2>4, <3>1, <3>2 DEF Accept
    <3>4. QED
      BY <3>3 DEF KeepsTurn
  <2>5. ASSUME NEW fd \in FD, NEW c \in Clients, ServeLine(fd, c)
        PROVE  KeepsTurn(nump[i], nump'[i])
    <3>1. Index(fd) \in Users
      <4>1. TakeLine(fd, c)
        BY <2>5 DEF ServeLine, BlankLine, Logout, Chat, ShellExit, Rename, Setenv, Shell
      <4>2. QED
        BY <1>1, <4>1, TakeLineFacts DEF Online
    <3>2. CASE \E k \in Users : \E cmd \in Commands[k], seen \in BOOLEAN :
                   Shell(fd, c, cmd, seen)
      <4>1. PICK cmd, seen : Shell(fd, c, cmd, seen)
        BY <3>2
      <4>2. PICK q, x : /\ \/ q = Tick(nump[Index(fd)])
                           \/ /\ q = [Tick(nump[Index(fd)]) EXCEPT ![cmd.num] = x]
                              /\ ~MadeFor(Tick(nump[Index(fd)]), cmd.num)
                        /\ nump' = [nump EXCEPT ![Index(fd)] = q]
        BY <4>1 DEF Shell
      <4>3. CASE Index(fd) = i
        <5>1. nump'[i] = q
          BY <2>1, <3>1, <4>2, <4>3
        <5>2. KeepsTurn(nump[i], q)
          BY <2>1, <4>2, <4>3, Turns
        <5>3. QED
          BY <5>1, <5>2
      <4>4. CASE Index(fd) # i
        <5>1. nump'[i] = nump[i]
          BY <2>1, <4>2, <4>4
        <5>2. QED
          BY <5>1 DEF KeepsTurn
      <4>5. QED
        BY <4>3, <4>4
    <3>3. CASE nump' = nump \/ CountCommand(Index(fd))
      BY <2>2, <2>3, <3>1, <3>3 DEF CountCommand
    <3>4. QED
      BY <2>5, <3>2, <3>3 DEF ServeLine, BlankLine, Logout, Chat, ShellExit, Rename,
         Setenv, pvars
  <2>6. CASE \/ UNCHANGED vars \/ \E c \in Clients : Client(c) \/ AcceptOverflows(c)
             \/ SelectFails \/ Select \/ AcceptFails \/ RunCommand
             \/ \E fd \in FD : ReadNothing(fd) \/ ReadPipe(fd)
    <3>1. nump' = nump
      BY <2>6 DEF vars, Client, Connect, Type, FinishLine, Drop, AcceptOverflows,
         SelectFails, Select, AcceptFails, ReadNothing, ReadPipe, Turn, RunCommand, Fork,
         SwallowLine, Reap, FirstStage, MiddleStage, LastStage, StageFails,
         ReapPipeline, pvars
    <3>2. QED
      BY <2>2, <3>1
  <2>7. QED
    BY <1>1, <2>4, <2>5, <2>6 DEF Next, Server, Terminated
<1>2. QED
  BY <1>1, Invariant, PTL DEF Spec, NumberedPipesKeepTurn
=============================================================================
