--------------------------- MODULE NpServerProofs ---------------------------
(***************************************************************************)
(* Invariants of NpServer for every number of users, clients and           *)
(* descriptors, and every set of commands.                                 *)
(***************************************************************************)
EXTENDS NpServer, WellFoundedInduction, TLAPS

-----------------------------------------------------------------------------
(* What the operators of FdTable return, for every table. *)

Table == [FD -> Obj]

(***************************************************************************)
(* The kernel's "lowest number" exists in every nonempty set of numbers,   *)
(* and is one of them: what accept(), pipe(), user_in() and the loop over  *)
(* rfds rely on.                                                           *)
(***************************************************************************)
LEMMA LowestIsLeast ==
  ASSUME NEW S \in SUBSET Nat, S # {}
  PROVE  Lowest(S) \in S /\ \A g \in S : Lowest(S) <= g
<1> DEFINE R == {p \in Nat \X Nat : p[1] < p[2]}
<1>1. IsWellFoundedOn(R, Nat)
  BY NatLessThanWellFounded DEF OpToRel
<1>2. PICK x \in S : \A y \in S : <<y, x>> \notin R
  BY <1>1, WFMin
<1>3. ASSUME NEW y \in S
      PROVE  x <= y
  <2>1. <<y, x>> \notin R
    BY <1>2
  <2>2. x \in Nat /\ y \in Nat
    OBVIOUS
  <2>3. QED
    BY <2>1, <2>2
<1>4. QED
  BY <1>2, <1>3 DEF Lowest

(* accept() gets a number that was free. *)
LEMMA NewFdIsFree ==
  ASSUME NEW T \in Table, CanOpen(T)
  PROVE  NewFd(T) \in FD /\ T[NewFd(T)] = Closed
<1>1. FreeFds(T) \in SUBSET Nat /\ FreeFds(T) # {}
  BY FdAssumption DEF FreeFds, FD, CanOpen
<1>2. NewFd(T) \in FreeFds(T)
  BY <1>1, LowestIsLeast DEF NewFd
<1>3. QED
  BY <1>2 DEF FreeFds

(* pipe() gets two numbers, both free and different. *)
LEMMA NewEndsAreFree ==
  ASSUME NEW T \in Table, CanPipe(T)
  PROVE  /\ NewEnds(T) \in Ends
         /\ NewEnds(T).r = NewFd(T) /\ NewFd(T) \in FD /\ NewEnds(T).w \in FD
         /\ NewFd(T) # NewEnds(T).w
         /\ T[NewFd(T)] = Closed /\ T[NewEnds(T).w] = Closed
<1>1. CanOpen(T)
  BY DEF CanPipe, CanOpen
<1>2. NewFd(T) \in FD /\ T[NewFd(T)] = Closed
  BY <1>1, NewFdIsFree
<1> DEFINE Rest == FreeFds(T) \ {NewFd(T)}
<1>3. Rest \in SUBSET Nat /\ Rest # {}
  BY FdAssumption DEF FreeFds, FD, CanPipe
<1>4. Lowest(Rest) \in Rest
  BY <1>3, LowestIsLeast
<1>5. NewEnds(T).w = Lowest(Rest) /\ NewEnds(T).r = NewFd(T)
  BY DEF NewEnds
<1>6. NewEnds(T) \in Ends
  BY <1>2, <1>4 DEF NewEnds, Ends, FreeFds
<1>7. QED
  BY <1>2, <1>4, <1>5, <1>6 DEF FreeFds

(* What accept() and pipe() put into the table belongs there. *)
LEMMA ObjTypes ==
  ASSUME NEW c \in Clients \cup {NoClient}, NEW d \in Clients \cup {NoClient},
         NEW e \in Ends
  PROVE  /\ ReadEnd(c, d, e) \in Obj /\ WriteEnd(c, d, e) \in Obj
         /\ Sock(c) \in Obj /\ Closed \in Obj
  BY DEF ReadEnd, WriteEnd, Sock, Closed, Obj, Ends

(* A new pipe takes free numbers only: nothing that was open changes. *)
LEMMA OpenPipeTable ==
  ASSUME NEW T \in Table, CanPipe(T),
         NEW c \in Clients \cup {NoClient}, NEW d \in Clients \cup {NoClient}
  PROVE  /\ OpenPipe(T, c, d) \in Table
         /\ OpenPipe(T, c, d)[NewFd(T)] = ReadEnd(c, d, NewEnds(T))
         /\ OpenPipe(T, c, d)[NewEnds(T).w] = WriteEnd(c, d, NewEnds(T))
         /\ \A f \in FD : T[f] # Closed => OpenPipe(T, c, d)[f] = T[f]
         /\ \A f \in FD \ {NewFd(T), NewEnds(T).w} : OpenPipe(T, c, d)[f] = T[f]
         /\ \A f \in FD : OpenPipe(T, c, d)[f].kind = "sock"
                             => OpenPipe(T, c, d)[f] = T[f]
<1>1. /\ ReadEnd(c, d, NewEnds(T)) \in Obj /\ WriteEnd(c, d, NewEnds(T)) \in Obj
  BY NewEndsAreFree, ObjTypes
<1>2. /\ ReadEnd(c, d, NewEnds(T)).kind = "rd"
      /\ WriteEnd(c, d, NewEnds(T)).kind = "wr"
  BY DEF ReadEnd, WriteEnd
<1> DEFINE r == NewFd(T)
           w == NewEnds(T).w
           R == ReadEnd(c, d, NewEnds(T))
           W == WriteEnd(c, d, NewEnds(T))
<1>3. OpenPipe(T, c, d) = [T EXCEPT ![r] = R, ![w] = W]
  BY DEF OpenPipe
<1>4. r \in FD /\ w \in FD /\ r # w /\ T[r] = Closed /\ T[w] = Closed
  BY NewEndsAreFree
<1> HIDE DEF r, w, R, W
<1>5. R \in Obj /\ W \in Obj /\ R.kind = "rd" /\ W.kind = "wr"
  BY <1>1, <1>2 DEF R, W
<1>6. /\ [T EXCEPT ![r] = R, ![w] = W] \in Table
      /\ [T EXCEPT ![r] = R, ![w] = W][r] = R
      /\ [T EXCEPT ![r] = R, ![w] = W][w] = W
      /\ \A f \in FD \ {r, w} : [T EXCEPT ![r] = R, ![w] = W][f] = T[f]
  BY <1>4, <1>5 DEF Table
<1>7. QED
  BY <1>3, <1>4, <1>5, <1>6 DEF r, w, R, W

(* close() only ever takes numbers away. *)
LEMMA CloseAllTable ==
  ASSUME NEW T \in Table, NEW S
  PROVE  /\ CloseAll(T, S) \in Table
         /\ \A f \in FD : CloseAll(T, S)[f] = IF f \in S THEN Closed ELSE T[f]
         /\ \A f \in FD : CloseAll(T, S)[f].kind = "sock"
                             => CloseAll(T, S)[f] = T[f]
<1>1. Closed \in Obj /\ Closed.kind = "free"
  BY DEF Closed, Obj
<1>2. QED
  BY <1>1 DEF CloseAll, Table

-----------------------------------------------------------------------------

(***************************************************************************)
(* Who is who: user[], the active descriptors and the descriptor table     *)
(* agree.  That no two users share a descriptor does not follow from       *)
(* itself: an accept() may return a number that was closed under a user.   *)
(* It does not, because the select() before it found every active          *)
(* descriptor open (the last conjunct) and nothing is closed in between.   *)
(***************************************************************************)
Members ==
    /\ todo \subseteq afds
    /\ \A i \in Users : slot[i] = NoClient => ufd[i] = Nil
    /\ AfdsMatchUsers
    /\ FdIdentifiesUser
    /\ \A i \in Online : F[ufd[i]].kind = "sock" => F[ufd[i]] = Sock(slot[i])
    /\ \A i \in Online : conn[slot[i]] \in {"on", "eof"}
    /\ \A i, j \in Online : slot[i] = slot[j] => i = j
    /\ pc = "accept" => \A f \in afds : F[f] # Closed

\* A user pipe is between online users, and an entry holds two descriptors or
\* none.
PipesBetweenOnline ==
    \A i, j \in Users : upipe[i][j] # NoEnds =>
        i \in Online /\ j \in Online /\ upipe[i][j].r \in FD /\ upipe[i][j].w \in FD

\* The running command is an online user's; so is the pipe it receives from.
JobOnline ==
    pc \in {"run", "wait"} =>
        /\ job.me \in Online
        /\ job.cmd.from # 0 /\ ~job.badIn => job.cmd.from \in Online

IInv == TypeOK /\ Members /\ PipesBetweenOnline /\ JobOnline

-----------------------------------------------------------------------------
(* Facts used by many steps. *)

(* A step that writes to users goes on, or the server dies of SIGPIPE. *)
LEMMA OutcomesAre ==
  ASSUME NEW S, NEW next, NEW x \in Outcomes(S, next)
  PROVE  x = next \/ x = "dead"
BY DEF Outcomes

(* A server that has just started satisfies the invariant. *)
LEMMA InitInvariant == Init => IInv
<1> SUFFICES ASSUME Init PROVE IInv
  OBVIOUS
<1> USE DEF Init
<1>1. NoPipes \in [1 .. MaxNum -> NumEntry]
  BY DEF NoPipes, NoEntry, NumEntry, NoEnds, Ends
<1>2. NoJob \in Job
  BY ServerAssumption DEF NoJob, Job, NoCmd, Cmd, NoEnds, Ends, Closed, Obj
<1>3. Closed \in Obj /\ NoEnds \in Ends
  BY DEF Closed, Obj, NoEnds, Ends
<1>4. TypeOK
  <2>1. vlist \in [Users -> Seq([var : Vars, val : Vals])]
    OBVIOUS
  <2>2. /\ conn \in [Clients -> ConnState]
        /\ line \in [Clients -> {"none", "part", "full"}]
    BY DEF ConnState
  <2>3. /\ nump \in [Users -> [1 .. MaxNum -> NumEntry]]
        /\ upipe \in [Users -> [Users -> Ends]]
        /\ F \in [FD -> Obj]
    BY <1>1, <1>3
  <2>4. QED
    BY <1>2, <2>1, <2>2, <2>3 DEF TypeOK, PC
<1>5. Online = {}
  BY DEF Online
<1>6. Members
  BY <1>5 DEF Members, AfdsMatchUsers, FdIdentifiesUser
<1>7. PipesBetweenOnline /\ JobOnline
  BY DEF PipesBetweenOnline, JobOnline
<1>8. QED
  BY <1>4, <1>6, <1>7 DEF IInv

(***************************************************************************)
(* A step that lets nobody in or out, and closes or opens pipes at most,   *)
(* keeps Members: a number that was a user's socket is still his or is no  *)
(* socket any more.                                                        *)
(***************************************************************************)
LEMMA QuietMembers ==
  ASSUME TypeOK, Members, pc # "wild",
         UNCHANGED <<slot, ufd, afds>>, todo' \subseteq afds,
         \A c \in Clients : conn[c] \in {"on", "eof"} => conn'[c] \in {"on", "eof"},
         \A f \in FD : F'[f].kind = "sock" => F'[f] = F[f],
         pc' = "accept" => \A f \in afds : F'[f] # Closed
  PROVE  Members'
<1> USE DEF Members
<1>1. Online' = Online
  BY DEF Online
<1>2. AfdsMatchUsers' /\ FdIdentifiesUser'
  BY <1>1 DEF AfdsMatchUsers, FdIdentifiesUser
<1>3. \A i \in Online : ufd[i] \in FD /\ slot[i] \in Clients
  BY DEF TypeOK, Online, FdIdentifiesUser
<1>4. \A i \in Online : F'[ufd[i]].kind = "sock" => F'[ufd[i]] = Sock(slot[i])
  BY <1>3
<1>5. \A i \in Online : conn'[slot[i]] \in {"on", "eof"}
  BY <1>3
<1>6. QED
  BY <1>1, <1>2, <1>4, <1>5 DEF Sock

(* What the others leave alone while no pipe is made, read or dropped. *)
LEMMA QuietPipes ==
  ASSUME PipesBetweenOnline, JobOnline, UNCHANGED <<slot, upipe, job>>,
         pc' \in {"run", "wait"} => pc \in {"run", "wait"}
  PROVE  PipesBetweenOnline' /\ JobOnline'
<1>1. Online' = Online
  BY DEF Online
<1>2. QED
  BY <1>1 DEF PipesBetweenOnline, JobOnline

(* Whatever the clients do, the invariant of the server is kept. *)
LEMMA ClientSteps ==
  ASSUME IInv, NEW c \in Clients, Client(c)
  PROVE  IInv'
<1> USE DEF IInv
<1>1. /\ Running /\ UNCHANGED <<uvars, vlist, pvars, lvars>>
      /\ conn' \in [Clients -> ConnState]
      /\ line' \in [Clients -> {"none", "part", "full"}]
      /\ \A d \in Clients : conn[d] \in {"on", "eof"} => conn'[d] \in {"on", "eof"}
  BY DEF Client, Connect, Type, FinishLine, Drop, TypeOK, ConnState
<1>2. TypeOK'
  BY <1>1 DEF TypeOK, uvars, pvars, lvars
<1>3. Members'
  BY <1>1, QuietMembers DEF Running, Members, uvars, pvars, lvars
<1>4. PipesBetweenOnline' /\ JobOnline'
  BY <1>1, QuietPipes DEF uvars, pvars, lvars
<1>5. QED
  BY <1>2, <1>3, <1>4

(* select(), and the turns that read nothing. *)
LEMMA LoopSteps ==
  ASSUME IInv,
         \/ SelectFails \/ Select \/ AcceptFails
         \/ \E fd \in FD : ReadNothing(fd) \/ ReadPipe(fd)
  PROVE  IInv'
<1> USE DEF IInv
<1>1. /\ pc \in {"select", "accept", "serve"}
      /\ UNCHANGED <<cvars, uvars, vlist, pvars, afds, job>>
      /\ todo' \subseteq afds /\ pc' \in PC \ {"run", "wait"}
  BY DEF SelectFails, Select, AcceptFails, ReadNothing, ReadPipe, Turn, Loop,
         AfterSelect, PC, Members
<1>2. pc' = "accept" => \A f \in afds : F[f] # Closed
  BY DEF SelectFails, Select, AcceptFails, ReadNothing, ReadPipe, Turn, Loop, BadFds
<1>3. TypeOK'
  BY <1>1 DEF TypeOK, cvars, uvars, pvars
<1>4. Members'
  BY <1>1, <1>2, QuietMembers DEF cvars, uvars, pvars
<1>5. PipesBetweenOnline' /\ JobOnline'
  BY <1>1, QuietPipes DEF uvars, pvars
<1>6. QED
  BY <1>3, <1>4, <1>5

(* user_in() finds the lowest free entry when there is one. *)
LEMMA FreeEntryIsFree ==
  ASSUME TypeOK, Online # Users
  PROVE  /\ FreeEntry \in Users /\ slot[FreeEntry] = NoClient
         /\ \A j \in Users : slot[j] = NoClient => FreeEntry <= j
<1>1. Users \ Online \in SUBSET Nat /\ Users \ Online # {}
  BY ServerAssumption DEF Users, Online
<1>2. /\ FreeEntry \in Users \ Online
      /\ \A j \in Users \ Online : FreeEntry <= j
  BY <1>1, LowestIsLeast DEF FreeEntry
<1>3. QED
  BY <1>2 DEF Online

(***************************************************************************)
(* A new user.  His descriptor is not another's, because the others' are   *)
(* all open, as select() has seen.                                         *)
(***************************************************************************)
LEMMA AcceptStep ==
  ASSUME IInv, NEW c \in Clients, Accept(c)
  PROVE  IInv'
<1> USE DEF IInv
<1> DEFINE i == FreeEntry
           fd == NewFd(F)
<1>1. /\ pc = "accept" /\ c \in Backlog /\ CanOpen(F) /\ Online # Users
      /\ conn' = [conn EXCEPT ![c] = "on"]
      /\ F' = [F EXCEPT ![fd] = Sock(c)]
      /\ afds' = afds \cup {fd}
      /\ slot' = [slot EXCEPT ![i] = c]
      /\ ufd' = [ufd EXCEPT ![i] = fd]
      /\ name' = [name EXCEPT ![i] = Anonymous]
      /\ ipset' = [ipset EXCEPT ![i] = TRUE]
      /\ vlist' = [vlist EXCEPT ![i] = <<>>]
      /\ nump' = [nump EXCEPT ![i] = NoPipes]
      /\ pc' \in Outcomes(Online, Loop(todo))
      /\ UNCHANGED <<line, upipe, misclose, todo, job>>
  BY DEF Accept, UserinInit
<1>2. i \in Users /\ slot[i] = NoClient
  BY <1>1, FreeEntryIsFree
<1>3. fd \in FD /\ F[fd] = Closed
  BY <1>1, NewFdIsFree DEF TypeOK, Table
<1>4. pc' \in PC \ {"wild", "accept", "run", "wait"}
  BY <1>1, OutcomesAre DEF Loop, PC
<1>5. conn[c] = "backlog"
  BY <1>1 DEF Backlog
<1> HIDE DEF i, fd
<1>6. TypeOK'
  <2>1. Sock(c) \in Obj
    BY DEF Sock, Obj
  <2>2. NoPipes \in [1 .. MaxNum -> NumEntry]
    BY DEF NoPipes, NoEntry, NumEntry, NoEnds, Ends
  <2>3. vlist' \in [Users -> Seq([var : Vars, val : Vals])]
    <3> DEFINE Lists == Seq([var : Vars, val : Vals])
    <3>1. <<>> \in Lists
      OBVIOUS
    <3>2. vlist \in [Users -> Lists] /\ vlist' = [vlist EXCEPT ![i] = <<>>]
      BY <1>1 DEF TypeOK
    <3> HIDE DEF Lists
    <3>3. vlist' \in [Users -> Lists]
      BY <3>1, <3>2
    <3>4. QED
      BY <3>3 DEF Lists
  <2>4. QED
    BY <1>1, <1>2, <1>3, <1>4, <2>1, <2>2, <2>3 DEF TypeOK, ConnState
<1>7. Online' = Online \cup {i}
  BY <1>1, <1>2, FdAssumption DEF TypeOK, Online
<1>8. \A j \in Online : /\ j # i /\ slot'[j] = slot[j] /\ ufd'[j] = ufd[j]
                        /\ ufd[j] \in FD /\ slot[j] \in Clients
                        /\ ufd[j] # fd /\ slot[j] # c
                        /\ F'[ufd[j]] = F[ufd[j]] /\ conn'[slot[j]] = conn[slot[j]]
  <2> SUFFICES ASSUME NEW j \in Online
               PROVE  /\ j # i /\ slot'[j] = slot[j] /\ ufd'[j] = ufd[j]
                      /\ ufd[j] \in FD /\ slot[j] \in Clients
                      /\ ufd[j] # fd /\ slot[j] # c
                      /\ F'[ufd[j]] = F[ufd[j]]
                      /\ conn'[slot[j]] = conn[slot[j]]
    OBVIOUS
  <2>1. j # i /\ slot'[j] = slot[j] /\ ufd'[j] = ufd[j]
    BY <1>1, <1>2 DEF TypeOK, Online
  <2>2. ufd[j] \in FD /\ slot[j] \in Clients
    BY DEF TypeOK, Online, Members, FdIdentifiesUser
  <2>3. ufd[j] # fd
    BY <1>1, <1>3 DEF Members, AfdsMatchUsers
  <2>4. slot[j] # c
    BY <1>5 DEF Members
  <2>5. QED
    BY <1>1, <2>1, <2>2, <2>3, <2>4 DEF TypeOK
<1>9. slot'[i] = c /\ ufd'[i] = fd /\ F'[fd] = Sock(c) /\ conn'[c] = "on"
  BY <1>1, <1>2, <1>3 DEF TypeOK
<1>10. Members'
  <2>1. todo' \subseteq afds' /\ pc' # "accept"
    BY <1>1, <1>4 DEF Members
  <2>2. \A j \in Users : slot'[j] = NoClient => ufd'[j] = Nil
    BY <1>1, <1>2, FdAssumption DEF Members, TypeOK
  <2>3. AfdsMatchUsers'
    <3>1. afds = {ufd[j] : j \in Online}
      BY <1>1 DEF Members, AfdsMatchUsers
    <3>2. {ufd'[j] : j \in Online'} = {ufd[j] : j \in Online} \cup {fd}
      BY <1>7, <1>8, <1>9
    <3>3. QED
      BY <1>1, <3>1, <3>2 DEF AfdsMatchUsers
  <2>4. FdIdentifiesUser'
    BY <1>3, <1>7, <1>8, <1>9 DEF Members, FdIdentifiesUser, FD, Nil
  <2>5. \A j \in Online' : F'[ufd'[j]].kind = "sock" => F'[ufd'[j]] = Sock(slot'[j])
    BY <1>7, <1>8, <1>9 DEF Members
  <2>6. /\ \A j \in Online' : conn'[slot'[j]] \in {"on", "eof"}
        /\ \A j, k \in Online' : slot'[j] = slot'[k] => j = k
    BY <1>7, <1>8, <1>9 DEF Members
  <2>7. QED
    BY <2>1, <2>2, <2>3, <2>4, <2>5, <2>6 DEF Members, Sock
<1>11. PipesBetweenOnline'
  BY <1>1, <1>7 DEF PipesBetweenOnline
<1>12. JobOnline'
  BY <1>4 DEF JobOnline
<1>13. QED
  BY <1>6, <1>10, <1>11, <1>12

(* An accept() without a free entry watches the descriptor all the same. *)
LEMMA AcceptOverflowsStep ==
  ASSUME IInv, NEW c \in Clients, AcceptOverflows(c)
  PROVE  IInv'
<1> USE DEF IInv
<1> DEFINE fd == NewFd(F)
<1>1. /\ pc = "accept" /\ pc' = "wild" /\ c \in Backlog /\ CanOpen(F)
      /\ conn' = [conn EXCEPT ![c] = "on"]
      /\ F' = [F EXCEPT ![fd] = Sock(c)] /\ afds' = afds \cup {fd}
      /\ UNCHANGED <<line, uvars, vlist, nump, upipe, misclose, todo, job>>
  BY DEF AcceptOverflows
<1>2. fd \in FD /\ F[fd] = Closed
  BY <1>1, NewFdIsFree DEF TypeOK, Table
<1> HIDE DEF fd
<1>3. TypeOK'
  <2>1. Sock(c) \in Obj
    BY DEF Sock, Obj
  <2>2. QED
    BY <1>1, <1>2, <2>1 DEF TypeOK, ConnState, PC, uvars
<1>4. Online' = Online
  BY <1>1 DEF Online, uvars
<1>5. \A j \in Online : /\ ufd[j] \in FD /\ slot[j] \in Clients
                        /\ F'[ufd[j]] = F[ufd[j]] /\ conn'[slot[j]] \in {"on", "eof"}
  <2> SUFFICES ASSUME NEW j \in Online
               PROVE  /\ ufd[j] \in FD /\ slot[j] \in Clients
                      /\ F'[ufd[j]] = F[ufd[j]] /\ conn'[slot[j]] \in {"on", "eof"}
    OBVIOUS
  <2>1. ufd[j] \in FD /\ slot[j] \in Clients
    BY DEF TypeOK, Online, Members, FdIdentifiesUser
  <2>2. ufd[j] # fd
    BY <1>1, <1>2 DEF Members, AfdsMatchUsers
  <2>3. QED
    BY <1>1, <2>1, <2>2 DEF TypeOK, Members
<1>6. Members'
  BY <1>1, <1>4, <1>5 DEF Members, AfdsMatchUsers, FdIdentifiesUser, uvars, Sock
<1>7. PipesBetweenOnline' /\ JobOnline'
  BY <1>1, <1>4 DEF PipesBetweenOnline, JobOnline
<1>8. QED
  BY <1>3, <1>6, <1>7

(***************************************************************************)
(* fd_to_index finds the user whose socket the line came from.             *)
(***************************************************************************)
LEMMA TakeLineFacts ==
  ASSUME IInv, NEW fd \in FD, NEW c \in Clients, TakeLine(fd, c)
  PROVE  /\ pc = "serve" /\ fd \in afds /\ F[fd] = Sock(c)
         /\ Index(fd) \in Online /\ ufd[Index(fd)] = fd /\ slot[Index(fd)] = c
         /\ line' \in [Clients -> {"none", "part", "full"}]
         /\ todo' = todo \ {fd} /\ todo' \subseteq FD /\ todo' \subseteq afds
<1> USE DEF IInv, Members
<1>1. /\ pc = "serve" /\ fd \in afds /\ F[fd] = Sock(c)
      /\ todo' = todo \ {fd} /\ line' = [line EXCEPT ![c] = "none"]
  BY DEF TakeLine, Turn
<1> DEFINE S == {i \in Users : ufd[i] = fd}
<1>2. S \in SUBSET Nat /\ S # {}
  BY <1>1, ServerAssumption DEF AfdsMatchUsers, Online, Users
<1>3. Index(fd) \in S
  BY <1>2, LowestIsLeast DEF Index
<1>4. Index(fd) \in Online
  BY <1>3 DEF Online, FD, Nil
<1>5. ufd[Index(fd)] = fd
  BY <1>3
<1>6. Sock(c).kind = "sock" /\ Sock(c).of = c
      /\ Sock(slot[Index(fd)]).of = slot[Index(fd)]
  BY DEF Sock
<1>7. F[fd] = Sock(slot[Index(fd)])
  BY <1>1, <1>4, <1>5, <1>6
<1>8. slot[Index(fd)] = c
  BY <1>1, <1>6, <1>7
<1>9. QED
  BY <1>1, <1>4, <1>5, <1>8 DEF TypeOK

(***************************************************************************)
(* "exit": the user, his descriptor and all pipes to and from him go at    *)
(* once, the others keep theirs.                                           *)
(***************************************************************************)
LEMMA LogoutStep ==
  ASSUME IInv, NEW fd \in FD, NEW c \in Clients, Logout(fd, c)
  PROVE  IInv'
<1> USE DEF IInv
<1> DEFINE i == Index(fd)
           P == Unreceived(i)
<1>1. TakeLine(fd, c)
  BY DEF Logout
<1>2. /\ F' = CloseAll(F, ClosedAtLogout(fd, P))
      /\ misclose' \in BOOLEAN
      /\ upipe' = [a \in Users |-> [b \in Users |->
                      IF <<a, b>> \in P THEN NoEnds ELSE upipe[a][b]]]
      /\ slot' = [slot EXCEPT ![i] = NoClient]
      /\ ufd' = [ufd EXCEPT ![i] = Nil]
      /\ name' = [name EXCEPT ![i] = Anonymous]
      /\ ipset' = [ipset EXCEPT ![i] = FALSE]
      /\ afds' = afds \ {fd}
      /\ conn' = [conn EXCEPT ![c] = "gone"]
      /\ UNCHANGED <<vlist, nump, job>>
  BY DEF Logout, Cleared
<1>3. pc' \in PC \ {"wild", "accept", "run", "wait"}
  BY OutcomesAre DEF Logout, Finish, Loop, PC
<1>4. /\ pc = "serve" /\ fd \in afds /\ F[fd] = Sock(c)
      /\ i \in Online /\ ufd[i] = fd /\ slot[i] = c
      /\ line' \in [Clients -> {"none", "part", "full"}]
      /\ todo' = todo \ {fd} /\ todo' \subseteq FD
  BY <1>1, TakeLineFacts
<1>5. /\ F' \in Table
      /\ \A f \in FD : F'[f].kind = "sock" => F'[f] = F[f]
  <2> DEFINE S == ClosedAtLogout(fd, P)
  <2>1. F \in Table /\ F' = CloseAll(F, S)
    BY <1>2 DEF TypeOK, Table
  <2> HIDE DEF S
  <2>2. QED
    BY <2>1, CloseAllTable
<1>6. \A a, b \in Users : /\ upipe'[a][b] # NoEnds => upipe'[a][b] = upipe[a][b]
                          /\ upipe'[a][b] # NoEnds => <<a, b>> \notin P
  BY <1>2 DEF TypeOK
<1>7. \A p \in Users \X Users :
         i \in {p[1], p[2]} /\ upipe[p[1]][p[2]].r # Nil => p \in P
  BY DEF Unreceived
<1>8. upipe' \in [Users -> [Users -> Ends]]
  <2>1. NoEnds \in Ends
    BY DEF NoEnds, Ends
  <2>2. QED
    BY <1>2, <2>1 DEF TypeOK
<1> HIDE DEF i, P
<1>9. i \in Users
  BY <1>4 DEF Online
<1>10. TypeOK'
  BY <1>2, <1>3, <1>4, <1>5, <1>8, <1>9 DEF TypeOK, Table, ConnState
<1>11. Online' = Online \ {i}
  BY <1>2, <1>4 DEF TypeOK, Online
<1>12. \A j \in Online' : /\ j \in Online /\ j # i
                          /\ slot'[j] = slot[j] /\ ufd'[j] = ufd[j]
                          /\ ufd[j] \in FD /\ slot[j] \in Clients
                          /\ ufd[j] # fd /\ slot[j] # c
                          /\ conn'[slot[j]] = conn[slot[j]]
  <2> SUFFICES ASSUME NEW j \in Online'
               PROVE  /\ j \in Online /\ j # i
                      /\ slot'[j] = slot[j] /\ ufd'[j] = ufd[j]
                      /\ ufd[j] \in FD /\ slot[j] \in Clients
                      /\ ufd[j] # fd /\ slot[j] # c
                      /\ conn'[slot[j]] = conn[slot[j]]
    OBVIOUS
  <2>1. j \in Online /\ j # i
    BY <1>11
  <2>2. ufd[j] \in FD /\ slot[j] \in Clients
    BY <2>1 DEF TypeOK, Online, Members, FdIdentifiesUser
  <2>3. ufd[j] # fd /\ slot[j] # c
    BY <1>4, <2>1 DEF Members, FdIdentifiesUser
  <2>4. QED
    BY <1>2, <2>1, <2>2, <2>3 DEF TypeOK, Online
<1>13. Members'
  <2>1. todo' \subseteq afds'
    BY <1>2, <1>4 DEF Members
  <2>2. \A j \in Users : slot'[j] = NoClient => ufd'[j] = Nil
    BY <1>2, <1>9 DEF Members, TypeOK
  <2>3. AfdsMatchUsers'
    <3>1. afds = {ufd[j] : j \in Online}
      BY <1>4 DEF Members, AfdsMatchUsers
    <3>2. {ufd'[j] : j \in Online'} = {ufd[j] : j \in Online} \ {fd}
      BY <1>4, <1>11, <1>12
    <3>3. QED
      BY <1>2, <3>1, <3>2 DEF AfdsMatchUsers
  <2>4. FdIdentifiesUser'
    BY <1>12 DEF Members, FdIdentifiesUser
  <2>5. \A j \in Online' : F'[ufd'[j]].kind = "sock" => F'[ufd'[j]] = Sock(slot'[j])
    BY <1>5, <1>12 DEF Members
  <2>6. /\ \A j \in Online' : conn'[slot'[j]] \in {"on", "eof"}
        /\ \A j, k \in Online' : slot'[j] = slot'[k] => j = k
    BY <1>12 DEF Members
  <2>7. QED
    BY <1>3, <2>1, <2>2, <2>3, <2>4, <2>5, <2>6 DEF Members, Sock
<1>14. PipesBetweenOnline'
  <2> SUFFICES ASSUME NEW a \in Users, NEW b \in Users, upipe'[a][b] # NoEnds
               PROVE  /\ a \in Online' /\ b \in Online'
                      /\ upipe'[a][b].r \in FD /\ upipe'[a][b].w \in FD
    BY DEF PipesBetweenOnline
  <2>1. upipe'[a][b] = upipe[a][b] /\ <<a, b>> \notin P
    BY <1>6
  <2>2. a \in Online /\ b \in Online /\ upipe[a][b].r \in FD /\ upipe[a][b].w \in FD
    BY <2>1 DEF PipesBetweenOnline
  <2>3. a # i /\ b # i
    BY <1>7, <2>1, <2>2 DEF FD, Nil
  <2>4. QED
    BY <1>11, <2>1, <2>2, <2>3
<1>15. JobOnline'
  BY <1>3 DEF JobOnline
<1>16. QED
  BY <1>10, <1>13, <1>14, <1>15

(* who, tell, yell, name, setenv, printenv, exit(0) and the empty line. *)
LEMMA BuiltinSteps ==
  ASSUME IInv, NEW fd \in FD, NEW c \in Clients,
         \/ BlankLine(fd, c) \/ Chat(fd, c) \/ ShellExit(fd, c)
         \/ \E n \in Names : Rename(fd, c, n)
         \/ \E v \in Vars, x \in Vals : Setenv(fd, c, v, x)
  PROVE  IInv'
<1> USE DEF IInv
<1>1. TakeLine(fd, c)
  BY DEF BlankLine, Chat, ShellExit, Rename, Setenv
<1>2. /\ pc = "serve" /\ Index(fd) \in Online
      /\ line' \in [Clients -> {"none", "part", "full"}]
      /\ todo' \subseteq FD /\ todo' \subseteq afds
  BY <1>1, TakeLineFacts
<1>3. UNCHANGED <<conn, slot, ufd, upipe, F, misclose, afds, job>>
  BY DEF BlankLine, Chat, ShellExit, Rename, Setenv, uvars, pvars
<1>4. pc' \in PC \ {"wild", "accept", "run", "wait"}
  BY OutcomesAre DEF BlankLine, Chat, ShellExit, Rename, Setenv, Finish, Loop, PC
<1>5. nump' \in [Users -> [1 .. MaxNum -> NumEntry]]
  <2>1. Index(fd) \in Users
    BY <1>2 DEF Online
  <2>2. Tick(nump[Index(fd)]) \in [1 .. MaxNum -> NumEntry]
    BY <2>1, ServerAssumption
    DEF Tick, TypeOK, NoEntry, NumEntry, NoEnds, Ends
  <2>3. CountCommand(Index(fd)) \/ UNCHANGED nump
    BY DEF BlankLine, Chat, ShellExit, Rename, Setenv, pvars
  <2>4. QED
    BY <2>1, <2>2, <2>3 DEF CountCommand, TypeOK
<1>6. /\ name' \in [Users -> Names \cup {Anonymous}]
      /\ ipset' \in [Users -> BOOLEAN]
  <2>1. CASE \E n \in Names : Rename(fd, c, n)
    <3>1. PICK n \in Names : Rename(fd, c, n)
      BY <2>1
    <3>2. \/ UNCHANGED <<name, ipset>>
          \/ /\ name' = [name EXCEPT ![Index(fd)] = n]
             /\ ipset' = [ipset EXCEPT ![Index(fd)] = @ /\ n \notin LongNames]
      BY <3>1 DEF Rename
    <3>3. CASE UNCHANGED <<name, ipset>>
      BY <3>3 DEF TypeOK
    <3>4. CASE /\ name' = [name EXCEPT ![Index(fd)] = n]
               /\ ipset' = [ipset EXCEPT ![Index(fd)] = @ /\ n \notin LongNames]
      <4>1. name' \in [Users -> Names \cup {Anonymous}]
        BY <3>4 DEF TypeOK
      <4>2. (ipset[Index(fd)] /\ n \notin LongNames) \in BOOLEAN
        OBVIOUS
      <4>3. ipset' \in [Users -> BOOLEAN]
        BY <3>4, <4>2, ZenonT(20) DEF TypeOK
      <4>4. QED
        BY <4>1, <4>3
    <3>5. QED
      BY <3>2, <3>3, <3>4
  <2>2. CASE UNCHANGED <<name, ipset>>
    BY <2>2 DEF TypeOK
  <2>3. QED
    BY <2>1, <2>2 DEF BlankLine, Chat, ShellExit, Setenv, uvars
<1>7. vlist' \in [Users -> Seq([var : Vars, val : Vals])]
  <2>1. CASE \E v \in Vars, x \in Vals : Setenv(fd, c, v, x)
    <3>1. PICK v \in Vars, x \in Vals : Setenv(fd, c, v, x)
      BY <2>1
    <3> DEFINE Pairs == [var : Vars, val : Vals]
               pair == [var |-> v, val |-> x]
    <3>2. Index(fd) \in Users /\ vlist \in [Users -> Seq(Pairs)] /\ pair \in Pairs
      BY <1>2 DEF Online, TypeOK
    <3>3. vlist' = [vlist EXCEPT ![Index(fd)] = Append(vlist[Index(fd)], pair)]
      BY <3>1 DEF Setenv
    <3> HIDE DEF Pairs, pair
    <3>4. vlist' \in [Users -> Seq(Pairs)]
      BY <3>2, <3>3
    <3>5. QED
      BY <3>4 DEF Pairs
  <2>2. CASE UNCHANGED vlist
    BY <2>2 DEF TypeOK
  <2>3. QED
    BY <2>1, <2>2 DEF BlankLine, Chat, ShellExit, Rename, uvars
<1>8. TypeOK'
  BY <1>2, <1>3, <1>4, <1>5, <1>6, <1>7 DEF TypeOK
<1>9. Members'
  BY <1>2, <1>3, <1>4, QuietMembers
<1>10. PipesBetweenOnline' /\ JobOnline'
  BY <1>3, <1>4, QuietPipes
<1>11. QED
  BY <1>8, <1>9, <1>10

(***************************************************************************)
(* npshell() up to its first fork(): its user pipe is between online       *)
(* users because both searches of user[] have found the other one.         *)
(***************************************************************************)
LEMMA ShellStep ==
  ASSUME IInv, NEW fd \in FD, NEW c \in Clients, NEW k \in Users,
         NEW cmd \in Commands[k], NEW seen \in BOOLEAN, Shell(fd, c, cmd, seen)
  PROVE  IInv'
<1> USE DEF IInv
<1> DEFINE i == Index(fd)
           badIn == /\ cmd.from # 0
                    /\ ~(cmd.from \in Online /\ upipe[cmd.from][i] # NoEnds)
           badOut == /\ cmd.to # 0
                     /\ ~(cmd.to \in Online /\ upipe[i][cmd.to].r = Nil)
           toUser == cmd.to # 0 /\ ~badOut
           F1 == IF toUser /\ CanPipe(F) THEN OpenPipe(F, slot[i], slot[cmd.to])
                 ELSE F
           left == Tick(nump[i])
           toNum == cmd.num # 0 /\ ~MadeFor(left, cmd.num)
           F2 == IF toNum /\ CanPipe(F1) THEN OpenPipe(F1, slot[i], NoClient)
                 ELSE F1
           due == IF seen THEN Due(nump[i]).ends ELSE NoEnds
           entry == [made |-> TRUE,
                     ends |-> IF CanPipe(F1) THEN NewEnds(F1) ELSE NoEnds]
<1>1. TakeLine(fd, c) /\ UNCHANGED <<conn, uvars, vlist, afds>>
  BY DEF Shell
<1>2. upipe' = IF toUser /\ CanPipe(F)
               THEN [upipe EXCEPT ![i][cmd.to] = NewEnds(F)] ELSE upipe
  BY DEF Shell
<1>3. nump' = [nump EXCEPT ![i] =
                 IF ~toNum THEN left ELSE [left EXCEPT ![cmd.num] = entry]]
  BY DEF Shell
<1>4. /\ F' = CloseAll(F2, {due.w})
      /\ misclose' = (misclose \/ Strays(F2, slot[i], NoClient, due, {due.w}) # {})
  BY DEF Shell
<1>5. job' = [NoJob EXCEPT !.me = i, !.cmd = cmd, !.badIn = badIn,
                           !.badOut = badOut, !.due = due]
  BY DEF Shell
<1>6. pc' \in {"run", "dead"}
  BY OutcomesAre DEF Shell
<1>7. /\ pc = "serve" /\ i \in Online
      /\ line' \in [Clients -> {"none", "part", "full"}]
      /\ todo' \subseteq FD /\ todo' \subseteq afds
  BY <1>1, TakeLineFacts
<1>8. cmd \in Cmd
  BY ServerAssumption
<1>9. F \in Table /\ i \in Users /\ slot[i] \in Clients
  BY <1>7 DEF TypeOK, Table, Online
<1>10. toUser => cmd.to \in Online /\ slot[cmd.to] \in Clients
  BY DEF TypeOK, Online
<1>11. badIn \in BOOLEAN /\ badOut \in BOOLEAN
  OBVIOUS
<1>12. cmd.from # 0 /\ ~badIn => cmd.from \in Online
  OBVIOUS
<1>13. due \in Ends
  <2>1. NoEnds \in Ends /\ NoEntry.ends \in Ends
    BY DEF NoEnds, Ends, NoEntry
  <2>2. nump[i] \in [1 .. MaxNum -> NumEntry]
    BY <1>9 DEF TypeOK
  <2>3. MaxNum # 0 => nump[i][1].ends \in Ends
    BY <2>2, ServerAssumption DEF NumEntry
  <2>4. QED
    BY <2>1, <2>3 DEF Due
<1>14. left \in [1 .. MaxNum -> NumEntry]
  <2>1. nump[i] \in [1 .. MaxNum -> NumEntry] /\ NoEntry \in NumEntry
    BY <1>9 DEF TypeOK, NoEntry, NumEntry, NoEnds, Ends
  <2>2. QED
    BY <2>1, ServerAssumption DEF Tick
<1> HIDE DEF i, badIn, badOut, left, due
<1>15. /\ F1 \in Table
       /\ \A f \in FD : F1[f].kind = "sock" => F1[f] = F[f]
  BY <1>9, <1>10, OpenPipeTable
<1> HIDE DEF F1
<1>16. /\ F2 \in Table
       /\ \A f \in FD : F2[f].kind = "sock" => F2[f] = F1[f]
  BY <1>9, <1>15, OpenPipeTable
<1> HIDE DEF F2
<1>17. /\ F' \in Table
       /\ \A f \in FD : F'[f].kind = "sock" => F'[f] = F[f]
  <2>1. /\ F' \in Table
        /\ \A f \in FD : F'[f].kind = "sock" => F'[f] = F2[f]
    BY <1>4, <1>16, CloseAllTable
  <2>2. QED
    BY <1>15, <1>16, <2>1
<1>18. nump' \in [Users -> [1 .. MaxNum -> NumEntry]]
  <2>1. CanPipe(F1) => NewEnds(F1) \in Ends
    BY <1>15, NewEndsAreFree
  <2>2. entry \in NumEntry
    BY <2>1 DEF NumEntry, NoEnds, Ends
  <2> HIDE DEF entry
  <2>3. [left EXCEPT ![cmd.num] = entry] \in [1 .. MaxNum -> NumEntry]
    BY <1>14, <2>2
  <2>4. QED
    BY <1>3, <1>9, <1>14, <2>3 DEF TypeOK
<1>19. CanPipe(F) => /\ NewEnds(F) \in Ends
                     /\ NewEnds(F).r \in FD /\ NewEnds(F).w \in FD
  BY <1>9, NewEndsAreFree
<1> HIDE DEF toUser, toNum, entry
<1>20. upipe' \in [Users -> [Users -> Ends]]
  BY <1>2, <1>9, <1>10, <1>19 DEF TypeOK, Online
<1>21. job' \in Job
  <2>1. NoJob.in \in Obj /\ NoJob.tmp \in Ends
    BY DEF NoJob, Closed, Obj, NoEnds, Ends
  <2>2. job' = [me |-> i, cmd |-> cmd, badIn |-> badIn, badOut |-> badOut,
                due |-> due, stage |-> 0, tmp |-> NoJob.tmp, in |-> NoJob.in,
                input |-> "ends"]
    BY <1>5 DEF NoJob
  <2>3. QED
    BY <1>8, <1>9, <1>11, <1>13, <2>1, <2>2 DEF Job
<1>22. TypeOK'
  <2>1. misclose' \in BOOLEAN
    BY <1>4 DEF TypeOK
  <2>2. QED
    BY <1>1, <1>6, <1>7, <1>17, <1>18, <1>20, <1>21, <2>1
    DEF TypeOK, Table, PC, uvars
<1>23. Members'
  BY <1>1, <1>6, <1>7, <1>17, QuietMembers DEF uvars
<1>24. Online' = Online
  BY <1>1 DEF Online, uvars
<1>25. PipesBetweenOnline'
  <2> SUFFICES ASSUME NEW a \in Users, NEW b \in Users, upipe'[a][b] # NoEnds
               PROVE  /\ a \in Online /\ b \in Online
                      /\ upipe'[a][b].r \in FD /\ upipe'[a][b].w \in FD
    BY <1>24 DEF PipesBetweenOnline
  <2>1. CASE upipe'[a][b] = upipe[a][b]
    BY <2>1 DEF PipesBetweenOnline
  <2>2. CASE toUser /\ CanPipe(F) /\ a = i /\ b = cmd.to
    <3>1. upipe'[a][b] = NewEnds(F)
      BY <1>2, <1>9, <2>2 DEF TypeOK
    <3>2. QED
      BY <1>7, <1>10, <1>19, <2>2, <3>1
  <2>3. QED
    BY <1>2, <1>9, <2>1, <2>2 DEF TypeOK
<1>26. JobOnline'
  BY <1>5, <1>7, <1>12, <1>24 DEF JobOnline, NoJob
<1>27. QED
  BY <1>22, <1>23, <1>25, <1>26

(***************************************************************************)
(* The steps of a running command move no user and no socket: they may     *)
(* clear a user pipe, and either go on for the same user or leave npshell. *)
(***************************************************************************)
LEMMA RunFrame ==
  ASSUME IInv, pc \in {"run", "wait"},
         UNCHANGED <<conn, uvars, vlist, nump, afds, todo>>,
         line' \in [Clients -> {"none", "part", "full"}],
         F' \in Table, \A f \in FD : F'[f].kind = "sock" => F'[f] = F[f],
         misclose' \in BOOLEAN,
         \/ upipe' = upipe
         \/ \E a, b \in Users : upipe' = [upipe EXCEPT ![a][b] = NoEnds],
         job' \in Job, pc' \in PC \ {"accept"},
         pc' \in {"run", "wait"} =>
            job'.me = job.me /\ job'.cmd = job.cmd /\ job'.badIn = job.badIn
  PROVE  IInv'
<1> USE DEF IInv
<1>1. /\ upipe' \in [Users -> [Users -> Ends]]
      /\ \A a, b \in Users : upipe'[a][b] # NoEnds => upipe'[a][b] = upipe[a][b]
  <2>1. upipe \in [Users -> [Users -> Ends]] /\ NoEnds \in Ends
    BY DEF TypeOK, NoEnds, Ends
  <2>2. ASSUME NEW x \in Users, NEW y \in Users,
               upipe' = [upipe EXCEPT ![x][y] = NoEnds]
        PROVE  /\ upipe' \in [Users -> [Users -> Ends]]
               /\ \A a, b \in Users :
                     upipe'[a][b] # NoEnds => upipe'[a][b] = upipe[a][b]
    BY <2>1, <2>2
  <2>3. QED
    BY <2>1, <2>2
<1>2. TypeOK'
  BY <1>1 DEF TypeOK, Table, uvars
<1>3. Members'
  BY QuietMembers DEF uvars, Members
<1>4. Online' = Online
  BY DEF Online, uvars
<1>5. PipesBetweenOnline'
  BY <1>1, <1>4 DEF PipesBetweenOnline
<1>6. JobOnline'
  BY <1>4 DEF JobOnline
<1>7. QED
  BY <1>2, <1>3, <1>5, <1>6

(* Reading from the client's socket, and starting a single program. *)
LEMMA ForkStep ==
  ASSUME IInv, Fork \/ SwallowLine
  PROVE  IInv'
<1> USE DEF IInv
<1>1. F \in Table /\ job \in Job
  BY DEF TypeOK, Table
<1>2. CASE Fork
  <2> DEFINE in == IF job.badIn THEN Closed ELSE Stdin(InEnds.r, job.due.r)
  <2>1. in \in Obj
    BY <1>1 DEF Stdin, Closed, Obj, Table
  <2>2. InputOf(in) \in {"ends", "held", "socket"}
    BY DEF InputOf
  <2>3. job' = [job EXCEPT !.stage = 1, !.in = in, !.input = InputOf(in)]
    BY <1>2 DEF Fork
  <2> HIDE DEF in
  <2>4. /\ job' \in Job /\ job'.me = job.me /\ job'.cmd = job.cmd
        /\ job'.badIn = job.badIn
    BY <1>1, <2>1, <2>2, <2>3 DEF Job
  <2>5. /\ pc = "run" /\ pc' = "wait"
        /\ UNCHANGED <<cvars, uvars, vlist, pvars, afds, todo>>
    BY <1>2 DEF Fork
  <2>6. QED
    BY <1>1, <2>4, <2>5, RunFrame DEF TypeOK, PC, cvars, pvars
<1>3. CASE SwallowLine
  <2>1. /\ pc = "wait" /\ UNCHANGED <<conn, uvars, vlist, pvars, lvars>>
        /\ line' \in [Clients -> {"none", "part", "full"}]
    BY <1>3 DEF SwallowLine, TypeOK
  <2>2. QED
    BY <1>1, <2>1, RunFrame DEF PC, TypeOK, pvars, lvars
<1>4. QED
  BY <1>2, <1>3

(* The end of a single program, and of a pipeline. *)
LEMMA ReapStep ==
  ASSUME IInv, Reap \/ ReapPipeline
  PROVE  IInv'
<1> USE DEF IInv
<1>1. F \in Table /\ NoJob \in Job
  BY ServerAssumption
  DEF TypeOK, Table, NoJob, Job, NoCmd, Cmd, NoEnds, Ends, Closed, Obj
<1>2. pc' \in PC \ {"wild", "accept", "run", "wait"}
  BY OutcomesAre DEF Reap, ReapPipeline, Loop, PC
<1>3. CASE Reap
  <2> DEFINE i == job.me
             from == job.cmd.from
             to == job.cmd.to
             outW == IF ClosesOut(i, to) THEN upipe[i][to].w ELSE Nil
             inR == IF from \in Users THEN upipe[from][i].r ELSE Nil
             S == {job.due.r, outW, inR}
  <2>1. F' = CloseAll(F, S) /\ misclose' \in BOOLEAN
    BY <1>3 DEF Reap, TypeOK
  <2>2. upipe' = IF from \in Users THEN [upipe EXCEPT ![from][i] = NoEnds]
                 ELSE upipe
    BY <1>3 DEF Reap
  <2>3. pc = "wait" /\ job' = NoJob /\ UNCHANGED <<cvars, uvars, vlist, nump, afds, todo>>
    BY <1>3 DEF Reap, CanReap
  <2>4. i \in Users
    BY <2>3 DEF JobOnline, Online
  <2> HIDE DEF S
  <2>5. F' \in Table /\ \A f \in FD : F'[f].kind = "sock" => F'[f] = F[f]
    BY <1>1, <2>1, CloseAllTable
  <2> HIDE DEF i, from
  <2>6. \/ upipe' = upipe
        \/ \E a, b \in Users : upipe' = [upipe EXCEPT ![a][b] = NoEnds]
    BY <2>2, <2>4
  <2>7. QED
    BY <1>1, <1>2, <2>1, <2>3, <2>5, <2>6, RunFrame DEF TypeOK, cvars
<1>4. CASE ReapPipeline
  <2>1. pc = "wait" /\ job' = NoJob /\ UNCHANGED <<cvars, uvars, vlist, pvars, afds, todo>>
    BY <1>4 DEF ReapPipeline, CanReap
  <2>2. QED
    BY <1>1, <1>2, <2>1, RunFrame DEF TypeOK, cvars, pvars
<1>5. QED
  BY <1>3, <1>4

(* The rounds of a pipeline: each opens a pipe and closes what its          *)
(* neighbours no longer need.                                               *)
LEMMA StageStep ==
  ASSUME IInv, FirstStage \/ MiddleStage \/ LastStage \/ StageFails
  PROVE  IInv'
<1> USE DEF IInv
<1> DEFINE G == OpenPipe(F, slot[job.me], NoClient)
           tmp == NewEnds(F)
<1>1. F \in Table /\ job \in Job
  BY DEF TypeOK, Table
<1>2. pc = "run" /\ job.me \in Users /\ slot[job.me] \in Clients
  BY DEF FirstStage, MiddleStage, LastStage, StageFails, JobOnline, Online, TypeOK
<1>3. CanPipe(F) =>
        G \in Table /\ \A f \in FD : G[f].kind = "sock" => G[f] = F[f]
  BY <1>1, <1>2, OpenPipeTable
<1>4. CanPipe(F) => tmp \in Ends
  BY <1>1, NewEndsAreFree
<1>5. ASSUME NEW S, CanPipe(F), F' = CloseAll(G, S)
      PROVE  F' \in Table /\ \A f \in FD : F'[f].kind = "sock" => F'[f] = F[f]
  <2> HIDE DEF G
  <2>1. F' \in Table /\ \A f \in FD : F'[f].kind = "sock" => F'[f] = G[f]
    BY <1>3, <1>5, CloseAllTable
  <2>2. QED
    BY <1>3, <1>5, <2>1
<1>6. NoEnds \in Ends /\ job.stage + 1 \in Nat
  BY <1>1 DEF NoEnds, Ends, Job
<1>7. CASE FirstStage
  <2> DEFINE from == job.cmd.from
             in == Stdin(job.due.r, InEnds.r)
             S == {tmp.w, InEnds.r, job.due.r}
  <2>1. CanPipe(F) /\ F' = CloseAll(G, S) /\ misclose' \in BOOLEAN
    BY <1>7 DEF FirstStage, TypeOK
  <2>2. /\ upipe' = IF InEnds # NoEnds THEN [upipe EXCEPT ![from][job.me] = NoEnds]
                    ELSE upipe
        /\ job' = [job EXCEPT !.stage = 1, !.tmp = tmp, !.in = in,
                              !.input = InputOf(in)]
        /\ UNCHANGED <<cvars, uvars, vlist, nump, afds, todo, pc>>
    BY <1>7 DEF FirstStage
  <2>3. in \in Obj
    BY <1>1 DEF Stdin, Closed, Obj, Table
  <2>4. InputOf(in) \in {"ends", "held", "socket"}
    BY DEF InputOf
  <2>5. InEnds # NoEnds => from \in Users
    BY <1>2 DEF InEnds, JobOnline, Online
  <2> HIDE DEF S, in, from, tmp
  <2>6. F' \in Table /\ \A f \in FD : F'[f].kind = "sock" => F'[f] = F[f]
    BY <1>5, <2>1
  <2>7. /\ job' \in Job /\ job'.me = job.me /\ job'.cmd = job.cmd
        /\ job'.badIn = job.badIn
    BY <1>1, <1>4, <2>1, <2>2, <2>3, <2>4 DEF Job
  <2>8. \/ upipe' = upipe
        \/ \E a, b \in Users : upipe' = [upipe EXCEPT ![a][b] = NoEnds]
    BY <1>2, <2>2, <2>5
  <2>9. QED
    BY <1>2, <2>1, <2>2, <2>6, <2>7, <2>8, RunFrame DEF TypeOK, PC, cvars
<1>8. CASE MiddleStage
  <2> DEFINE S == {job.tmp.r, NewEnds(F).w}
  <2>1. /\ CanPipe(F) /\ F' = CloseAll(G, S)
        /\ job' = [job EXCEPT !.stage = job.stage + 1, !.tmp = tmp]
        /\ UNCHANGED <<cvars, uvars, vlist, nump, upipe, misclose, afds, todo, pc>>
    BY <1>8 DEF MiddleStage, NextStage
  <2> HIDE DEF S, tmp
  <2>2. F' \in Table /\ \A f \in FD : F'[f].kind = "sock" => F'[f] = F[f]
    BY <1>5, <2>1
  <2>3. /\ job' \in Job /\ job'.me = job.me /\ job'.cmd = job.cmd
        /\ job'.badIn = job.badIn
    BY <1>1, <1>4, <1>6, <2>1 DEF Job
  <2>4. QED
    BY <1>2, <2>1, <2>2, <2>3, RunFrame DEF TypeOK, PC, cvars
<1>9. CASE LastStage
  <2> DEFINE S == {job.tmp.r, IF job.cmd.to \in Users
                              THEN upipe[job.me][job.cmd.to].w ELSE Nil}
  <2>1. CanPipe(F) /\ F' = CloseAll(G, S) /\ misclose' \in BOOLEAN
    BY <1>9 DEF LastStage, TypeOK
  <2>2. /\ job' = [job EXCEPT !.stage = job.stage + 1, !.tmp = NoEnds]
        /\ pc' = "wait"
        /\ UNCHANGED <<cvars, uvars, vlist, nump, upipe, afds, todo>>
    BY <1>9 DEF LastStage, NextStage
  <2> HIDE DEF S
  <2>3. F' \in Table /\ \A f \in FD : F'[f].kind = "sock" => F'[f] = F[f]
    BY <1>5, <2>1
  <2>4. /\ job' \in Job /\ job'.me = job.me /\ job'.cmd = job.cmd
        /\ job'.badIn = job.badIn
    BY <1>1, <1>6, <2>2 DEF Job
  <2>5. QED
    BY <1>2, <2>1, <2>2, <2>3, <2>4, RunFrame DEF TypeOK, PC, cvars
<1>10. CASE StageFails
  <2>1. pc' = "wild" /\ UNCHANGED <<cvars, uvars, vlist, pvars, afds, todo, job>>
    BY <1>10 DEF StageFails
  <2>2. QED
    BY <1>1, <1>2, <2>1, RunFrame DEF TypeOK, PC, cvars, pvars
<1>11. QED
  BY <1>7, <1>8, <1>9, <1>10

(***************************************************************************)
(* IInv is inductive.                                                      *)
(***************************************************************************)
LEMMA NextInvariant == IInv /\ [Next]_vars => IInv'
<1> SUFFICES ASSUME IInv, [Next]_vars PROVE IInv'
  OBVIOUS
<1>1. CASE UNCHANGED vars
  <2>1. /\ UNCHANGED <<conn, line, slot, ufd, name, ipset, vlist, nump, upipe>>
        /\ UNCHANGED <<F, misclose, afds, todo, pc, job>>
    BY <1>1 DEF vars, cvars, uvars, pvars, lvars
  <2>2. TypeOK' /\ Online' = Online
    BY <2>1 DEF IInv, TypeOK, Online
  <2>3. Members'
    BY <2>1, <2>2 DEF IInv, Members, AfdsMatchUsers, FdIdentifiesUser
  <2>4. PipesBetweenOnline' /\ JobOnline'
    BY <2>1, <2>2 DEF IInv, PipesBetweenOnline, JobOnline
  <2>5. QED
    BY <2>2, <2>3, <2>4 DEF IInv
<1>2. ASSUME NEW c \in Clients, Client(c)
      PROVE  IInv'
  BY <1>2, ClientSteps
<1>3. CASE \/ SelectFails \/ Select \/ AcceptFails
           \/ \E fd \in FD : ReadNothing(fd) \/ ReadPipe(fd)
  BY <1>3, LoopSteps
<1>4. ASSUME NEW c \in Clients, Accept(c) \/ AcceptOverflows(c)
      PROVE  IInv'
  BY <1>4, AcceptStep, AcceptOverflowsStep
<1>5. ASSUME NEW fd \in FD, NEW c \in Clients, ServeLine(fd, c)
      PROVE  IInv'
  <2>1. CASE Logout(fd, c)
    BY <2>1, LogoutStep
  <2>2. CASE \/ BlankLine(fd, c) \/ Chat(fd, c) \/ ShellExit(fd, c)
             \/ \E n \in Names : Rename(fd, c, n)
             \/ \E v \in Vars, x \in Vals : Setenv(fd, c, v, x)
    BY <2>2, BuiltinSteps
  <2>3. ASSUME NEW k \in Users, NEW cmd \in Commands[k], NEW seen \in BOOLEAN,
               Shell(fd, c, cmd, seen)
        PROVE  IInv'
    BY <2>3, ShellStep
  <2>4. QED
    BY <1>5, <2>1, <2>2, <2>3 DEF ServeLine
<1>6. CASE RunCommand
  BY <1>6, ForkStep, ReapStep, StageStep DEF RunCommand
<1>7. QED
  BY <1>1, <1>2, <1>3, <1>4, <1>5, <1>6 DEF Next, Server, Terminated

-----------------------------------------------------------------------------
(* IInv holds in every state of every behaviour of the server. *)
THEOREM Invariant == Spec => []IInv
BY InitInvariant, NextInvariant, PTL DEF Spec

(* Every variable keeps its type: no id, descriptor or counter leaves its  *)
(* range, and npshell's locals are set when they are used.                 *)
THEOREM TypeCorrect == Spec => []TypeOK
<1>1. IInv => TypeOK
  BY DEF IInv
<1>2. QED
  BY <1>1, Invariant, PTL

(***************************************************************************)
(* Two users never have the same descriptor, whatever is closed by mistake *)
(* (the user[] table of np_single_proc.cpp, read by fd_to_index).          *)
(***************************************************************************)
THEOREM DescriptorsDistinct == Spec => []FdIdentifiesUser
<1>1. IInv => FdIdentifiesUser
  BY DEF IInv, Members
<1>2. QED
  BY <1>1, Invariant, PTL

(***************************************************************************)
(* main() watches the descriptors of the users in user[], no more and no   *)
(* less, until the table overflows or the server loses its descriptors.    *)
(***************************************************************************)
THEOREM ActiveDescriptors == Spec => []AfdsMatchUsers
<1>1. IInv => AfdsMatchUsers
  BY DEF IInv, Members
<1>2. QED
  BY <1>1, Invariant, PTL
=============================================================================
