------------------------- MODULE NpServerRefinement -------------------------
(***************************************************************************)
(* NpServer implements ChatRoom, for every number of users, clients and    *)
(* descriptors and every set of commands; and the names stay unique.       *)
(***************************************************************************)
EXTENDS NpServerProofs

\* What the refinement mapping leaves alone.
View == <<slot, name, Pending, Environment>>

(* A step that touches neither users, names, user pipes nor variables      *)
(* stutters in the chat room.                                              *)
LEMMA QuietStutter ==
  ASSUME UNCHANGED <<slot, name, upipe, vlist>>
  PROVE  UNCHANGED View
<1>1. Pending' = Pending
  BY DEF Pending
<1>2. Environment' = Environment
  BY DEF Environment
<1>3. QED
  BY <1>1, <1>2 DEF View

(* A step that leaves the lists of variables alone leaves the environment. *)
LEMMA QuietEnvironment ==
  ASSUME UNCHANGED vlist
  PROVE  UNCHANGED Environment
BY DEF Environment

(* A nonempty set of indexes has a greatest one.                           *)
LEMMA HighestExists ==
  ASSUME NEW n \in Nat, NEW S \in SUBSET (1 .. n), S # {}
  PROVE  \E k \in S : \A m \in S : m <= k
<1> DEFINE D == {n - k : k \in S}
<1>1. D \in SUBSET Nat /\ D # {}
  <2>1. \A k \in S : n - k \in Nat
    OBVIOUS
  <2>2. QED
    BY <2>1
<1>2. Lowest(D) \in D /\ \A d \in D : Lowest(D) <= d
  BY <1>1, LowestIsLeast
<1>3. PICK k \in S : Lowest(D) = n - k
  BY <1>2
<1>4. \A m \in S : n - k <= n - m
  BY <1>2, <1>3
<1>5. QED
  BY <1>4

(* A variable nobody set has the server's own value.                       *)
LEMMA GetenvEmpty ==
  ASSUME NEW v
  PROVE  Getenv(<<>>, v) = Unset
BY DEF Getenv, Mentions

(* setenv always appends, and the last pair of a variable wins: for the    *)
(* user it is as if the variable had been set.                             *)
LEMMA GetenvAppend ==
  ASSUME NEW R, NEW s \in Seq(R), NEW p \in R, NEW u
  PROVE  Getenv(Append(s, p), u) = IF u = p.var THEN p.val ELSE Getenv(s, u)
<1> DEFINE t == Append(s, p)
           N == Len(s)
           M == Mentions(t, u)
<1>1. /\ N \in Nat /\ DOMAIN s = 1 .. N /\ DOMAIN t = 1 .. N + 1
      /\ t[N + 1] = p /\ \A k \in 1 .. N : t[k] = s[k]
  OBVIOUS
<1> HIDE DEF t, N
<1>2. CASE u = p.var
  <2>1. M \in SUBSET (1 .. N + 1) /\ N + 1 \in M
    BY <1>1, <1>2 DEF Mentions
  <2> HIDE DEF M
  <2>2. \A k \in M : k <= N + 1
    BY <1>1, <2>1
  <2>3. \A k \in M : (\A m \in M : m <= k) => k = N + 1
    BY <1>1, <2>1
  <2>4. (CHOOSE k \in M : \A m \in M : m <= k) = N + 1
    BY <2>1, <2>2, <2>3
  <2>5. Getenv(t, u) = t[N + 1].val
    BY <2>1, <2>4 DEF Getenv, LastMention, M
  <2>6. QED
    BY <1>1, <1>2, <2>5 DEF t
<1>3. CASE u # p.var
  <2>1. M = Mentions(s, u) /\ M \in SUBSET (1 .. N)
    BY <1>1, <1>3 DEF Mentions
  <2>2. LastMention(t, u) = LastMention(s, u)
    BY <2>1 DEF LastMention
  <2>3. M # {} => LastMention(s, u) \in 1 .. N
    BY <1>1, <2>1, HighestExists DEF LastMention
  <2>4. QED
    BY <1>1, <1>3, <2>1, <2>2, <2>3 DEF Getenv, t
<1>4. QED
  BY <1>2, <1>3

(* With nobody in the server, the room is empty.                           *)
LEMMA InitRefines == Init => Room!Init
<1> SUFFICES ASSUME Init PROVE Room!Init
  OBVIOUS
<1>1. Pending = {}
  BY DEF Init, Pending
<1>2. \A i \in Users, v \in Vars : Getenv(vlist[i], v) = Unset
  BY GetenvEmpty DEF Init
<1>3. Environment = [i \in Users |-> [v \in Vars |-> Unset]]
  BY <1>2 DEF Environment
<1>4. QED
  BY <1>1, <1>3 DEF Init, Room!Init, Room!Ids, Room!FreshEnv, Users

(***************************************************************************)
(* accept() lets the client in once, under the smallest free id and with   *)
(* nothing of whoever had it before.                                       *)
(***************************************************************************)
LEMMA AcceptRefines ==
  ASSUME IInv, NEW c \in Clients, Accept(c)
  PROVE  Room!Join(c)
<1> USE DEF IInv
<1> DEFINE i == FreeEntry
<1>1. /\ c \in Backlog /\ Online # Users
      /\ slot' = [slot EXCEPT ![i] = c]
      /\ name' = [name EXCEPT ![i] = Anonymous]
      /\ vlist' = [vlist EXCEPT ![i] = <<>>]
      /\ UNCHANGED upipe
  BY DEF Accept
<1>2. /\ i \in Users /\ slot[i] = NoClient
      /\ \A j \in Users : slot[j] = NoClient => i <= j
  BY <1>1, FreeEntryIsFree
<1>3. \A j \in Users : slot[j] # c
  BY <1>1, FdAssumption DEF Backlog, Members, Online
<1>4. Pending' = Pending
  BY <1>1 DEF Pending
<1> HIDE DEF i
<1>5. Environment' = [Environment EXCEPT ![i] = [v \in Vars |-> Unset]]
  <2>1. vlist'[i] = <<>> /\ \A j \in Users \ {i} : vlist'[j] = vlist[j]
    BY <1>1, <1>2 DEF TypeOK
  <2>2. \A v \in Vars : Getenv(vlist'[i], v) = Unset
    BY <2>1, GetenvEmpty
  <2>3. QED
    BY <1>2, <2>1, <2>2 DEF Environment
<1>6. QED
  BY <1>1, <1>2, <1>3, <1>4, <1>5
  DEF Room!Join, Room!Ids, Room!Present, Room!FreshEnv, Users

(* remove_remain_fifo() drops the pipes to and from the user, no others.   *)
LEMMA LogoutRefines ==
  ASSUME IInv, NEW fd \in FD, NEW c \in Clients, Logout(fd, c)
  PROVE  Room!Leave(Index(fd))
<1> USE DEF IInv
<1> DEFINE i == Index(fd)
           P == Unreceived(i)
<1>1. /\ TakeLine(fd, c) /\ UNCHANGED vlist
      /\ upipe' = [a \in Users |-> [b \in Users |->
                      IF <<a, b>> \in P THEN NoEnds ELSE upipe[a][b]]]
      /\ slot' = [slot EXCEPT ![i] = NoClient]
      /\ name' = [name EXCEPT ![i] = Anonymous]
  BY DEF Logout
<1>2. i \in Online /\ i \in Users
  BY <1>1, TakeLineFacts DEF Online
<1>3. Pending' = {p \in Pending : p[1] # i /\ p[2] # i}
  <2>1. \A a, b \in Users : <<a, b>> \in P <=> i \in {a, b} /\ upipe[a][b].r # Nil
    BY DEF Unreceived
  <2>2. \A a, b \in Users : upipe[a][b] # NoEnds => upipe[a][b].r # Nil
    BY DEF PipesBetweenOnline, FD, Nil
  <2> HIDE DEF P, i
  <2>3. \A a, b \in Users : upipe'[a][b] # NoEnds <=>
             upipe[a][b] # NoEnds /\ a # i /\ b # i
    BY <1>1, <2>1, <2>2 DEF NoEnds
  <2>4. QED
    BY <2>3 DEF Pending
<1>4. QED
  BY <1>1, <1>2, <1>3, QuietEnvironment
  DEF Room!Leave, Room!Present, Room!Ids, Online, Users

(***************************************************************************)
(* rename() compares with the names on other descriptors, which are the    *)
(* other users' because no two users share one.                            *)
(***************************************************************************)
LEMMA RenameRefines ==
  ASSUME IInv, NEW fd \in FD, NEW c \in Clients, NEW n \in Names, Rename(fd, c, n)
  PROVE  Room!Rename(Index(fd), n) \/ UNCHANGED View
<1> USE DEF IInv
<1>1. TakeLine(fd, c) /\ UNCHANGED <<slot, upipe, vlist>>
  BY DEF Rename
<1>2. Index(fd) \in Online /\ ufd[Index(fd)] = fd
  BY <1>1, TakeLineFacts
<1>3. CASE Taken(fd, n)
  BY <1>1, <1>3, QuietStutter DEF Rename
<1>4. CASE ~Taken(fd, n)
  <2>1. name' = [name EXCEPT ![Index(fd)] = n]
    BY <1>4 DEF Rename
  <2>2. \A j \in Online \ {Index(fd)} : name[j] # n
    BY <1>2, <1>4 DEF Taken, Members, FdIdentifiesUser
  <2>3. Pending' = Pending
    BY <1>1 DEF Pending
  <2>4. QED
    BY <1>1, <1>2, <2>1, <2>2, <2>3, QuietEnvironment
    DEF Room!Rename, Room!Present, Room!Ids, Online, Users
<1>5. QED
  BY <1>3, <1>4

(* For the user, to append to the list is to set the variable.             *)
LEMMA SetenvRefines ==
  ASSUME IInv, NEW fd \in FD, NEW c \in Clients, NEW v \in Vars, NEW x \in Vals,
         Setenv(fd, c, v, x)
  PROVE  Room!SetVar(Index(fd), v, x)
<1> USE DEF IInv
<1> DEFINE i == Index(fd)
           Pairs == [var : Vars, val : Vals]
           pair == [var |-> v, val |-> x]
<1>1. /\ TakeLine(fd, c) /\ UNCHANGED <<slot, name, upipe>>
      /\ vlist' = [vlist EXCEPT ![i] = Append(vlist[i], pair)]
  BY DEF Setenv, uvars
<1>2. i \in Online /\ i \in Users
  BY <1>1, TakeLineFacts DEF Online
<1>3. /\ vlist \in [Users -> Seq(Pairs)] /\ pair \in Pairs
      /\ pair.var = v /\ pair.val = x
  BY DEF TypeOK
<1> HIDE DEF i, Pairs, pair
<1>4. /\ vlist'[i] = Append(vlist[i], pair) /\ vlist[i] \in Seq(Pairs)
      /\ \A j \in Users \ {i} : vlist'[j] = vlist[j]
  BY <1>1, <1>2, <1>3
<1>5. \A u \in Vars : Getenv(vlist'[i], u) = IF u = v THEN x ELSE Getenv(vlist[i], u)
  BY <1>3, <1>4, GetenvAppend
<1>6. Environment' = [Environment EXCEPT ![i][v] = x]
  BY <1>2, <1>4, <1>5 DEF Environment
<1>7. Pending' = Pending
  BY <1>1 DEF Pending
<1>8. QED
  BY <1>1, <1>2, <1>6, <1>7
  DEF Room!SetVar, Room!Present, Room!Ids, Online, Users, i

(***************************************************************************)
(* npshell() makes a user pipe only to an online user to whom none waits.  *)
(***************************************************************************)
LEMMA ShellRefines ==
  ASSUME IInv, NEW fd \in FD, NEW c \in Clients, NEW k \in Users,
         NEW cmd \in Commands[k], NEW seen \in BOOLEAN, Shell(fd, c, cmd, seen)
  PROVE  Room!Pipe(Index(fd), cmd.to) \/ UNCHANGED View
<1> USE DEF IInv
<1> DEFINE i == Index(fd)
           badOut == /\ cmd.to # 0
                     /\ ~(cmd.to \in Online /\ upipe[i][cmd.to].r = Nil)
           toUser == cmd.to # 0 /\ ~badOut
<1>1. /\ TakeLine(fd, c) /\ UNCHANGED <<slot, name, vlist>>
      /\ upipe' = IF toUser /\ CanPipe(F)
                  THEN [upipe EXCEPT ![i][cmd.to] = NewEnds(F)] ELSE upipe
  BY DEF Shell, uvars
<1>2. i \in Online /\ i \in Users
  BY <1>1, TakeLineFacts DEF Online
<1>3. CASE ~(toUser /\ CanPipe(F))
  BY <1>1, <1>3, QuietStutter
<1>4. CASE toUser /\ CanPipe(F)
  <2>1. /\ upipe' = [upipe EXCEPT ![i][cmd.to] = NewEnds(F)]
        /\ cmd.to \in Online /\ upipe[i][cmd.to].r = Nil
    BY <1>1, <1>4
  <2>2. cmd.to \in Users
    BY <2>1 DEF Online
  <2>3. upipe[i][cmd.to] = NoEnds
    BY <1>2, <2>1, <2>2 DEF PipesBetweenOnline, FD, Nil
  <2>4. NewEnds(F) # NoEnds
    <3>1. F \in Table
      BY DEF TypeOK, Table
    <3>2. NewEnds(F).w \in FD
      BY <1>4, <3>1, NewEndsAreFree
    <3>3. QED
      BY <3>2 DEF NoEnds, FD, Nil
  <2> HIDE DEF i
  <2>5. \A a, b \in Users : upipe'[a][b] # NoEnds <=>
             upipe[a][b] # NoEnds \/ (a = i /\ b = cmd.to)
    BY <1>2, <2>1, <2>2, <2>4 DEF TypeOK
  <2>6. Pending' = Pending \cup {<<i, cmd.to>>}
    BY <1>2, <2>2, <2>5 DEF Pending
  <2>7. <<i, cmd.to>> \notin Pending
    BY <2>3 DEF Pending
  <2>8. QED
    BY <1>1, <1>2, <2>1, <2>2, <2>6, <2>7, QuietEnvironment
    DEF Room!Pipe, Room!Present, Room!Ids, Online, Users, i
<1>5. QED
  BY <1>3, <1>4

(* A command that has started, or ended, has received its user pipe.       *)
LEMMA ClearedRefines ==
  ASSUME IInv, NEW a \in Users, NEW b \in Users,
         upipe' = [upipe EXCEPT ![a][b] = NoEnds], UNCHANGED <<slot, name, vlist>>
  PROVE  Room!Receive(a, b) \/ UNCHANGED View
<1>1. upipe \in [Users -> [Users -> Ends]]
  BY DEF IInv, TypeOK
<1>2. CASE upipe[a][b] = NoEnds
  <2>1. upipe' = upipe
    BY <1>1, <1>2
  <2>2. QED
    BY <2>1, QuietStutter
<1>3. CASE upipe[a][b] # NoEnds
  <2>1. \A x, y \in Users : upipe'[x][y] # NoEnds <=>
             upipe[x][y] # NoEnds /\ ~(x = a /\ y = b)
    BY <1>1
  <2>2. Pending' = Pending \ {<<a, b>>}
    BY <2>1 DEF Pending
  <2>3. <<a, b>> \in Pending
    BY <1>3 DEF Pending
  <2>4. QED
    BY <2>2, <2>3, QuietEnvironment DEF Room!Receive
<1>4. QED
  BY <1>2, <1>3

(* The steps of a running command receive one user pipe, or do nothing.    *)
LEMMA RunRefines ==
  ASSUME IInv, RunCommand
  PROVE  (\E a, b \in Users : Room!Receive(a, b)) \/ UNCHANGED View
<1> USE DEF IInv
<1>1. pc \in {"run", "wait"} /\ UNCHANGED <<slot, name, vlist>>
  BY DEF RunCommand, Fork, SwallowLine, Reap, ReapPipeline, CanReap, FirstStage,
         MiddleStage, LastStage, StageFails, uvars
<1>2. job.me \in Users
  BY <1>1 DEF JobOnline, Online
<1>3. \/ upipe' = upipe
      \/ \E a \in Users : upipe' = [upipe EXCEPT ![a][job.me] = NoEnds]
  <2>1. CASE Reap
    BY <2>1 DEF Reap
  <2>2. CASE FirstStage
    <3>1. InEnds # NoEnds => job.cmd.from \in Users
      BY <1>1 DEF InEnds, JobOnline, Online
    <3>2. upipe' = IF InEnds # NoEnds
                   THEN [upipe EXCEPT ![job.cmd.from][job.me] = NoEnds] ELSE upipe
      BY <2>2 DEF FirstStage
    <3>3. QED
      BY <3>1, <3>2
  <2>3. CASE Fork \/ SwallowLine \/ ReapPipeline
             \/ MiddleStage \/ LastStage \/ StageFails
    BY <2>3 DEF Fork, SwallowLine, ReapPipeline, MiddleStage, LastStage,
                StageFails, pvars
  <2>4. QED
    BY <2>1, <2>2, <2>3 DEF RunCommand
<1>4. CASE upipe' = upipe
  BY <1>1, <1>4, QuietStutter
<1>5. ASSUME NEW a \in Users, upipe' = [upipe EXCEPT ![a][job.me] = NoEnds]
      PROVE  Room!Receive(a, job.me) \/ UNCHANGED View
  BY <1>1, <1>2, <1>5, ClearedRefines
<1>6. QED
  BY <1>2, <1>3, <1>4, <1>5

-----------------------------------------------------------------------------
(* Every step of the server is a step of the chat room, or none.           *)
LEMMA NextRefines == IInv /\ [Next]_vars => [Room!Next]_View
<1> SUFFICES ASSUME IInv, [Next]_vars PROVE Room!Next \/ UNCHANGED View
  OBVIOUS
<1> USE DEF Room!Next, Room!Ids, Users
<1>1. CASE UNCHANGED vars
  BY <1>1, QuietStutter DEF vars, uvars, pvars
<1>2. ASSUME NEW c \in Clients, Client(c)
      PROVE  UNCHANGED View
  BY <1>2, QuietStutter
  DEF Client, Connect, Type, FinishLine, Drop, uvars, pvars
<1>3. CASE \/ SelectFails \/ Select \/ AcceptFails
           \/ \E fd \in FD : ReadNothing(fd) \/ ReadPipe(fd)
  BY <1>3, QuietStutter
  DEF SelectFails, Select, AcceptFails, ReadNothing, ReadPipe, uvars, pvars
<1>4. ASSUME NEW c \in Clients, Accept(c)
      PROVE  Room!Next
  BY <1>4, AcceptRefines
<1>5. ASSUME NEW c \in Clients, AcceptOverflows(c)
      PROVE  UNCHANGED View
  BY <1>5, QuietStutter DEF AcceptOverflows, uvars
<1>6. ASSUME NEW fd \in FD, NEW c \in Clients, ServeLine(fd, c)
      PROVE  Room!Next \/ UNCHANGED View
  <2>1. TakeLine(fd, c)
    BY <1>6 DEF ServeLine, BlankLine, Logout, Chat, ShellExit, Rename, Setenv, Shell
  <2>2. Index(fd) \in Users
    BY <2>1, TakeLineFacts DEF Online
  <2>3. CASE Logout(fd, c)
    BY <2>2, <2>3, LogoutRefines
  <2>4. CASE BlankLine(fd, c) \/ Chat(fd, c) \/ ShellExit(fd, c)
    BY <2>4, QuietStutter DEF BlankLine, Chat, ShellExit, uvars, pvars
  <2>5. ASSUME NEW n \in Names, Rename(fd, c, n)
        PROVE  Room!Next \/ UNCHANGED View
    BY <2>2, <2>5, RenameRefines
  <2>6. ASSUME NEW v \in Vars, NEW x \in Vals, Setenv(fd, c, v, x)
        PROVE  Room!Next
    BY <2>2, <2>6, SetenvRefines
  <2>7. ASSUME NEW k \in Users, NEW cmd \in Commands[k], NEW seen \in BOOLEAN,
               Shell(fd, c, cmd, seen)
        PROVE  Room!Next \/ UNCHANGED View
    <3>1. Room!Pipe(Index(fd), cmd.to) \/ UNCHANGED View
      BY <2>7, ShellRefines
    <3>2. Room!Pipe(Index(fd), cmd.to) => cmd.to \in Users
      BY DEF Room!Pipe, Room!Present
    <3>3. QED
      BY <2>2, <3>1, <3>2
  <2>8. QED
    BY <1>6, <2>3, <2>4, <2>5, <2>6, <2>7 DEF ServeLine
<1>7. CASE RunCommand
  BY <1>7, RunRefines
<1>8. QED
  BY <1>1, <1>2, <1>3, <1>4, <1>5, <1>6, <1>7 DEF Next, Server, Terminated

(***************************************************************************)
(* np_single_proc.cpp keeps what the chat room promises: a new user gets   *)
(* the smallest free id and a fresh environment, a name is taken only if   *)
(* nobody has it, a user pipe is made between online users, received once, *)
(* and gone with either of them.                                           *)
(***************************************************************************)
THEOREM Refinement == Spec => ImplementsRoom
<1>1. [Room!Next]_View => [Room!Next]_<<slot, name, Pending, Environment>>
  BY DEF View
<1>2. QED
  BY <1>1, InitRefines, NextRefines, Invariant, PTL
  DEF Spec, ImplementsRoom, Room!Spec, Room!rvars, View

(* No step of the chat room makes two names the same.                      *)
LEMMA RoomKeepsNames ==
  ASSUME slot \in [Users -> Clients \cup {NoClient}],
         name \in [Users -> Names \cup {Anonymous}],
         NamesUnique, Room!Next \/ UNCHANGED View
  PROVE  NamesUnique'
<1> USE DEF NamesUnique, Room!UniqueNicks, Room!Present, Room!Ids, Users
<1>1. CASE \E c \in Clients : Room!Join(c)
  BY <1>1 DEF Room!Join
<1>2. CASE \E i \in Users : Room!Leave(i)
  BY <1>2 DEF Room!Leave
<1>3. CASE \E i \in Users, n \in Names : Room!Rename(i, n)
  BY <1>3 DEF Room!Rename
<1>4. CASE UNCHANGED <<slot, name>>
  BY <1>4
<1>5. QED
  BY <1>1, <1>2, <1>3, <1>4
  DEF Room!Next, Room!SetVar, Room!Pipe, Room!Receive, View

(***************************************************************************)
(* No two online users have the same name, unless both have chosen none,   *)
(* although rename() tells the users apart by their descriptors.           *)
(***************************************************************************)
THEOREM NamesStayUnique == Spec => []NamesUnique
<1>1. Init => NamesUnique
  BY DEF Init, NamesUnique, Room!UniqueNicks, Room!Present, Room!Ids, Users
<1>2. IInv /\ NamesUnique /\ [Next]_vars => NamesUnique'
  BY NextRefines, RoomKeepsNames DEF IInv, TypeOK
<1>3. QED
  BY <1>1, <1>2, Invariant, PTL DEF Spec

(***************************************************************************)
(* User pipes wait only between users who are both online, so that the     *)
(* next owner of an id cannot read them, and no client is two users.       *)
(***************************************************************************)
THEOREM RoomKept == Spec => [](Room!PipesBetweenPresent /\ Room!OneIdEach)
<1>1. ASSUME IInv
      PROVE  Room!PipesBetweenPresent
  <2>1. \A p \in Pending : p[1] \in Online /\ p[2] \in Online
    BY <1>1 DEF IInv, PipesBetweenOnline, Pending
  <2>2. QED
    BY <2>1 DEF Room!PipesBetweenPresent, Room!Present, Room!Ids, Online, Users
<1>2. ASSUME IInv
      PROVE  Room!OneIdEach
  BY <1>2 DEF IInv, Members, Room!OneIdEach, Room!Present, Room!Ids, Online, Users
<1>3. QED
  BY <1>1, <1>2, Invariant, PTL
=============================================================================
