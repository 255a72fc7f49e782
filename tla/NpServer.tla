------------------------------ MODULE NpServer ------------------------------
(***************************************************************************)
(* project2/np_single_proc.cpp: one process serves every user from a       *)
(* select() loop and runs their commands with fork() and pipe().           *)
(*                                                                         *)
(* The server is one thread: pc says where main() or npshell() is, and     *)
(* the clients' actions interleave with its steps.  A step of a command    *)
(* ends where the server may block or where it forks.                      *)
(***************************************************************************)
EXTENDS FdTable, Sequences

CONSTANTS
    MaxUsers,   \* ids are 1 .. MaxUsers (30 in the program)
    Names,      \* the names users choose
    LongNames,  \* those of 20 characters, which with the final NUL fill 21
    Anonymous,  \* "(no name)"
    Vars, Vals, Unset,  \* environment variables users set, to which values
    MaxSet,     \* bound: a user sets variables at most this many times
    Commands,   \* Commands[i]: the shell commands user i may type
    MaxNum,     \* bound on the N of |N and !N (1000 in the specification)
    Slow,       \* clients whose lines may arrive in pieces
    Droppers    \* clients that may drop the connection without "exit"

Users == 1 .. MaxUsers

(***************************************************************************)
(* A command line given to npshell: `<from` and `>to` (0 when absent),     *)
(* a final |num or !num (0 when absent), how many programs its ordinary    *)
(* pipes join, and whether the first of them reads its standard input to   *)
(* the end (cat) or never (ls); the others do.  No output goes to two      *)
(* pipes, as the specification rules out (section 4.5, item 4).            *)
(***************************************************************************)
Cmd == [from : Nat, to : Nat, num : 0 .. MaxNum, stages : Nat, reads : BOOLEAN]
NoCmd == [from |-> 0, to |-> 0, num |-> 0, stages |-> 0, reads |-> FALSE]

ASSUME ServerAssumption ==
    /\ MaxUsers \in Nat
    /\ MaxNum \in Nat
    /\ Anonymous \notin Names
    /\ LongNames \subseteq Names
    /\ Unset \notin Vals
    /\ Slow \subseteq Clients /\ Droppers \subseteq Clients
    /\ Commands \in [Users -> SUBSET Cmd]
    /\ \A i \in Users : \A cmd \in Commands[i] :
          cmd.stages > 0 /\ (cmd.to = 0 \/ cmd.num = 0)

VARIABLES
    conn,    \* conn[c]: how far client c is with its connection
    line,    \* line[c]: what the server has still to read of c's input
    slot,    \* slot[i]: the client that is user i (user[i].usage, .id)
    ufd,     \* ufd[i]: user[i].fd
    name,    \* name[i]: user[i].name
    ipset,   \* ipset[i]: user[i].ip holds the address, not an empty string
    vlist,   \* vlist[i]: user[i].Path with user[i].variable_name
    nump,    \* nump[i][n]: the numbered pipe for i's n-th next command
    upipe,   \* upipe[i][j]: user_pipe[i][j]
    F,       \* the descriptor table
    afds,    \* the descriptors main() gives to select()
    todo,    \* those of rfds that this round has still to serve
    pc,      \* where the server is
    job,     \* npshell's locals while a command runs
    misclose \* history: some close() hit a descriptor that had been reused

cvars == <<conn, line>>
uvars == <<slot, ufd, name, ipset>>
pvars == <<nump, upipe, F, misclose>>
lvars == <<afds, todo, pc, job>>
vars == <<cvars, uvars, vlist, pvars, lvars>>

(***************************************************************************)
(* Numbered pipes.  The code keeps, in order of creation, the total_n at   *)
(* which each pipe is due (pipnum_arr) and its ends (numpiper), and counts *)
(* total_n up with every command.  Two pipes are never due at the same     *)
(* total, so a user's pipes are a function of how many commands are left;  *)
(* a pipe whose command has passed is never looked at again.               *)
(***************************************************************************)
NumEntry == [made : BOOLEAN, ends : Ends]
NoEntry == [made |-> FALSE, ends |-> NoEnds]
NoPipesOffByOne == [n \in 0 .. MaxNum |-> NoEntry]  \* mutant
NoPipes == [n \in 1 .. MaxNum |-> NoEntry]

\* user[i].total_n++ : the pipes of the next command, and those left after it.
Due(pipes) == IF MaxNum = 0 THEN NoEntry ELSE pipes[1]
Tick(pipes) ==
    [n \in 1 .. MaxNum |-> IF n = MaxNum THEN NoEntry ELSE pipes[n + 1]]

(***************************************************************************)
(* Locals of npshell() that live across its steps.  due is the numbered    *)
(* pipe this command was found to read, tmp the last pair of pipetest, in  *)
(* the pipe that is the first program's standard input (Closed: none), and *)
(* input what reading it comes to: it ends, or the write end is held open  *)
(* for good, or it is the client's socket.                                 *)
(***************************************************************************)
Job == [me : Users \cup {0}, cmd : Cmd,
        badIn : BOOLEAN, badOut : BOOLEAN, due : Ends, stage : Nat,
        tmp : Ends, in : Obj, input : {"ends", "held", "socket"}]
NoJob == [me |-> 0, cmd |-> NoCmd, badIn |-> FALSE, badOut |-> FALSE,
          due |-> NoEnds, stage |-> 0, tmp |-> NoEnds, in |-> Closed,
          input |-> "ends"]

ConnState == {"out", "backlog", "on", "eof", "gone"}
PC == {"select", "accept", "serve", "run", "wait", "dead", "wild"}

TypeOK ==
    /\ conn \in [Clients -> ConnState]
    /\ line \in [Clients -> {"none", "part", "full"}]
    /\ slot \in [Users -> Clients \cup {NoClient}]
    /\ ufd \in [Users -> FD \cup {Nil}]
    /\ name \in [Users -> Names \cup {Anonymous}]
    /\ ipset \in [Users -> BOOLEAN]
    /\ vlist \in [Users -> Seq([var : Vars, val : Vals])]
    /\ nump \in [Users -> [1 .. MaxNum -> NumEntry]]
    /\ upipe \in [Users -> [Users -> Ends]]
    /\ F \in [FD -> Obj]
    /\ afds \subseteq FD
    /\ todo \subseteq FD
    /\ pc \in PC
    /\ job \in Job
    /\ misclose \in BOOLEAN

Init ==
    /\ conn = [c \in Clients |-> "out"]
    /\ line = [c \in Clients |-> "none"]
    /\ slot = [i \in Users |-> NoClient]
    /\ ufd = [i \in Users |-> Nil]
    /\ name = [i \in Users |-> Anonymous]
    /\ ipset = [i \in Users |-> FALSE]
    /\ vlist = [i \in Users |-> <<>>]
    /\ nump = [i \in Users |-> NoPipes]
    /\ upipe = [i \in Users |-> [j \in Users |-> NoEnds]]
    /\ F = [f \in FD |-> Closed]
    /\ afds = {}
    /\ todo = {}
    /\ pc = "select"
    /\ job = NoJob
    /\ misclose = FALSE

Online == {i \in Users : slot[i] # NoClient}

\* fd_to_index: the first entry with this descriptor.
Index(fd) == Lowest({i \in Users : ufd[i] = fd})

-----------------------------------------------------------------------------
(* The clients (external): telnet sessions and test scripts.  What they do *)
(* once the server has ended is left out.                                  *)
Running == pc \notin {"dead", "wild"}

\* At most MaxUsers of them are connected at a time, as the specification
\* promises the server (section 5, item 1).
Connect(c) ==
    /\ Running
    /\ conn[c] = "out"
    /\ Cardinality({d \in Clients : conn[d] \in {"backlog", "on"}}) < MaxUsers
    /\ conn' = [conn EXCEPT ![c] = "backlog"]
    /\ UNCHANGED <<line, uvars, vlist, pvars, lvars>>

\* A line arrives, or only its first bytes and later its end.
Type(c) ==
    /\ Running
    /\ conn[c] \in {"backlog", "on"} /\ line[c] = "none"
    /\ \E l \in IF c \in Slow THEN {"part", "full"} ELSE {"full"} :
           line' = [line EXCEPT ![c] = l]
    /\ UNCHANGED <<conn, uvars, vlist, pvars, lvars>>

FinishLine(c) ==
    /\ Running
    /\ conn[c] \in {"backlog", "on"} /\ line[c] = "part"
    /\ line' = [line EXCEPT ![c] = "full"]
    /\ UNCHANGED <<conn, uvars, vlist, pvars, lvars>>

Drop(c) ==
    /\ Running
    /\ c \in Droppers /\ conn[c] = "on"
    /\ conn' = [conn EXCEPT ![c] = "eof"]
    /\ UNCHANGED <<line, uvars, vlist, pvars, lvars>>

-----------------------------------------------------------------------------
(* main(): the loop around select(). *)

\* Writing to a client that dropped its connection may raise SIGPIPE, which
\* the server does not handle.  Outcomes: where a step that writes to the
\* users in S can leave the server.
Outcomes(S, next) ==
    {next} \cup IF \E i \in S : \E c \in Clients :
                     ufd[i] \in FD /\ F[ufd[i]] = Sock(c) /\ conn[c] = "eof"
                THEN {"dead"} ELSE {}

Readable(f) ==
    F[f].kind = "sock" => LET c == F[f].of
                          IN  line[c] # "none" \/ conn[c] = "eof"

Backlog == {c \in Clients : conn[c] = "backlog"}

\* The active descriptors for which select() returns EBADF.
NoBadFds == {}  \* mutant: select() skips what is closed
BadFds == {f \in afds : F[f] = Closed}

\* select() fails; err_dump() exits.
SelectFails ==
    /\ pc = "select"
    /\ BadFds # {}
    /\ pc' = "dead"
    /\ UNCHANGED <<cvars, uvars, vlist, pvars, afds, todo, job>>

\* The master socket comes before the users' descriptors.
UsersFirst(ready) == IF ready = {} THEN "accept" ELSE "serve"  \* mutant
AfterSelect(ready) == IF Backlog # {} THEN "accept" ELSE "serve"

Select ==
    /\ pc = "select"
    /\ BadFds = {}
    /\ todo' = {f \in afds : Readable(f)}
    /\ Backlog # {} \/ todo' # {}
    /\ pc' = AfterSelect(todo')
    /\ UNCHANGED <<cvars, uvars, vlist, pvars, afds, job>>

\* Where the loop over rfds goes when the descriptors in rest are left.
BreakLoop(rest) == "select"  \* mutant: one descriptor per round
Loop(rest) == IF rest = {} THEN "select" ELSE "serve"

\* user_in: the first entry not in use.
LastFreeEntry ==  \* mutant
    CHOOSE i \in Users \ Online : \A j \in Users \ Online : j <= i
FreeEntry == Lowest(Users \ Online)

\* userin_init: whoever had the id before, his numbered pipes are forgotten
\* (and stay open).
KeptPipes(i) == nump[i]  \* mutant
UserinInit(i) == NoPipes

\* accept, user_in, userin_init, env_init, welcome, login_tell_all.
Accept(c) ==
    /\ pc = "accept" /\ c \in Backlog /\ CanOpen(F)
    /\ Online # Users
    /\ LET i == FreeEntry
           fd == NewFd(F)
       IN  /\ conn' = [conn EXCEPT ![c] = "on"]
           /\ F' = [F EXCEPT ![fd] = Sock(c)]
           /\ afds' = afds \cup {fd}
           /\ slot' = [slot EXCEPT ![i] = c]
           /\ ufd' = [ufd EXCEPT ![i] = fd]
           /\ name' = [name EXCEPT ![i] = Anonymous]
           /\ ipset' = [ipset EXCEPT ![i] = TRUE]
           /\ vlist' = [vlist EXCEPT ![i] = <<>>]
           /\ nump' = [nump EXCEPT ![i] = UserinInit(i)]
    /\ pc' \in Outcomes(Online, Loop(todo))
    /\ UNCHANGED <<line, upipe, misclose, todo, job>>

\* accept() fails with EMFILE; err_dump() exits.
AcceptFails ==
    /\ pc = "accept" /\ ~CanOpen(F)
    /\ pc' = "dead"
    /\ UNCHANGED <<cvars, uvars, vlist, pvars, afds, todo, job>>

\* No entry of user[] is free: user_in finds none, and userin_init writes
\* through index -1, outside the array.
AcceptOverflows(c) ==
    /\ pc = "accept" /\ c \in Backlog /\ CanOpen(F)
    /\ Online = Users
    /\ conn' = [conn EXCEPT ![c] = "on"]
    /\ F' = [F EXCEPT ![NewFd(F)] = Sock(c)]
    /\ afds' = afds \cup {NewFd(F)}
    /\ pc' = "wild"
    /\ UNCHANGED <<line, uvars, vlist, nump, upipe, misclose, todo, job>>

-----------------------------------------------------------------------------
(* client_input() and parse(): one line of one ready descriptor. *)

\* It is fd's turn: descriptors are served in increasing order.
Turn(fd) == pc = "serve" /\ fd \in todo /\ fd = Lowest(todo)

\* fd's turn, and client c has a whole line there; client_input() waits, in
\* read(), for the end of a line of which only the beginning has arrived.
TakeLine(fd, c) ==
    /\ Turn(fd) /\ F[fd] = Sock(c)
    /\ line[c] = "full" \/ (line[c] = "part" /\ conn[c] = "eof")
    /\ line' = [line EXCEPT ![c] = "none"]
    /\ todo' = todo \ {fd}

\* After the command: back to the loop, unless a write killed the server.
Finish(fd, S) == pc' \in Outcomes(S, Loop(todo \ {fd}))

\* Only a line that ends in "\r\n" gets a prompt for an answer.
BlankLine(fd, c) ==
    /\ TakeLine(fd, c)
    /\ Finish(fd, {Index(fd)})
    /\ UNCHANGED <<conn, uvars, vlist, pvars, afds, job>>

\* A connection at its end, or a descriptor that was closed under its user:
\* every read() returns nothing and parse("") does nothing, this round and
\* in every later one.
ReadNothing(fd) ==
    /\ Turn(fd)
    /\ \/ F[fd] = Closed
       \/ \E c \in Clients :
             F[fd] = Sock(c) /\ line[c] = "none" /\ conn[c] = "eof"
    /\ todo' = todo \ {fd}
    /\ pc' = Loop(todo \ {fd})
    /\ UNCHANGED <<cvars, uvars, vlist, pvars, afds, job>>

\* The descriptor was closed under its user and is now a pipe's: what comes
\* out of the pipe would be obeyed as that user's commands.
ReadPipe(fd) ==
    /\ Turn(fd) /\ F[fd].kind \in {"rd", "wr"}
    /\ todo' = todo \ {fd}
    /\ pc' = "wild"
    /\ UNCHANGED <<cvars, uvars, vlist, pvars, afds, job>>

\* remove_remain_fifo closes both numbers of every pipe to or from user i
\* that has not been received, though the server closed the write end long
\* ago, when the command that filled the pipe had been started.
UnreceivedBy(i) ==  \* mutant: only the pipes to the user
    {p \in Users \X Users : i = p[2] /\ upipe[p[1]][p[2]].r # Nil}
Unreceived(i) ==
    {p \in Users \X Users : i \in {p[1], p[2]} /\ upipe[p[1]][p[2]].r # Nil}

PairEnds(p) == {upipe[p[1]][p[2]].r, upipe[p[1]][p[2]].w}

PairStrays(p) ==
    Strays(F, slot[p[1]], slot[p[2]], upipe[p[1]][p[2]], PairEnds(p))

\* What is closed for the user on fd, whose unreceived pipes are P.
ClosedByIndex(fd, P) ==  \* mutant
    {Index(fd)} \cup UNION {PairEnds(p) : p \in P}
ClosedAtLogout(fd, P) == {fd} \cup UNION {PairEnds(p) : p \in P}

\* FD_CLR.
NotCleared(fd) == afds  \* mutant
Cleared(fd) == afds \ {fd}

\* "exit": logout_tell_all, remove_remain_fifo, delete_user, close, FD_CLR.
Logout(fd, c) ==
    /\ TakeLine(fd, c)
    /\ LET i == Index(fd)
           P == Unreceived(i)
       IN  /\ F' = CloseAll(F, ClosedAtLogout(fd, P))
           /\ misclose' = (misclose \/ \E p \in P : PairStrays(p) # {})
           /\ upipe' = [a \in Users |-> [b \in Users |->
                           IF <<a, b>> \in P THEN NoEnds ELSE upipe[a][b]]]
           /\ slot' = [slot EXCEPT ![i] = NoClient]
           /\ ufd' = [ufd EXCEPT ![i] = Nil]
           /\ name' = [name EXCEPT ![i] = Anonymous]
           /\ ipset' = [ipset EXCEPT ![i] = FALSE]
    /\ afds' = Cleared(fd)
    /\ conn' = [conn EXCEPT ![c] = "gone"]
    /\ Finish(fd, Online)
    /\ UNCHANGED <<vlist, nump, job>>

\* Every command of parse() but "exit" counts as one for the numbered pipes.
CountCommand(i) == nump' = [nump EXCEPT ![i] = Tick(nump[i])]

\* who, printenv, tell and yell: written to the user, to the one told, to
\* all of them.
Chat(fd, c) ==
    /\ TakeLine(fd, c)
    /\ CountCommand(Index(fd))
    /\ \E S \in {Online} \cup {{j} : j \in Online} :
           Finish(fd, S \cup {Index(fd)})
    /\ UNCHANGED <<conn, uvars, vlist, upipe, F, misclose, afds, job>>

\* strcmp() with the names of the users on other descriptors.
TakenByMe(fd, n) == \E j \in Online : ufd[j] = fd /\ name[j] = n  \* mutant
Taken(fd, n) == \E j \in Online : ufd[j] # fd /\ name[j] = n

\* name.  A name of 20 characters puts its NUL on the first byte of user[i].ip.
Rename(fd, c, n) ==
    /\ TakeLine(fd, c)
    /\ CountCommand(Index(fd))
    /\ LET i == Index(fd)
       IN  IF Taken(fd, n)
           THEN UNCHANGED <<name, ipset>> /\ Finish(fd, {i})
           ELSE /\ name' = [name EXCEPT ![i] = n]
                /\ ipset' = [ipset EXCEPT ![i] = @ /\ n \notin LongNames]
                /\ Finish(fd, Online)
    /\ UNCHANGED <<conn, slot, ufd, vlist, upipe, F, misclose, afds, job>>

\* setenv: the loop that looks for the variable runs over user[0]'s list,
\* which is empty, so the pair is always appended.
Setenv(fd, c, v, x) ==
    /\ TakeLine(fd, c)
    /\ CountCommand(Index(fd))
    /\ Len(vlist[Index(fd)]) < MaxSet
    /\ vlist' = [vlist EXCEPT ![Index(fd)] =
                    Append(@, [var |-> v, val |-> x])]
    /\ Finish(fd, {Index(fd)})
    /\ UNCHANGED <<conn, uvars, upipe, F, misclose, afds, job>>

\* The environment npshell makes of a user's list: the server's own, here
\* Unset, then the pairs in order, the last one of a variable winning.
Mentions(list, v) == {k \in DOMAIN list : list[k].var = v}
LastMention(list, v) ==
    CHOOSE k \in Mentions(list, v) : \A m \in Mentions(list, v) : m <= k
Getenv(list, v) == IF Mentions(list, v) = {} THEN Unset
                   ELSE list[LastMention(list, v)].val

\* A blank before "exit" gets it past parse() and into npshell, where it is
\* exit(0) of the server.
ShellExit(fd, c) ==
    /\ TakeLine(fd, c)
    /\ pc' = "dead"
    /\ CountCommand(Index(fd))
    /\ UNCHANGED <<conn, uvars, vlist, upipe, F, misclose, afds, job>>

-----------------------------------------------------------------------------
(* npshell(): any other command. *)

\* numpipe_exist: a pipe is already due with the command that |N names.
NeverMade(pipes, n) == FALSE  \* mutant
MadeFor(pipes, n) == pipes[n].made

\* From the counting of the command to the first fork(): the user pipes are
\* checked and announced, `<from` first; the new pipes are made; the write
\* end of the numbered pipe that is due is closed.  line, the bound of every
\* search for it, is set only by |N: without one it holds whatever the stack
\* held, and the search finds the pipe or does not (seen).
Shell(fd, c, cmd, seen) ==
    /\ TakeLine(fd, c)
    /\ LET i == Index(fd)
           badIn == /\ cmd.from # 0
                    /\ ~(cmd.from \in Online /\ upipe[cmd.from][i] # NoEnds)
           badOut == /\ cmd.to # 0
                     /\ ~(cmd.to \in Online /\ upipe[i][cmd.to].r = Nil)
           toUser == cmd.to # 0 /\ ~badOut
           F1 == IF toUser /\ CanPipe(F) THEN OpenPipe(F, slot[i], slot[cmd.to])
                 ELSE F
           left == Tick(nump[i])
           toNum == cmd.num # 0 /\ ~MadeFor(left, cmd.num)
           F2 == IF toNum /\ CanPipe(F1) THEN OpenPipe(F1, slot[i], NoClient)
                 ELSE F1
           due == IF seen THEN Due(nump[i]).ends ELSE NoEnds
       IN  /\ cmd \in Commands[i]
           /\ cmd.num # 0 => seen
           /\ upipe' = IF toUser /\ CanPipe(F)
                       THEN [upipe EXCEPT ![i][cmd.to] = NewEnds(F)] ELSE upipe
           /\ nump' = [nump EXCEPT ![i] =
                          IF ~toNum THEN left
                          ELSE [left EXCEPT ![cmd.num] =
                                  [made |-> TRUE,
                                   ends |-> IF CanPipe(F1) THEN NewEnds(F1)
                                            ELSE NoEnds]]]
           /\ F' = CloseAll(F2, {due.w})
           /\ misclose' = (misclose \/
                             Strays(F2, slot[i], NoClient, due, {due.w}) # {})
           /\ job' = [NoJob EXCEPT !.me = i, !.cmd = cmd, !.badIn = badIn,
                                   !.badOut = badOut, !.due = due]
           /\ pc' \in Outcomes(
                 IF (cmd.from # 0 /\ ~badIn) \/ toUser THEN Online ELSE {i},
                 "run")
    /\ UNCHANGED <<conn, uvars, vlist, afds>>

\* What dup2() leaves on the first program's descriptor 0, given the numbers
\* it is called with, the one that counts first.
Stdin(f, g) == IF f \in FD /\ F[f] # Closed THEN F[f]
               ELSE IF g \in FD THEN F[g] ELSE Closed

InputOf(in) ==
    CASE ~job.cmd.reads -> "ends"
      [] HeldOpen(F, in) -> "held"
      [] in = Closed /\ ~job.badIn -> "socket"
      [] OTHER -> "ends"

\* The user pipe the running command reads, when it may.
InEndsTransposed == IF job.cmd.from = 0 \/ job.badIn THEN NoEnds  \* mutant
                    ELSE upipe[job.me][job.cmd.from]
InEnds == IF job.cmd.from = 0 \/ job.badIn THEN NoEnds
          ELSE upipe[job.cmd.from][job.me]

\* A single program: forked, and waited for when its output is the user's.
Fork ==
    /\ pc = "run" /\ job.cmd.stages = 1
    /\ LET in == IF job.badIn THEN Closed ELSE Stdin(InEnds.r, job.due.r)
       IN  job' = [job EXCEPT !.stage = 1, !.in = in, !.input = InputOf(in)]
    /\ pc' = "wait"
    /\ UNCHANGED <<cvars, uvars, vlist, pvars, afds, todo>>

\* The server waits only for a command whose output is the user's own.
Foreground == job.cmd.num = 0 /\ job.cmd.to = 0
CanReap ==
    /\ pc = "wait"
    /\ Foreground =>
          \/ job.input = "ends"
          \/ job.input = "socket" /\ conn[slot[job.me]] = "eof"

\* A program left with the client's socket as its input reads what the client
\* types meant for the shell.
SwallowLine ==
    /\ pc = "wait" /\ Foreground /\ job.input = "socket"
    /\ LET c == slot[job.me]
       IN  line[c] # "none" /\ line' = [line EXCEPT ![c] = "none"]
    /\ UNCHANGED <<conn, uvars, vlist, pvars, lvars>>

\* Not for a pipe to oneself.
NeverCloses(i, to) == FALSE  \* mutant
ClosesOut(i, to) == to \in Users /\ to # i

\* The numbers npshell closes once the program is started or has ended: the
\* due pipe's read end; the write end of `>to`, even if that pipe was refused
\* and the number is a leftover; both entries of `<from`.
Reap ==
    /\ CanReap /\ job.cmd.stages = 1
    /\ LET i == job.me
           from == job.cmd.from
           to == job.cmd.to
           closesOut == ClosesOut(i, to)
           closesIn == from \in Users
           outW == IF closesOut THEN upipe[i][to].w ELSE Nil
           inR == IF closesIn THEN upipe[from][i].r ELSE Nil
       IN  /\ F' = CloseAll(F, {job.due.r, outW, inR})
           /\ misclose' =
                (\/ misclose
                 \/ Strays(F, slot[i], NoClient, job.due, {job.due.r}) # {}
                 \/ /\ closesOut
                    /\ Strays(F, slot[i], slot[to], upipe[i][to], {outW}) # {}
                 \/ /\ closesIn
                    /\ Strays(F, slot[from], slot[i], upipe[from][i], {inR}) # {})
           /\ upipe' = IF closesIn THEN [upipe EXCEPT ![from][i] = NoEnds]
                       ELSE upipe
    /\ pc' \in Outcomes({job.me}, Loop(todo))
    /\ job' = NoJob
    /\ UNCHANGED <<cvars, uvars, vlist, nump, afds, todo>>

\* A pipeline: one round of the loop per program, which makes the pipe to the
\* next one (the last program gets one too), forks, and closes the ends its
\* neighbours no longer need.
NextStage == job.stage + 1

FirstStage ==
    /\ pc = "run" /\ job.cmd.stages > 1 /\ job.stage = 0 /\ CanPipe(F)
    /\ LET i == job.me
           from == job.cmd.from
           tmp == NewEnds(F)
           in == Stdin(job.due.r, InEnds.r)
           G == OpenPipe(F, slot[i], NoClient)
           reads == InEnds # NoEnds
       IN  /\ F' = CloseAll(G, {tmp.w, InEnds.r, job.due.r})
           /\ misclose' =
                (\/ misclose
                 \/ Strays(G, slot[i], NoClient, job.due, {job.due.r}) # {}
                 \/ /\ reads
                    /\ Strays(G, slot[from], slot[i], InEnds, {InEnds.r}) # {})
           /\ upipe' = IF reads THEN [upipe EXCEPT ![from][i] = NoEnds]
                       ELSE upipe
           /\ job' = [job EXCEPT !.stage = 1, !.tmp = tmp, !.in = in,
                                 !.input = InputOf(in)]
    /\ UNCHANGED <<cvars, uvars, vlist, nump, afds, todo, pc>>

MiddleStage ==
    /\ pc = "run" /\ job.stage > 0 /\ NextStage < job.cmd.stages /\ CanPipe(F)
    /\ F' = CloseAll(OpenPipe(F, slot[job.me], NoClient),
                     {job.tmp.r, NewEnds(F).w})
    /\ job' = [job EXCEPT !.stage = NextStage, !.tmp = NewEnds(F)]
    /\ UNCHANGED <<cvars, uvars, vlist, nump, upipe, misclose, afds, todo, pc>>

LastStage ==
    /\ pc = "run" /\ job.stage > 0 /\ NextStage = job.cmd.stages /\ CanPipe(F)
    /\ LET i == job.me
           to == job.cmd.to
           closesOut == to \in Users
           outW == IF closesOut THEN upipe[i][to].w ELSE Nil
           G == OpenPipe(F, slot[i], NoClient)
       IN  /\ F' = CloseAll(G, {job.tmp.r, outW})
           /\ misclose' =
                (\/ misclose
                 \/ /\ closesOut
                    /\ Strays(G, slot[i], slot[to], upipe[i][to], {outW}) # {})
    /\ job' = [job EXCEPT !.stage = NextStage, !.tmp = NoEnds]
    /\ pc' = "wait"
    /\ UNCHANGED <<cvars, uvars, vlist, nump, upipe, afds, todo>>

\* pipe() fails: pipetest is uninitialised and its contents get closed.
StageFails ==
    /\ pc = "run" /\ job.cmd.stages > 1 /\ ~CanPipe(F)
    /\ pc' = "wild"
    /\ UNCHANGED <<cvars, uvars, vlist, pvars, afds, todo, job>>

ReapPipeline ==
    /\ CanReap /\ job.cmd.stages > 1
    /\ pc' \in Outcomes({job.me}, Loop(todo))
    /\ job' = NoJob
    /\ UNCHANGED <<cvars, uvars, vlist, pvars, afds, todo>>

-----------------------------------------------------------------------------
ServeLine(fd, c) ==
    \/ BlankLine(fd, c) \/ Logout(fd, c) \/ Chat(fd, c) \/ ShellExit(fd, c)
    \/ \E n \in Names : Rename(fd, c, n)
    \/ \E v \in Vars, x \in Vals : Setenv(fd, c, v, x)
    \/ \E cmd \in UNION {Commands[i] : i \in Users}, seen \in BOOLEAN :
           Shell(fd, c, cmd, seen)

RunCommand ==
    \/ Fork \/ SwallowLine \/ Reap
    \/ FirstStage \/ MiddleStage \/ LastStage \/ StageFails \/ ReapPipeline

Server ==
    \/ SelectFails \/ Select \/ AcceptFails
    \/ \E c \in Clients : Accept(c) \/ AcceptOverflows(c)
    \/ \E fd \in FD : ReadNothing(fd) \/ ReadPipe(fd)
    \/ \E fd \in FD, c \in Clients : ServeLine(fd, c)
    \/ RunCommand

Client(c) == Connect(c) \/ Type(c) \/ FinishLine(c) \/ Drop(c)

\* The server waits for a program that waits for the server to close a pipe.
Hung == pc = "wait" /\ Foreground /\ job.input = "held"

\* The server has ended (or left what is modelled), or hangs, or every client
\* has come and gone and select() waits for good.
Ended == ~Running \/ Hung \/ \A c \in Clients : conn[c] = "gone"
Terminated == Ended /\ UNCHANGED vars

Next == Server \/ (\E c \in Clients : Client(c)) \/ Terminated

Spec == Init /\ [][Next]_vars

-----------------------------------------------------------------------------
(* The server implements the chat room. *)

Pending == {p \in Users \X Users : upipe[p[1]][p[2]] # NoEnds}
Environment == [i \in Users |-> [v \in Vars |-> Getenv(vlist[i], v)]]

Room == INSTANCE ChatRoom WITH room <- slot, nick <- name,
                               pend <- Pending, env <- Environment

\* Every step of the server is a step of the chat room or changes nothing in
\* it: the smallest id to a new user and a fresh environment with it, names
\* unique, a user pipe made once and received once, gone with either user.
ImplementsRoom == Room!Spec

-----------------------------------------------------------------------------
(* What is checked. *)

\* select() watches exactly the users' descriptors: nobody is forgotten after
\* the accept, nobody is watched after the logout (FD_SET, FD_CLR against
\* user[]), whatever the stale closes did to the numbers in between.
AfdsMatchUsers ==
    pc # "wild" => afds = {ufd[i] : i \in Online}

\* Two users never have the same descriptor, so that fd_to_index identifies
\* whoever typed the line.  It survives even the closing of a user's socket
\* by mistake: the number could only be handed out again by an accept(), and
\* the select() before it fails on the closed number.
FdIdentifiesUser ==
    /\ \A i \in Online : ufd[i] # Nil
    /\ \A i, j \in Online : ufd[i] = ufd[j] => i = j

\* Unless a close() hit a reused number: every user's socket is open and is
\* his, so yell and broadcast reach everyone.
SocketsOpen == \A i \in Online : F[ufd[i]] = Sock(slot[i])
SocketsOpenUnlessMisclosed == ~misclose => SocketsOpen

\* Unless a close() hit a reused number: a user pipe that waits to be read is
\* between two online users and its read end is open, written by the one and
\* meant for the other, through logouts, reused ids and reused descriptors.
PendingPipesIntact ==
    \A i, j \in Users : upipe[i][j] # NoEnds =>
        /\ {i, j} \subseteq Online
        /\ F[upipe[i][j].r] = ReadEnd(slot[i], slot[j], upipe[i][j])
PendingPipesIntactUnlessMisclosed == ~misclose => PendingPipesIntact

\* The same for numbered pipes: both ends stay open until the command that is
\* due to read them, and no two commands, of one user or of several, ever
\* share a pipe.
NumberedPipesIntact ==
    \A i \in Online : \A n \in 1 .. MaxNum :
        LET e == nump[i][n].ends
        IN  e # NoEnds => /\ F[e.r] = ReadEnd(slot[i], NoClient, e)
                          /\ F[e.w] = WriteEnd(slot[i], NoClient, e)
NumberedApart ==
    \A i \in Online : \A m, n \in 1 .. MaxNum :
        nump[i][m].ends = nump[i][n].ends => m = n \/ nump[i][n].ends = NoEnds
NumberedPipesIntactUnlessMisclosed == ~misclose => NumberedPipesIntact /\ NumberedApart

\* Unless a user pipes to himself or a close() hit a reused number, the server
\* never waits for a program whose input the server itself holds open, be it
\* a user pipe, a numbered pipe or a pipe of a pipeline.
ServerNeverHangs == Hung => misclose \/ job.cmd.from = job.me

\* A command that was announced as receiving from another user does read that
\* user's pipe to it, when it is forked (unless a numbered pipe it was due
\* for took its place, or a close() hit a reused number).
Started == job.stage > 0 /\ pc \in {"run", "wait"}
ReceivesFromSender ==
    Started /\ ~misclose /\ job.cmd.from # 0 /\ ~job.badIn /\ job.due = NoEnds
        => /\ job.in.kind = "rd"
           /\ job.in.of = slot[job.cmd.from] /\ job.in.to = slot[job.me]

\* A numbered pipe that has been made keeps its turn: whatever its user and the
\* others do, it moves up by one with each command of its user and no other
\* pipe takes its place, until it is due or its user has left (a |N that falls
\* due with a pipe that exists joins it).
NumberedPipesKeepTurn ==
    [][\A i \in Users : \A n \in 1 .. MaxNum - 1 :
          nump[i][n + 1].made /\ slot'[i] = slot[i] =>
              \/ nump'[i][n + 1] = nump[i][n + 1]
              \/ nump'[i][n] = nump[i][n + 1]]_vars

\* Names stay unique, though rename() compares descriptors to tell the users
\* apart.
NamesUnique == Room!UniqueNicks

-----------------------------------------------------------------------------
(* Liveness: the server takes its steps, and a line that has begun ends. *)

Fairness == WF_vars(Server) /\ \A c \in Clients : WF_vars(FinishLine(c))
FairSpec == Spec /\ Fairness

\* The server no longer serves: it has ended, or waits for a program that may
\* not end (it hangs, or the program reads the client's socket).
Stuck == ~Running \/ (pc = "wait" /\ ~CanReap)

\* Every line of every user is read, however much the others type and however
\* many users have dropped their connections.
LinesServed ==
    \A c \in Clients :
        conn[c] = "on" /\ line[c] # "none" ~> line[c] = "none" \/ Stuck

\* Whoever connects becomes a user.
ConnectionsAccepted ==
    \A c \in Clients : conn[c] = "backlog" ~> conn[c] # "backlog" \/ Stuck

\* Whoever drops the connection stops being a user, so that his pipes are
\* closed and his id is free again.
DroppedUsersLeave ==
    \A c \in Clients :
        conn[c] = "eof" ~> Stuck \/ \A i \in Users : slot[i] # c
=============================================================================
