------------------------------ MODULE NpShell -------------------------------
(***************************************************************************)
(* project1/npshell.cpp, and project2/shell1.h, the copy of it that        *)
(* np_simple.cpp runs in a process per connection: a shell with ordinary   *)
(* and numbered pipes, the programs it starts, and the pipes between them. *)
(*                                                                         *)
(* A step of the shell ends where it forks or waits.  Programs run beside  *)
(* it, and move a unit of data at a time.                                  *)
(***************************************************************************)
EXTENDS Integers, Sequences, FiniteSets

CONSTANTS
    NFD,       \* descriptors the shell may open besides 0, 1 and 2
    PipeCap,   \* how much a pipe holds
    Commands,  \* the command lines the user may type
    MaxLines,  \* bound: how many of them
    ClosesNumbered
    \* TRUE for npshell.cpp: the first program of a pipeline that reads a
    \* numbered pipe closes all numbered pipes; FALSE for shell1.h

\* A pipeline is a line with a "|"; every other line is one program.
ASSUME ShellAssumption ==
    /\ NFD \in Nat /\ PipeCap \in Nat /\ MaxLines \in Nat
    /\ \A c \in Commands :
        /\ c \in [kind : {"simple", "pipeline", "builtin", "redirect", "exit"},
                  num : Nat, stages : Nat \ {0}, filter : BOOLEAN, out : Nat]
        /\ c.kind = "pipeline" <=> c.stages > 1

FD == 3 .. NFD + 2
AllFds == 0 .. NFD + 2

\* What a descriptor refers to: an end of pipe p, the terminal, or nothing.
RdEnd(p) == <<p, "r">>
WrEnd(p) == <<p, "w">>
Tty == <<0, "tty">>
Closed == <<0, "closed">>

VARIABLES
    pc,     \* where the shell is
    total,  \* total: lines read so far
    arr,    \* arr[h+1]: pipnum_arr[h] and numpiper[h], and which pipe it is
    F,      \* the shell's descriptor table
    cmd,    \* the line being obeyed
    stage,  \* i + 1: the program of the pipeline that is started next
    prev,   \* pipetest[i-1]
    await,  \* the children the shell waits for
    procs,  \* the programs that run, by line and place in the line
    pipe    \* pipe[p]: what is in the p-th pipe that was made

vars == <<pc, total, arr, F, cmd, stage, prev, await, procs, pipe>>

Pids == (1 .. MaxLines) \X Nat
NoCmd == [kind |-> "exit", num |-> 0, stages |-> 1, filter |-> FALSE, out |-> 0]
NoEnds == [r |-> 0, w |-> 0]

Init ==
    /\ pc = "prompt" /\ total = 0 /\ arr = <<>>
    /\ F = [f \in AllFds |-> IF f \in FD THEN Closed ELSE Tty]
    /\ cmd = NoCmd /\ stage = 0 /\ prev = NoEnds /\ await = {}
    /\ procs = <<>> /\ pipe = <<>>

-----------------------------------------------------------------------------
(* Descriptors and pipes. *)

Free(T) == {f \in FD : T[f] = Closed}
Least(S) == CHOOSE f \in S : \A g \in S : f <= g

\* pipe(): the two lowest free numbers; its pipe is the next of `pipe`.
CanPipe(T) == Cardinality(Free(T)) >= 2
NewEnds(T) == LET r == Least(Free(T)) IN
              [r |-> r, w |-> Least(Free(T) \ {r})]
OpenPipe(T, p) == [T EXCEPT ![NewEnds(T).r] = RdEnd(p),
                            ![NewEnds(T).w] = WrEnd(p)]

\* dup2(f, g), which fails when f is not open, and close() of the numbers S.
Dup(T, f, g) == IF T[f] = Closed THEN T ELSE [T EXCEPT ![g] = T[f]]
Close(T, S) == [f \in AllFds |-> IF f \in S THEN Closed ELSE T[f]]

Both(e) == {e.r, e.w}
Numbered(a) == UNION {Both(a[h]) : h \in 1 .. Len(a)}
DueFor(a, d) == {h \in 1 .. Len(a) : a[h].dest = d}

\* What the children search pipnum_arr for, to dup2 to a standard stream.
DupDue(T, a, d, end, std) ==
    IF DueFor(a, d) = {} THEN T ELSE Dup(T, a[Least(DueFor(a, d))][end], std)
InputNext(T) == DupDue(T, arr, total + 1, "r", 0)  \* mutant: one line early
InputDue(T) == DupDue(T, arr, total, "r", 0)
OutputLast(T) == IF arr = <<>> \/ cmd.num = 0 THEN T  \* mutant: the latest pipe
                 ELSE Dup(T, arr[Len(arr)].w, 1)
OutputTo(T) == IF cmd.num = 0 THEN T
               ELSE DupDue(T, arr, total + cmd.num, "w", 1)

-----------------------------------------------------------------------------
(* Programs. *)

\* A program that is started with descriptor table T, and the line that its
\* output is for.
Proc(T, filter, out, line) ==
    [in |-> T[0], out |-> T[1], holds |-> {T[f] : f \in FD} \ {Closed},
     filter |-> filter, left |-> out, for |-> line]

Piped(e) == e \notin {Tty, Closed}
OpenAt(q) == {q.in, q.out} \cup q.holds
IsOpen(e) ==
    \/ \E f \in FD : F[f] = e
    \/ \E x \in DOMAIN procs : e \in OpenAt(procs[x])

Full(e) == Piped(e) /\ Len(pipe[e[1]]) >= PipeCap
Broken(e) == Piped(e) /\ ~IsOpen(RdEnd(e[1]))
Available(e) == Piped(e) /\ pipe[e[1]] # <<>>
AtEnd(e) == Piped(e) /\ pipe[e[1]] = <<>> /\ ~IsOpen(WrEnd(e[1]))

Ended(x) == procs' = [y \in DOMAIN procs \ {x} |-> procs[y]]
Put(q, e, unit) == IF Piped(e) THEN [q EXCEPT ![e[1]] = Append(@, unit)] ELSE q
Take(q, e) == [q EXCEPT ![e[1]] = Tail(@)]

ShellIdle == UNCHANGED <<pc, total, arr, F, cmd, stage, prev, await>>

\* A program that makes its output out of nothing (ls), until it is done.
Produce(x) ==
    LET q == procs[x] IN
    /\ ~q.filter /\ q.left > 0 /\ ~Full(q.out) /\ ~Broken(q.out)
    /\ pipe' = Put(pipe, q.out, q.for)
    /\ procs' = [procs EXCEPT ![x].left = @ - 1]
    /\ ShellIdle

\* A program that passes on what it reads (cat, number), until its input ends.
Copy(x) ==
    LET q == procs[x] IN
    /\ q.filter /\ Available(q.in) /\ ~Full(q.out) /\ ~Broken(q.out)
    /\ pipe' = Put(Take(pipe, q.in), q.out, q.for)
    /\ UNCHANGED procs /\ ShellIdle

\* The end of a program: it is done, or a write raises SIGPIPE.
Finish(x) ==
    LET q == procs[x] IN
    /\ \/ ~q.filter /\ q.left = 0
       \/ q.filter /\ AtEnd(q.in)
       \/ Broken(q.out) /\ (q.left > 0 \/ (q.filter /\ Available(q.in)))
    /\ Ended(x)
    /\ UNCHANGED pipe /\ ShellIdle

-----------------------------------------------------------------------------
(* The shell. *)

\* numpipe_exist: another line has made the pipe for the same line.
NeverJoins(dest) == FALSE  \* mutant: each line makes a pipe of its own
Joins(dest) == DueFor(arr, dest) # {}

\* A new line, and the numbered pipe it asks for: one that another line made
\* for the same line is joined.  The user types a program that reads its
\* standard input only where a numbered pipe feeds it.
ReadLine(c) ==
    LET dest == total + 1 + c.num
        new == c.num > 0 /\ ~Joins(dest)
    IN  /\ pc = "prompt" /\ total < MaxLines
        /\ c.filter => DueFor(arr, total + 1) # {}
        /\ total' = total + 1 /\ cmd' = c /\ stage' = 1
        /\ \/ /\ ~new /\ pc' = "obey"
              /\ UNCHANGED <<arr, F, pipe>>
           \/ /\ new /\ CanPipe(F) /\ pc' = "obey"
              /\ arr' = Append(arr, [dest |-> dest, r |-> NewEnds(F).r,
                                     w |-> NewEnds(F).w, p |-> Len(pipe) + 1])
              /\ F' = OpenPipe(F, Len(pipe) + 1)
              /\ pipe' = Append(pipe, <<>>)
           \/ /\ new /\ ~CanPipe(F) /\ pc' = "wild"
              /\ UNCHANGED <<arr, F, pipe>>
        /\ UNCHANGED <<prev, await, procs>>

Start(x, q) == procs' = [y \in DOMAIN procs \cup {x} |->
                             IF y = x THEN q ELSE procs[y]]

\* printenv, setenv: nothing else happens to the shell.
Builtin ==
    /\ pc = "obey" /\ cmd.kind = "builtin"
    /\ pc' = "prompt"
    /\ UNCHANGED <<total, arr, F, cmd, stage, prev, await, procs, pipe>>

Exit ==
    /\ pc = "obey" /\ cmd.kind = "exit"
    /\ pc' = "dead" /\ F' = [f \in AllFds |-> Closed]
    /\ UNCHANGED <<total, arr, cmd, stage, prev, await, procs, pipe>>

\* SIGCHLD is ignored: wait() returns when no child is left at all.
AwaitAll == await' = DOMAIN procs'

\* redirect(): a program that writes to a file and inherits everything.
Redirect ==
    /\ pc = "obey" /\ cmd.kind = "redirect"
    /\ Start(<<total, 1>>, Proc(F, FALSE, cmd.out, total))
    /\ pc' = "wait" /\ AwaitAll
    /\ UNCHANGED <<total, arr, F, cmd, stage, prev, pipe>>

Simple ==
    /\ pc = "obey" /\ cmd.kind = "simple"
    /\ Start(<<total, 1>>, Proc(Close(OutputTo(InputDue(F)), Numbered(arr)),
                                cmd.filter, cmd.out, total + cmd.num))
    /\ pc' = "wait" /\ AwaitAll
    /\ UNCHANGED <<total, arr, F, cmd, stage, prev, pipe>>

\* Mutant: the shell keeps the write end of the new pipe.
ForkOpen(T, child, line, closed) ==
    /\ Start(<<total, stage>>, Proc(child, cmd.filter \/ stage > 1,
                                    IF stage = 1 THEN cmd.out ELSE 0, line))
    /\ F' = Close(T, closed \ {NewEnds(F).w})
    /\ prev' = NewEnds(F) /\ stage' = stage + 1
    /\ pipe' = Append(pipe, <<>>)
    /\ UNCHANGED <<total, arr, cmd>>

\* One program of a pipeline is forked; its pipe is made first, whether it is
\* the last or not.  Table T is the parent's with that pipe.
Fork(T, child, line, closed) ==
    /\ Start(<<total, stage>>, Proc(child, cmd.filter \/ stage > 1,
                                    IF stage = 1 THEN cmd.out ELSE 0, line))
    /\ F' = Close(T, closed)
    /\ prev' = NewEnds(F) /\ stage' = stage + 1
    /\ pipe' = Append(pipe, <<>>)
    /\ UNCHANGED <<total, arr, cmd>>

Pipeline(n) ==
    /\ pc = "obey" /\ cmd.kind = "pipeline" /\ stage = n /\ CanPipe(F)

\* Mutant: shell1.h closes the numbered pipes first, as npshell.cpp does.
FirstInputClosing(T) ==
    IF DueFor(arr, total) # {} THEN Close(InputDue(T), Numbered(arr)) ELSE T

\* The numbered pipe that is due becomes the first program's input.
FirstInput(T) ==
    IF ClosesNumbered /\ DueFor(arr, total) # {}
    THEN Close(InputDue(T), Numbered(arr)) ELSE InputDue(T)

FirstStage ==
    LET new == NewEnds(F)
        T == OpenPipe(F, Len(pipe) + 1)
        child == Close(Dup(FirstInput(T), new.w, 1), Both(new))
    IN  /\ Pipeline(1)
        /\ Fork(T, child, total,
                {new.w} \cup {arr[h].r : h \in DueFor(arr, total)})
        /\ UNCHANGED <<pc, await>>

MiddleStage ==
    LET new == NewEnds(F)
        T == OpenPipe(F, Len(pipe) + 1)
        child == Close(Dup(Dup(T, prev.r, 0), new.w, 1), Both(prev) \cup Both(new))
    IN  /\ stage \in 2 .. cmd.stages - 1 /\ Pipeline(stage)
        /\ Fork(T, child, total, {prev.r, new.w})
        /\ UNCHANGED <<pc, await>>

\* The last program's own pipe is never used, nor closed by the shell.
LastStage ==
    LET new == NewEnds(F)
        T == OpenPipe(F, Len(pipe) + 1)
        piped == Close(Dup(T, prev.r, 0), Both(prev) \cup Both(new))
        child == IF cmd.num = 0 THEN piped
                 ELSE Close(OutputTo(piped), Numbered(arr))
    IN  /\ Pipeline(cmd.stages)
        /\ Fork(T, child, total + cmd.num,
                {prev.r} \cup {arr[h].w : h \in DueFor(arr, total + 1)})
        /\ pc' = IF cmd.num = 0 THEN "wait" ELSE "prompt"
        /\ await' = IF cmd.num = 0 THEN {<<total, stage>>} ELSE {}

StageFails ==
    /\ pc = "obey" /\ cmd.kind = "pipeline" /\ ~CanPipe(F)
    /\ pc' = "wild"
    /\ UNCHANGED <<total, arr, F, cmd, stage, prev, await, procs, pipe>>

\* Mutant: both ends of the next line's pipe are closed.
ReadAndWritten ==
    UNION {Both(arr[h]) : h \in DueFor(arr, total) \cup DueFor(arr, total + 1)}
\* What a simple command closes when its program has ended.
DoneWith ==
    {arr[h].w : h \in DueFor(arr, total + 1)}
        \cup {arr[h].r : h \in DueFor(arr, total)}

\* wait(0) or waitpid() returns.  After a simple command, the numbered pipe
\* that has been read is closed, and the write end of the next one.
Reap ==
    /\ pc = "wait" /\ await \cap DOMAIN procs = {}
    /\ pc' = "prompt" /\ await' = {}
    /\ F' = IF cmd.kind = "simple" THEN Close(F, DoneWith) ELSE F
    /\ UNCHANGED <<total, arr, cmd, stage, prev, procs, pipe>>

Shell ==
    \/ Builtin \/ Exit \/ Redirect \/ Simple \/ FirstStage \/ MiddleStage
    \/ LastStage \/ StageFails \/ Reap

Program(x) == Produce(x) \/ Copy(x) \/ Finish(x)

\* The shell waits, and no program can go on.
Blocked(q) ==
    IF q.filter
    THEN ~AtEnd(q.in) /\ (~Available(q.in) \/ Full(q.out)) /\
         ~(Available(q.in) /\ Broken(q.out))
    ELSE q.left > 0 /\ Full(q.out) /\ ~Broken(q.out)
Hung ==
    /\ pc = "wait" /\ await \cap DOMAIN procs # {}
    /\ \A x \in DOMAIN procs : Blocked(procs[x])

Terminated ==
    /\ \/ pc \in {"dead", "wild"}
       \/ Hung
       \/ pc = "prompt" /\ total = MaxLines
    /\ UNCHANGED vars

Next ==
    \/ \E c \in Commands : ReadLine(c)
    \/ Shell
    \/ \E x \in DOMAIN procs : Program(x)
    \/ Terminated

Spec == Init /\ [][Next]_vars

-----------------------------------------------------------------------------
(* Properties. *)

\* Types; no pipe holds more than it can; a line has one numbered pipe at most.
TypeOK ==
    /\ pc \in {"prompt", "obey", "wait", "dead", "wild"}
    /\ total \in 0 .. MaxLines
    /\ cmd \in Commands \cup {NoCmd}
    /\ await \subseteq Pids /\ DOMAIN procs \subseteq Pids
    /\ \A f \in FD : F[f] = Closed \/ F[f][1] \in DOMAIN pipe
    /\ \A p \in DOMAIN pipe : Len(pipe[p]) <= PipeCap
    /\ \A h \in DOMAIN arr :
        Both(arr[h]) \subseteq FD /\ DueFor(arr, arr[h].dest) = {h}

\* Of the pipes that wait for a later line, the shell keeps both ends, and of
\* the next line's at least the read end: no number that waits is closed for
\* another pipe, or reused.
PendingIntact ==
    pc # "dead" => \A h \in DOMAIN arr :
        /\ arr[h].dest > total => F[arr[h].r] = RdEnd(arr[h].p)
        /\ arr[h].dest > total + 1 => F[arr[h].w] = WrEnd(arr[h].p)

\* What a line's output is promised to is all that this line's first program
\* ever finds in its input: skipped lines, joined pipes and pipelines never
\* mix it up with other lines' data.
ReadsItsOwn ==
    \A x \in DOMAIN procs :
        LET q == procs[x] IN
        q.filter /\ Piped(q.in) =>
            \A n \in DOMAIN pipe[q.in[1]] : pipe[q.in[1]][n] = x[1]

\* All programs of a pipeline but the last write into a pipe.
StagesConnected ==
    \A x \in DOMAIN procs :
        <<x[1], x[2] + 1>> \in DOMAIN procs \/ (x[1] = total /\ x[2] < cmd.stages)
            => Piped(procs[x].out)

\* The shell waits for ever only if a program has filled a pipe nobody empties
\* yet, or the shell itself still holds the write end of a pipe that was due,
\* since the line before was not one that closes it.
HangIsExplained ==
    Hung =>
        \/ \E x \in DOMAIN procs : Full(procs[x].out)
        \/ \E h \in DOMAIN arr :
               arr[h].dest <= total /\ F[arr[h].w] = WrEnd(arr[h].p)

-----------------------------------------------------------------------------
(* The shell as mail between programs. *)

Turn == IF pc = "obey" THEN <<total, stage>> ELSE <<total + 1, 1>>

\* Whom a program's output is for.
Recipient(x) ==
    LET q == procs[x] IN
    IF q.out = Tty THEN <<0, 0>>
    ELSE IF q.for = x[1] THEN <<x[1], x[2] + 1>> ELSE <<q.for, 1>>

\* Who may read something: the filters that run, the next program of a pipeline,
\* and the first programs of the lines that numbered pipes wait for.
Readers == {x \in DOMAIN procs : procs[x].filter}
Expected ==
    {a \in {<<arr[h].dest, 1>> : h \in DOMAIN arr} : a[1] > total \/ a = Turn}
        \cup {a \in {Turn} : a[2] > 1}

\* The pipe that is, or will be, the input of program a.
Inbox(a) ==
    IF a \in DOMAIN procs THEN procs[a].in[1]
    ELSE IF a[2] = 1 THEN arr[Least(DueFor(arr, a[1]))].p ELSE Len(pipe)

\* The programs that run, and how much waits for whom.
Jobs == [x \in DOMAIN procs |->
    [reads |-> procs[x].filter, to |-> Recipient(x), left |-> procs[x].left]]
Unread == [a \in Readers \cup (IF pc = "dead" THEN {} ELSE Expected) |->
    Len(pipe[Inbox(a)])]

Mail == INSTANCE Mail WITH
    Lines <- {l + c.num : l \in 1 .. MaxLines, c \in Commands},
    Amounts <- {c.out : c \in Commands} \cup {0},
    turn <- Turn, runs <- Jobs, mail <- Unread

\* Each program reads what was sent to it, from its own line or an earlier one,
\* all of it and nothing else; it is cut off only if the one that it writes to
\* has ended, was not started or does not read.
ImplementsMail == Mail!Spec
=============================================================================
