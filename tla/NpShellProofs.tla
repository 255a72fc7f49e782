---------------------------- MODULE NpShellProofs -----------------------------
(***************************************************************************)
(* What the single-user shell does with the numbers of its pipes, for any  *)
(* command lines, any number of them, and pipes of any size: which numbers *)
(* stay open, what a program reads, and what explains that all wait.       *)
(***************************************************************************)
EXTENDS NpShell, FiniteSetTheorems, SequenceTheorems, WellFoundedInduction, TLAPS

-----------------------------------------------------------------------------
(* The shell's descriptors: the first part of the inductive invariant. *)

AnyEnd == Nat \X {"r", "w", "tty", "closed"}
Tables == [AllFds -> AnyEnd]
Programs == [in : AnyEnd, out : AnyEnd, holds : SUBSET AnyEnd,
             filter : BOOLEAN, left : Nat, for : Nat]

Typed ==
    /\ pc \in {"prompt", "obey", "wait", "dead", "wild"}
    /\ total \in 0 .. MaxLines /\ stage \in Nat /\ cmd \in Commands \cup {NoCmd}
    /\ F \in Tables /\ prev \in [r : Nat, w : Nat] /\ pipe \in Seq(Seq(Nat))
    /\ arr \in Seq([dest : Nat, r : FD, w : FD, p : Nat])
    /\ procs \in [DOMAIN procs -> Programs]

\* A line that is obeyed has made or found its numbered pipe; a filter has one
\* to read from; only pipelines have several stages.
Obeyed ==
    pc = "obey" =>
        /\ total > 0 /\ cmd \in Commands /\ stage \in 1 .. cmd.stages
        /\ cmd.num > 0 => DueFor(arr, total + cmd.num) # {}
        /\ stage = 1 /\ cmd.filter => DueFor(arr, total) # {}

\* Each numbered pipe is a pipe of its own, and the only one for its line.
PipesApart ==
    \A h, i \in DOMAIN arr :
        /\ arr[h].p \in 1 .. Len(pipe)
        /\ arr[h].dest = arr[i].dest \/ arr[h].p = arr[i].p => h = i

\* The shell reads and writes the terminal; its other numbers are ends of pipes,
\* and a numbered pipe's write end has no other number than the one in arr.
TableEnds ==
    pc # "dead" =>
        /\ F[0] = Tty /\ F[1] = Tty
        /\ \A f \in FD : F[f] = Closed \/ \E p \in 1 .. Len(pipe) : F[f] \in {RdEnd(p), WrEnd(p)}
        /\ \A f \in FD, h \in DOMAIN arr : F[f] = WrEnd(arr[h].p) => f = arr[h].w

\* PendingIntact, and how long the ends that the present line uses stay open:
\* the one that it reads until its first program is forked or, for a simple
\* command, until that has ended; the next line's write end until the line ends.
WithSimple == pc = "wait" /\ cmd.kind = "simple"
ReadOpen(d) == d > total \/ (d = total /\ ((pc = "obey" /\ stage = 1) \/ WithSimple))
WriteOpen(d) == d > total + 1 \/ (d = total + 1 /\ (pc = "obey" \/ WithSimple))
Intact ==
    pc # "dead" => \A h \in DOMAIN arr :
        /\ ReadOpen(arr[h].dest) => F[arr[h].r] = RdEnd(arr[h].p)
        /\ WriteOpen(arr[h].dest) => F[arr[h].w] = WrEnd(arr[h].p)

\* Between two programs of a pipeline the shell has the last pipe's read end
\* open, and its write end closed.
PrevOpen ==
    pc = "obey" /\ stage > 1 =>
        /\ Len(pipe) > 0 /\ prev.r \in FD /\ prev.w \in FD
        /\ F[prev.r] = RdEnd(Len(pipe)) /\ F[prev.w] = Closed
        /\ \A f \in FD : F[f] # WrEnd(Len(pipe))
        /\ \A h \in DOMAIN arr : arr[h].p # Len(pipe)

TableInv ==
    /\ Typed /\ Obeyed /\ PipesApart /\ TableEnds /\ Intact /\ PrevOpen

-----------------------------------------------------------------------------
(* Operators on tables. *)

LEMMA LeastIn ==
  ASSUME NEW S \in SUBSET Nat, S # {}
  PROVE  Least(S) \in S /\ \A y \in S : Least(S) <= y
<1> DEFINE R == {q \in Nat \X Nat : q[1] < q[2]}
<1>1. IsWellFoundedOn(R, Nat)
  BY NatLessThanWellFounded DEF OpToRel
<1>2. PICK x \in S : \A y \in S : <<y, x>> \notin R
  BY <1>1, WFMin
<1>3. ASSUME NEW y \in S
      PROVE  x <= y
  <2>1. <<y, x>> \notin R
    BY <1>2
  <2>2. x \in Nat /\ y \in Nat
    OBVIOUS
  <2>3. QED
    BY <2>1, <2>2
<1>4. QED
  BY <1>2, <1>3 DEF Least

(* pipe() returns two numbers that are free, and different. *)
LEMMA NewEndsFree ==
  ASSUME NEW T, CanPipe(T)
  PROVE  /\ NewEnds(T).r \in FD /\ NewEnds(T).w \in FD /\ NewEnds(T).r # NewEnds(T).w
         /\ T[NewEnds(T).r] = Closed /\ T[NewEnds(T).w] = Closed
<1> DEFINE S == Free(T)
           r == Least(S)
           w == Least(S \ {r})
<1>1. S \in SUBSET Nat /\ S \subseteq FD
  BY ShellAssumption DEF Free, FD
<1>2. S # {} /\ \A x : S # {x}
  BY FS_EmptySet, FS_Singleton DEF CanPipe
<1>3. r \in S
  BY <1>1, <1>2, LeastIn
<1>4. S \ {r} # {}
  BY <1>2, <1>3
<1>5. w \in S \ {r}
  BY <1>1, <1>4, LeastIn
<1>6. NewEnds(T).r = r /\ NewEnds(T).w = w
  BY DEF NewEnds
<1> HIDE DEF r, w
<1>7. QED
  BY <1>1, <1>3, <1>5, <1>6 DEF Free

(* A line has one numbered pipe at most, and that is the one that is found. *)
LEMMA DueOne ==
  ASSUME TableInv, NEW d, NEW h \in DueFor(arr, d)
  PROVE  /\ h \in DOMAIN arr /\ arr[h].dest = d /\ DueFor(arr, d) = {h}
         /\ Least(DueFor(arr, d)) = h
<1>1. arr \in Seq([dest : Nat, r : FD, w : FD, p : Nat]) /\ PipesApart
  BY DEF TableInv, Typed
<1>2. h \in DOMAIN arr /\ arr[h].dest = d /\ h \in Nat
  BY <1>1 DEF DueFor
<1>3. DueFor(arr, d) = {h}
  BY <1>1, <1>2 DEF PipesApart, DueFor
<1>4. QED
  BY <1>2, <1>3, LeastIn

(* What the numbers are. *)
LEMMA Numbers ==
  /\ FD \subseteq AllFds /\ FD \subseteq Nat /\ 0 \in AllFds /\ 1 \in AllFds
  /\ 0 \notin FD /\ 1 \notin FD
  /\ Tty \in AnyEnd /\ Closed \in AnyEnd /\ Tty # Closed
  /\ \A p \in Nat : RdEnd(p) \in AnyEnd /\ WrEnd(p) \in AnyEnd
  /\ \A p, q : /\ RdEnd(p) \notin {Tty, Closed, WrEnd(q)} /\ WrEnd(p) \notin {Tty, Closed}
               /\ (RdEnd(p) = RdEnd(q) => p = q) /\ (WrEnd(p) = WrEnd(q) => p = q)
               /\ RdEnd(p)[1] = p /\ WrEnd(p)[1] = p
BY ShellAssumption DEF FD, AllFds, AnyEnd, Tty, Closed, RdEnd, WrEnd

LEMMA ArrIs ==
  ASSUME TableInv, NEW h \in DOMAIN arr
  PROVE  /\ arr[h] \in [dest : Nat, r : FD, w : FD, p : Nat] /\ h \in Nat
         /\ arr[h].r \in FD /\ arr[h].w \in FD /\ arr[h].p \in Nat /\ arr[h].dest \in Nat
         /\ arr[h].r \in AllFds /\ arr[h].w \in AllFds
<1>1. arr \in Seq([dest : Nat, r : FD, w : FD, p : Nat])
  BY DEF TableInv, Typed
<1> DEFINE R == [dest : Nat, r : FD, w : FD, p : Nat]
<1> HIDE DEF R
<1>2. arr \in Seq(R)
  BY <1>1 DEF R
<1>3. h \in Nat /\ arr[h] \in R
  BY <1>2
<1>4. QED
  BY <1>3, Numbers DEF R

LEMMA CmdIs ==
  ASSUME TableInv, pc = "obey"
  PROVE  /\ cmd.kind \in {"simple", "pipeline", "builtin", "redirect", "exit"}
         /\ cmd.num \in Nat /\ cmd.stages \in Nat \ {0} /\ cmd.filter \in BOOLEAN
         /\ cmd.out \in Nat /\ (cmd.kind = "pipeline" <=> cmd.stages > 1)
         /\ stage \in 1 .. cmd.stages /\ total \in Nat /\ total + cmd.num \in Nat
<1>1. cmd \in Commands /\ stage \in 1 .. cmd.stages /\ total \in Nat
  BY ShellAssumption DEF TableInv, Obeyed, Typed
<1>2. cmd \in [kind : {"simple", "pipeline", "builtin", "redirect", "exit"},
               num : Nat, stages : Nat \ {0}, filter : BOOLEAN, out : Nat]
  BY <1>1, ShellAssumption
<1>3. cmd.kind = "pipeline" <=> cmd.stages > 1
  BY <1>1, ShellAssumption
<1>4. cmd.num \in Nat
  BY <1>2
<1>5. total + cmd.num \in Nat
  BY <1>1, <1>4
<1>6. QED
  BY <1>1, <1>2, <1>3, <1>5

LEMMA NumberedIs ==
  ASSUME TableInv
  PROVE  Numbered(arr) \subseteq FD
<1>1. DOMAIN arr = 1 .. Len(arr)
  BY DEF TableInv, Typed
<1>2. \A h \in DOMAIN arr : Both(arr[h]) \subseteq FD
  BY ArrIs DEF Both
<1>3. QED
  BY <1>1, <1>2 DEF Numbered

(* The children look their numbered pipes up, and dup2 them to a standard
   stream, if they find them open. *)
LEMMA DupDueIs ==
  ASSUME TableInv, NEW T \in Tables, NEW d, NEW end \in {"r", "w"}, NEW std \in {0, 1}
  PROVE  LET U == DupDue(T, arr, d, end, std)
         IN  /\ U \in Tables /\ \A f \in AllFds \ {std} : U[f] = T[f]
             /\ DueFor(arr, d) = {} => U[std] = T[std]
             /\ \A h \in DueFor(arr, d) :
                  T[arr[h][end]] # Closed => U[std] = T[arr[h][end]]
<1>1. std \in AllFds
  BY Numbers
<1>2. CASE DueFor(arr, d) = {}
  BY <1>2 DEF DupDue
<1>3. ASSUME NEW h \in DueFor(arr, d)
      PROVE  LET U == DupDue(T, arr, d, end, std)
             IN  /\ U \in Tables /\ \A f \in AllFds \ {std} : U[f] = T[f]
                 /\ T[arr[h][end]] # Closed => U[std] = T[arr[h][end]]
  <2>1. DupDue(T, arr, d, end, std) = Dup(T, arr[h][end], std)
    BY DueOne DEF DupDue
  <2>2. arr[h] \in [dest : Nat, r : FD, w : FD, p : Nat]
    BY DueOne, ArrIs
  <2>3. arr[h][end] \in FD
    BY <2>2
  <2>4. T[arr[h][end]] \in AnyEnd
    BY <2>3, Numbers DEF Tables
  <2>5. QED
    BY <1>1, <2>1, <2>4 DEF Dup, Tables
<1>4. \A h, i \in DueFor(arr, d) : h = i
  BY DueOne
<1>5. QED
  BY <1>2, <1>3, <1>4

\* T is the shell's table, or has a pipe more.
Above(T) == T \in Tables /\ \A f \in AllFds : F[f] # Closed => T[f] = F[f]

LEMMA InputDueIs ==
  ASSUME TableInv, pc = "obey", stage = 1, NEW T, Above(T)
  PROVE  /\ InputDue(T) \in Tables /\ \A f \in AllFds \ {0} : InputDue(T)[f] = T[f]
         /\ InputDue(T)[0] \in {Tty} \cup {RdEnd(arr[h].p) : h \in DueFor(arr, total)}
         /\ DueFor(arr, total) # {} => InputDue(T)[0] # Tty
<1>1. T \in Tables /\ T[0] = Tty
  BY Numbers DEF Above, TableInv, TableEnds
<1>2. ASSUME NEW h \in DueFor(arr, total)
      PROVE  T[arr[h].r] = RdEnd(arr[h].p)
  <2>1. h \in DOMAIN arr /\ arr[h].dest = total
    BY DueOne
  <2>2. F[arr[h].r] = RdEnd(arr[h].p)
    BY <2>1 DEF TableInv, Intact, ReadOpen
  <2>3. arr[h].r \in AllFds
    BY <2>1, ArrIs
  <2>4. QED
    BY <2>2, <2>3, Numbers DEF Above
<1>3. CASE DueFor(arr, total) = {}
  <2>1. InputDue(T) = T
    BY <1>3 DEF InputDue, DupDue
  <2>2. QED
    BY <1>1, <1>3, <2>1
<1>4. ASSUME NEW h \in DueFor(arr, total)
      PROVE  InputDue(T)[0] = RdEnd(arr[h].p)
  <2>1. T[arr[h]["r"]] = RdEnd(arr[h].p) /\ RdEnd(arr[h].p) # Closed
    BY <1>2, Numbers
  <2>2. QED
    BY <1>1, <2>1, DupDueIs DEF InputDue
<1>5. InputDue(T) \in Tables /\ \A f \in AllFds \ {0} : InputDue(T)[f] = T[f]
  BY <1>1, DupDueIs DEF InputDue
<1>6. QED
  BY <1>3, <1>4, <1>5, Numbers

LEMMA OutputToIs ==
  ASSUME TableInv, pc = "obey", NEW T \in Tables,
         cmd.num > 0 =>
            \A h \in DueFor(arr, total + cmd.num) : T[arr[h].w] = F[arr[h].w]
  PROVE  /\ OutputTo(T) \in Tables /\ \A f \in AllFds \ {1} : OutputTo(T)[f] = T[f]
         /\ cmd.num = 0 => OutputTo(T) = T
         /\ cmd.num > 0 => \E h \in DueFor(arr, total + cmd.num) :
                                OutputTo(T)[1] = WrEnd(arr[h].p)
<1>1. cmd.num \in Nat /\ total \in Nat
  BY ShellAssumption DEF TableInv, Obeyed, Typed
<1>2. CASE cmd.num = 0
  BY <1>2 DEF OutputTo
<1>3. CASE cmd.num > 0
  <2>1. PICK h \in DueFor(arr, total + cmd.num) : TRUE
    BY <1>3 DEF TableInv, Obeyed
  <2>2. h \in DOMAIN arr /\ arr[h].dest = total + cmd.num
    BY DueOne
  <2>3. F[arr[h].w] = WrEnd(arr[h].p)
    BY <1>1, <1>3, <2>2 DEF TableInv, Intact, WriteOpen
  <2>4. T[arr[h]["w"]] = WrEnd(arr[h].p) /\ WrEnd(arr[h].p) # Closed
    BY <1>3, <2>1, <2>3, Numbers
  <2> PICK d, U : d = total + cmd.num /\ U = DupDue(T, arr, d, "w", 1)
    OBVIOUS
  <2>5. OutputTo(T) = U
    BY <1>3 DEF OutputTo
  <2>6. /\ U \in Tables /\ \A f \in AllFds \ {1} : U[f] = T[f]
        /\ \A i \in DueFor(arr, d) : T[arr[i]["w"]] # Closed => U[1] = T[arr[i]["w"]]
    BY DupDueIs
  <2>7. U[1] = WrEnd(arr[h].p) /\ h \in DueFor(arr, total + cmd.num)
    BY <2>1, <2>4, <2>6
  <2>8. QED
    BY <1>3, <2>5, <2>6, <2>7
<1>4. QED
  BY <1>1, <1>2, <1>3

(* pipe(), in the shell. *)
LEMMA OpenedPipe ==
  ASSUME TableInv, CanPipe(F), NEW n \in Nat
  PROVE  LET new == NewEnds(F)
             T == OpenPipe(F, n)
         IN  /\ Above(T) /\ T[new.r] = RdEnd(n) /\ T[new.w] = WrEnd(n)
             /\ new.r \in FD /\ new.w \in FD /\ new.r # new.w
             /\ F[new.r] = Closed /\ F[new.w] = Closed
             /\ \A f \in AllFds \ {new.r, new.w} : T[f] = F[f]
BY NewEndsFree, Numbers DEF OpenPipe, Above, Tables, TableInv, Typed

\* Program q is started, as the next of its line: it reads the line's numbered
\* pipe or the pipe of the program before it, writes to the next program or to
\* the line that its output is for, and holds no end that the shell has not.
ForkedAs(q) ==
    /\ Start(<<total, stage>>, q) /\ q \in Programs
    /\ IF stage > 1 THEN q.in = RdEnd(Len(pipe))
       ELSE q.in \in {Tty} \cup {RdEnd(arr[h].p) : h \in DueFor(arr, total)}
    /\ q.left \in {cmd.out, 0}
    /\ \/ q.out = Tty
       \/ /\ q.out = WrEnd(Len(pipe) + 1) /\ q.for = total
          /\ pipe' = Append(pipe, <<>>) /\ pc' = pc
       \/ /\ cmd.num > 0 /\ q.for = total + cmd.num
          /\ \E h \in DueFor(arr, total + cmd.num) : q.out = WrEnd(arr[h].p)
    /\ q.holds \subseteq {F[f] : f \in FD} \ {Closed}
    /\ q.filter => q.in # Tty
    /\ ~ClosesNumbered /\ stage < cmd.stages => q.out # Tty

(* A program's record, from its table. *)
LEMMA UnfilteredIs ==
  ASSUME NEW T \in Tables, NEW out \in Nat, NEW line \in Nat
  PROVE  LET q == Proc(T, FALSE, out, line)
         IN  /\ q \in Programs /\ q.in = T[0] /\ q.out = T[1] /\ ~q.filter
             /\ q.holds = {T[f] : f \in FD} \ {Closed}
BY Numbers DEF Proc, Programs, Tables

LEMMA ProcIs ==
  ASSUME NEW T \in Tables, NEW filter \in BOOLEAN, NEW out \in Nat, NEW line \in Nat
  PROVE  LET q == Proc(T, filter, out, line)
         IN  /\ q \in Programs /\ q.in = T[0] /\ q.out = T[1] /\ q.for = line
             /\ q.filter = filter /\ q.holds = {T[f] : f \in FD} \ {Closed} /\ q.left = out
BY Numbers DEF Proc, Programs, Tables

LEMMA SimpleForks ==
  ASSUME TableInv, Simple \/ Redirect
  PROVE  \E q : ForkedAs(q)
<1>1. /\ pc = "obey" /\ cmd.kind # "pipeline" /\ cmd \in Commands /\ stage = 1
      /\ cmd.stages = 1 /\ cmd.num \in Nat /\ cmd.out \in Nat /\ total \in Nat
      /\ cmd.filter \in BOOLEAN /\ total + cmd.num \in Nat
  <2>1. pc = "obey" /\ cmd.kind \in {"simple", "redirect"} /\ cmd \in Commands
    BY DEF Simple, Redirect, TableInv, Obeyed
  <2>2. QED
    BY <2>1, CmdIs
<1>2. F \in Tables /\ Above(F) /\ F[0] = Tty /\ F[1] = Tty
  BY <1>1 DEF TableInv, Typed, Above, TableEnds
<1>3. CASE Redirect
  <2> DEFINE q == Proc(F, FALSE, cmd.out, total)
  <2>1. /\ q \in Programs /\ q.in = Tty /\ q.out = Tty /\ ~q.filter
        /\ q.holds = {F[f] : f \in FD} \ {Closed} /\ q.left = cmd.out
    <3>1. F \in Tables /\ cmd.out \in Nat /\ total \in Nat
      BY <1>1, <1>2
    <3> HIDE DEF q
    <3>2. /\ q \in Programs /\ q.in = F[0] /\ q.out = F[1] /\ ~q.filter
          /\ q.holds = {F[f] : f \in FD} \ {Closed}
      BY <3>1, UnfilteredIs DEF q
    <3>3. q.left = cmd.out
      BY DEF q, Proc
    <3>4. QED
      BY <1>2, <3>2, <3>3
  <2>2. Start(<<total, stage>>, q)
    BY <1>1, <1>3 DEF Redirect
  <2> HIDE DEF q
  <2>3. ForkedAs(q)
    BY <1>1, <2>1, <2>2 DEF ForkedAs
  <2>4. QED
    BY <2>3
<1>4. CASE Simple
  <2> DEFINE A == InputDue(F)
             B == OutputTo(A)
             T == Close(B, Numbered(arr))
             q == Proc(T, cmd.filter, cmd.out, total + cmd.num)
  <2>1. /\ A \in Tables /\ \A f \in AllFds \ {0} : A[f] = F[f]
        /\ A[0] \in {Tty} \cup {RdEnd(arr[h].p) : h \in DueFor(arr, total)}
        /\ DueFor(arr, total) # {} => A[0] # Tty
    BY <1>1, <1>2, InputDueIs
  <2>2. \A h \in DueFor(arr, total + cmd.num) : arr[h].w \in FD
    BY DueOne, ArrIs
  <2>3. \A h \in DueFor(arr, total + cmd.num) : A[arr[h].w] = F[arr[h].w]
    BY <2>1, <2>2, Numbers
  <2> HIDE DEF A
  <2>4. /\ B \in Tables /\ \A f \in AllFds \ {1} : B[f] = A[f]
        /\ cmd.num = 0 => B = A
        /\ cmd.num > 0 => \E h \in DueFor(arr, total + cmd.num) : B[1] = WrEnd(arr[h].p)
    BY <1>1, <2>1, <2>3, OutputToIs
  <2> HIDE DEF B
  <2>5. Numbered(arr) \subseteq FD
    BY NumberedIs
  <2>6. /\ T \in Tables /\ T[0] = B[0] /\ T[1] = B[1]
        /\ \A f \in FD : T[f] \in {F[f], Closed}
    BY <2>1, <2>4, <2>5, Numbers DEF Close, Tables
  <2> HIDE DEF T
  <2>7. /\ q \in Programs /\ q.in = T[0] /\ q.out = T[1] /\ q.filter = cmd.filter
        /\ q.for = total + cmd.num /\ q.holds = {T[f] : f \in FD} \ {Closed}
        /\ q.left = cmd.out
    BY <1>1, <2>6, ProcIs
  <2>8. Start(<<total, stage>>, q)
    BY <1>1, <1>4 DEF Simple, T, B, A
  <2> HIDE DEF q
  <2>9. q.in = A[0] /\ (cmd.num = 0 => q.out = Tty)
    BY <1>2, <2>1, <2>4, <2>6, <2>7, Numbers
  <2>10. q.filter => q.in # Tty
    BY <1>1, <2>1, <2>7, <2>9 DEF TableInv, Obeyed
  <2>11. q.holds \subseteq {F[f] : f \in FD} \ {Closed}
    BY <2>6, <2>7
  <2>12. ForkedAs(q)
    BY <1>1, <2>1, <2>4, <2>6, <2>7, <2>8, <2>9, <2>10, <2>11 DEF ForkedAs
  <2>13. QED
    BY <2>12
<1>5. QED
  BY <1>3, <1>4

LEMMA FirstForks ==
  ASSUME TableInv, FirstStage
  PROVE  \E q : ForkedAs(q)
<1> DEFINE new == NewEnds(F)
           n == Len(pipe) + 1
           T == OpenPipe(F, n)
           A == FirstInput(T)
           B == Dup(A, new.w, 1)
           C == Close(B, Both(new))
           q == Proc(C, cmd.filter \/ stage > 1, IF stage = 1 THEN cmd.out ELSE 0, total)
<1>1. /\ pc = "obey" /\ stage = 1 /\ CanPipe(F) /\ n \in Nat
      /\ cmd.stages > 1 /\ Start(<<total, stage>>, q) /\ pipe' = Append(pipe, <<>>)
      /\ pc' = pc
  BY CmdIs DEF FirstStage, Pipeline, Fork, TableInv, Typed
<1>2. /\ Above(T) /\ T[new.w] = WrEnd(n) /\ new.r \in FD /\ new.w \in FD
      /\ \A f \in AllFds \ {new.r, new.w} : T[f] = F[f]
  BY <1>1, OpenedPipe
<1>3. /\ InputDue(T) \in Tables /\ \A f \in AllFds \ {0} : InputDue(T)[f] = T[f]
      /\ InputDue(T)[0] \in {Tty} \cup {RdEnd(arr[h].p) : h \in DueFor(arr, total)}
      /\ DueFor(arr, total) # {} => InputDue(T)[0] # Tty
  BY <1>1, <1>2, InputDueIs
<1>4. /\ A \in Tables /\ A[0] = InputDue(T)[0] /\ A[1] = InputDue(T)[1]
      /\ \A f \in FD : A[f] \in {InputDue(T)[f], Closed}
      /\ ~ClosesNumbered => A = InputDue(T)
  BY <1>3, NumberedIs, Numbers DEF FirstInput, Close, Tables
<1>5. T[1] = Tty /\ F[1] = Tty
  BY <1>1, <1>2, Numbers DEF TableInv, TableEnds
<1>6. /\ A[1] = Tty /\ A[new.w] \in {WrEnd(n), Closed}
      /\ ~ClosesNumbered => A[new.w] = WrEnd(n)
      /\ \A f \in FD \ {new.r, new.w} : A[f] \in {F[f], Closed}
  BY <1>2, <1>3, <1>4, <1>5, Numbers
<1> HIDE DEF A
<1>7. /\ B \in Tables /\ B[0] = A[0] /\ B[1] \in {Tty, WrEnd(n)}
      /\ ~ClosesNumbered => B[1] = WrEnd(n)
      /\ \A f \in FD : B[f] = A[f]
  BY <1>2, <1>4, <1>6, Numbers DEF Dup, Tables
<1> HIDE DEF B
<1>8. /\ C \in Tables /\ C[0] = B[0] /\ C[1] = B[1]
      /\ \A f \in FD : C[f] \in {F[f], Closed}
  BY <1>2, <1>6, <1>7, Numbers DEF Close, Both, Tables
<1> HIDE DEF C
<1>9. /\ q \in Programs /\ q.in = C[0] /\ q.out = C[1] /\ q.filter = cmd.filter
      /\ q.for = total /\ q.holds = {C[f] : f \in FD} \ {Closed} /\ q.left = cmd.out
  <2>1. (cmd.filter \/ stage > 1) = cmd.filter /\ (IF stage = 1 THEN cmd.out ELSE 0) = cmd.out
        /\ cmd.filter \in BOOLEAN /\ cmd.out \in Nat /\ total \in Nat
    BY <1>1, CmdIs
  <2>2. q = Proc(C, cmd.filter, cmd.out, total)
    BY <2>1
  <2> HIDE DEF q
  <2>3. QED
    BY <1>8, <2>1, <2>2, ProcIs
<1> HIDE DEF q
<1>10. q.in = InputDue(T)[0] /\ q.out = B[1]
  BY <1>4, <1>7, <1>8, <1>9
<1>11. q.filter => q.in # Tty
  BY <1>1, <1>3, <1>9, <1>10 DEF TableInv, Obeyed
<1>12. q.holds \subseteq {F[f] : f \in FD} \ {Closed}
  BY <1>8, <1>9
<1>13. /\ q.in \in {Tty} \cup {RdEnd(arr[h].p) : h \in DueFor(arr, total)}
       /\ q.out \in {Tty, WrEnd(n)} /\ (~ClosesNumbered => q.out # Tty) /\ ~(stage > 1)
  BY <1>1, <1>3, <1>7, <1>10, Numbers
<1>14. ForkedAs(q)
  BY <1>1, <1>9, <1>11, <1>12, <1>13 DEF ForkedAs
<1>15. QED
  BY <1>14

(* The programs after the first read the pipe of the one before. *)
LEMMA LaterInput ==
  ASSUME TableInv, pc = "obey", stage > 1, CanPipe(F), NEW n \in Nat
  PROVE  LET new == NewEnds(F)
             T == OpenPipe(F, n)
             A == Dup(T, prev.r, 0)
         IN  /\ A \in Tables /\ A[0] = RdEnd(Len(pipe)) /\ A[1] = Tty
             /\ A[new.w] = WrEnd(n) /\ \A f \in FD \ Both(new) : A[f] = F[f]
             /\ Both(new) \subseteq FD /\ Both(prev) \subseteq FD
             /\ \A h \in DOMAIN arr : WriteOpen(arr[h].dest) =>
                    arr[h].w \notin Both(prev) \cup Both(new)
<1> DEFINE new == NewEnds(F)
           T == OpenPipe(F, n)
           A == Dup(T, prev.r, 0)
<1>1. /\ Above(T) /\ T[new.w] = WrEnd(n) /\ new.r \in FD /\ new.w \in FD
      /\ F[new.r] = Closed /\ F[new.w] = Closed
      /\ \A f \in AllFds \ {new.r, new.w} : T[f] = F[f]
  BY OpenedPipe
<1>2. /\ prev.r \in FD /\ prev.w \in FD /\ F[prev.r] = RdEnd(Len(pipe))
      /\ F[prev.w] = Closed /\ F[1] = Tty
  BY DEF TableInv, PrevOpen, TableEnds
<1>3. T[prev.r] = RdEnd(Len(pipe)) /\ T[1] = Tty
  BY <1>1, <1>2, Numbers DEF Above
<1> HIDE DEF T
<1>4. /\ A \in Tables /\ A[0] = RdEnd(Len(pipe)) /\ A[1] = Tty
      /\ \A f \in FD : A[f] = T[f]
  BY <1>1, <1>2, <1>3, Numbers DEF Dup, Above, Tables
<1>5. \A h \in DOMAIN arr : WriteOpen(arr[h].dest) => F[arr[h].w] = WrEnd(arr[h].p)
  BY DEF TableInv, Intact
<1> HIDE DEF A, new
<1>6. A[new.w] = WrEnd(n) /\ \A f \in FD \ Both(new) : A[f] = F[f]
  BY <1>1, <1>4, Numbers DEF Both
<1>7. \A h \in DOMAIN arr : WriteOpen(arr[h].dest) =>
                    arr[h].w \notin Both(prev) \cup Both(new)
  BY <1>1, <1>2, <1>5, Numbers DEF Both
<1>8. QED
  BY <1>1, <1>2, <1>4, <1>6, <1>7 DEF Both, A, T, new

LEMMA MiddleForks ==
  ASSUME TableInv, MiddleStage
  PROVE  \E q : ForkedAs(q)
<1> DEFINE new == NewEnds(F)
           n == Len(pipe) + 1
           T == OpenPipe(F, n)
           A == Dup(T, prev.r, 0)
           B == Dup(A, new.w, 1)
           C == Close(B, Both(prev) \cup Both(new))
           q == Proc(C, cmd.filter \/ stage > 1, IF stage = 1 THEN cmd.out ELSE 0, total)
<1>1. /\ pc = "obey" /\ stage > 1 /\ stage \in Nat /\ CanPipe(F) /\ n \in Nat
      /\ Start(<<total, stage>>, q) /\ pipe' = Append(pipe, <<>>) /\ total \in Nat
      /\ pc' = pc
  BY CmdIs DEF MiddleStage, Pipeline, Fork, TableInv, Typed
<1>2. /\ A \in Tables /\ A[0] = RdEnd(Len(pipe)) /\ A[1] = Tty
      /\ A[new.w] = WrEnd(n) /\ \A f \in FD \ Both(new) : A[f] = F[f]
      /\ Both(new) \subseteq FD /\ Both(prev) \subseteq FD
  BY <1>1, LaterInput
<1> HIDE DEF A, T, n
<1>3. B \in Tables /\ B[0] = A[0] /\ B[1] = WrEnd(n) /\ \A f \in FD : B[f] = A[f]
  BY <1>1, <1>2, Numbers DEF Dup, Tables, Both
<1> HIDE DEF B
<1>4. /\ C \in Tables /\ C[0] = B[0] /\ C[1] = B[1]
      /\ \A f \in FD : C[f] \in {F[f], Closed}
  BY <1>2, <1>3, Numbers DEF Close, Tables
<1> HIDE DEF C
<1>5. /\ q \in Programs /\ q.in = C[0] /\ q.out = C[1]
      /\ q.for = total /\ q.holds = {C[f] : f \in FD} \ {Closed}
      /\ q.left \in {cmd.out, 0}
  <2> DEFINE filter == cmd.filter \/ stage > 1
             out == IF stage = 1 THEN cmd.out ELSE 0
  <2>1. filter \in BOOLEAN /\ out \in Nat /\ out \in {cmd.out, 0}
    BY <1>1, CmdIs
  <2>2. q = Proc(C, filter, out, total)
    OBVIOUS
  <2> HIDE DEF filter, out, q
  <2>3. C \in Tables /\ total \in Nat
    BY <1>1, <1>4
  <2>4. /\ Proc(C, filter, out, total) \in Programs
        /\ Proc(C, filter, out, total).in = C[0] /\ Proc(C, filter, out, total).out = C[1]
        /\ Proc(C, filter, out, total).for = total
        /\ Proc(C, filter, out, total).holds = {C[f] : f \in FD} \ {Closed}
        /\ Proc(C, filter, out, total).left = out
    BY <2>1, <2>3, ProcIs
  <2>5. QED
    BY <2>1, <2>2, <2>4
<1> HIDE DEF q
<1>6. /\ q.in = RdEnd(Len(pipe)) /\ q.out = WrEnd(n)
      /\ q.holds \subseteq {F[f] : f \in FD} \ {Closed}
  BY <1>2, <1>3, <1>4, <1>5
<1>7. ForkedAs(q)
  BY <1>1, <1>5, <1>6, Numbers DEF ForkedAs, n
<1>8. QED
  BY <1>7

LEMMA LastForks ==
  ASSUME TableInv, LastStage
  PROVE  \E q : ForkedAs(q)
<1> DEFINE new == NewEnds(F)
           n == Len(pipe) + 1
           T == OpenPipe(F, n)
           A == Dup(T, prev.r, 0)
           B == Close(A, Both(prev) \cup Both(new))
           C == OutputTo(B)
           D == IF cmd.num = 0 THEN B ELSE Close(C, Numbered(arr))
           q == Proc(D, cmd.filter \/ stage > 1, IF stage = 1 THEN cmd.out ELSE 0,
                     total + cmd.num)
<1>1. /\ pc = "obey" /\ stage > 1 /\ stage = cmd.stages /\ CanPipe(F) /\ n \in Nat
      /\ Start(<<total, stage>>, q) /\ total + cmd.num \in Nat /\ total \in Nat
      /\ stage \in Nat /\ cmd.num \in Nat
  BY CmdIs DEF LastStage, Pipeline, Fork, TableInv, Typed
<1>2. /\ A \in Tables /\ A[0] = RdEnd(Len(pipe)) /\ A[1] = Tty
      /\ \A f \in FD \ Both(new) : A[f] = F[f]
      /\ Both(new) \subseteq FD /\ Both(prev) \subseteq FD
      /\ \A h \in DOMAIN arr : WriteOpen(arr[h].dest) =>
            arr[h].w \notin Both(prev) \cup Both(new)
  BY <1>1, LaterInput
<1> HIDE DEF A, T, n, new
<1>3. /\ B \in Tables /\ B[0] = A[0] /\ B[1] = A[1]
      /\ \A f \in FD : B[f] \in {F[f], Closed}
      /\ \A f \in FD \ (Both(prev) \cup Both(new)) : B[f] = F[f]
  BY <1>2, Numbers DEF Close, Tables
<1> HIDE DEF B
<1>4. cmd.num > 0 => /\ C \in Tables /\ \A f \in AllFds \ {1} : C[f] = B[f]
                     /\ \E h \in DueFor(arr, total + cmd.num) : C[1] = WrEnd(arr[h].p)
  <2>1. ASSUME cmd.num > 0, NEW h \in DueFor(arr, total + cmd.num)
        PROVE  B[arr[h].w] = F[arr[h].w]
    <3>1. h \in DOMAIN arr /\ arr[h].dest = total + cmd.num
      BY <2>1, DueOne
    <3>2. WriteOpen(arr[h].dest)
      BY <1>1, <2>1, <3>1 DEF WriteOpen
    <3>3. arr[h].w \in FD \ (Both(prev) \cup Both(new))
      BY <1>2, <3>1, <3>2, ArrIs
    <3>4. QED
      BY <1>3, <3>3
  <2>2. QED
    BY <1>1, <1>3, <2>1, OutputToIs
<1> HIDE DEF C
<1>5. /\ D \in Tables /\ D[0] = B[0] /\ \A f \in FD : D[f] \in {B[f], Closed}
      /\ cmd.num = 0 => D[1] = B[1]
      /\ cmd.num > 0 => D[1] = C[1]
  BY <1>1, <1>3, <1>4, NumberedIs, Numbers DEF Close, Tables
<1> HIDE DEF D
<1>6. /\ q \in Programs /\ q.in = D[0] /\ q.out = D[1]
      /\ q.for = total + cmd.num /\ q.holds = {D[f] : f \in FD} \ {Closed}
      /\ q.left \in {cmd.out, 0}
  <2> DEFINE filter == cmd.filter \/ stage > 1
             out == IF stage = 1 THEN cmd.out ELSE 0
  <2>1. filter \in BOOLEAN /\ out \in Nat /\ out \in {cmd.out, 0}
    BY <1>1, CmdIs
  <2>2. q = Proc(D, filter, out, total + cmd.num)
    OBVIOUS
  <2> HIDE DEF filter, out, q
  <2>3. QED
    BY <1>1, <1>5, <2>1, <2>2, ProcIs
<1> HIDE DEF q
<1>7. /\ q.in = RdEnd(Len(pipe)) /\ (cmd.num = 0 => q.out = Tty)
      /\ cmd.num > 0 => \E h \in DueFor(arr, total + cmd.num) : q.out = WrEnd(arr[h].p)
      /\ q.holds \subseteq {F[f] : f \in FD} \ {Closed}
  BY <1>2, <1>3, <1>4, <1>5, <1>6
<1>8. q.in # Tty /\ (cmd.num = 0 \/ cmd.num > 0) /\ ~(stage < cmd.stages)
  BY <1>1, <1>7, Numbers
<1>9. ForkedAs(q)
  BY <1>1, <1>6, <1>7, <1>8 DEF ForkedAs
<1>10. QED
  BY <1>9

(* Every program the shell starts. *)
LEMMA Forks ==
  ASSUME TableInv, Redirect \/ Simple \/ FirstStage \/ MiddleStage \/ LastStage
  PROVE  \E q : ForkedAs(q)
BY SimpleForks, FirstForks, MiddleForks, LastForks

-----------------------------------------------------------------------------
(* The first part of the invariant is inductive. *)

(* Closing numbers whose ends nobody waits for keeps the others. *)
LEMMA KeepsIntact ==
  ASSUME TableInv, pc # "dead", NEW T, Above(T), NEW S \in SUBSET FD, F' = Close(T, S),
         UNCHANGED <<arr, total>>,
         \A d \in Nat : (ReadOpen(d)' => ReadOpen(d)) /\ (WriteOpen(d)' => WriteOpen(d)),
         \A h \in DOMAIN arr, f \in S :
            /\ ReadOpen(arr[h].dest)' => F[f] # RdEnd(arr[h].p)
            /\ WriteOpen(arr[h].dest)' => F[f] # WrEnd(arr[h].p)
  PROVE  Intact'
<1> SUFFICES ASSUME NEW h \in DOMAIN arr
             PROVE  /\ ReadOpen(arr[h].dest)' => F'[arr[h].r] = RdEnd(arr[h].p)
                    /\ WriteOpen(arr[h].dest)' => F'[arr[h].w] = WrEnd(arr[h].p)
  BY DEF Intact, ReadOpen, WriteOpen
<1>1. arr[h].r \in AllFds /\ arr[h].w \in AllFds /\ arr[h].dest \in Nat
  BY ArrIs
<1>2. ASSUME ReadOpen(arr[h].dest)'
      PROVE  F'[arr[h].r] = RdEnd(arr[h].p)
  <2>1. F[arr[h].r] = RdEnd(arr[h].p)
    BY <1>1, <1>2 DEF TableInv, Intact
  <2>2. arr[h].r \notin S
    BY <1>2, <2>1
  <2>3. F[arr[h].r] # Closed
    BY <2>1, Numbers
  <2>4. T[arr[h].r] = RdEnd(arr[h].p)
    BY <1>1, <2>1, <2>3 DEF Above
  <2>5. QED
    BY <1>1, <2>2, <2>4 DEF Close
<1>3. ASSUME WriteOpen(arr[h].dest)'
      PROVE  F'[arr[h].w] = WrEnd(arr[h].p)
  <2>1. F[arr[h].w] = WrEnd(arr[h].p)
    BY <1>1, <1>3 DEF TableInv, Intact
  <2>2. arr[h].w \notin S
    BY <1>3, <2>1
  <2>3. F[arr[h].w] # Closed
    BY <2>1, Numbers
  <2>4. T[arr[h].w] = WrEnd(arr[h].p)
    BY <1>1, <2>1, <2>3 DEF Above
  <2>5. QED
    BY <1>1, <2>2, <2>4 DEF Close
<1>4. QED
  BY <1>2, <1>3

(* A pipe more, and some numbers closed. *)
LEMMA PipeStep ==
  ASSUME TableInv, pc = "obey", CanPipe(F), NEW S \in SUBSET FD,
         F' = Close(OpenPipe(F, Len(pipe) + 1), S), pipe' = Append(pipe, <<>>),
         UNCHANGED arr, pc' # "dead"
  PROVE  /\ Len(pipe') = Len(pipe) + 1 /\ pipe' \in Seq(Seq(Nat))
         /\ F' \in Tables /\ PipesApart' /\ TableEnds'
         /\ \A f \in FD : F'[f] = WrEnd(Len(pipe) + 1) => NewEnds(F).w \notin S
         /\ \A h \in DOMAIN arr : arr[h].p # Len(pipe) + 1
         /\ NewEnds(F).r \notin S => F'[NewEnds(F).r] = RdEnd(Len(pipe) + 1)
         /\ NewEnds(F).w \in S => F'[NewEnds(F).w] = Closed
         /\ \A f \in FD : F'[f] \in {Closed, F[f], RdEnd(Len(pipe) + 1), WrEnd(Len(pipe) + 1)}
<1> DEFINE new == NewEnds(F)
           n == Len(pipe) + 1
           T == OpenPipe(F, n)
<1>1. n \in Nat /\ Len(pipe) \in Nat
  BY DEF TableInv, Typed
<1>2. /\ Above(T) /\ T[new.r] = RdEnd(n) /\ T[new.w] = WrEnd(n)
      /\ new.r \in FD /\ new.w \in FD /\ new.r # new.w
      /\ F[new.r] = Closed /\ F[new.w] = Closed
      /\ \A f \in AllFds \ {new.r, new.w} : T[f] = F[f]
  BY <1>1, OpenedPipe
<1>3. Len(pipe') = n /\ pipe' \in Seq(Seq(Nat))
  BY AppendProperties, EmptySeq DEF TableInv, Typed
<1> HIDE DEF T, new
<1>4. F' = Close(T, S)
  BY DEF T
<1>5. F' \in Tables
  BY <1>2, <1>4, Numbers DEF Close, Tables, Above
<1>6. \A h \in DOMAIN arr : arr[h].p \in 1 .. Len(pipe)
  BY DEF TableInv, PipesApart
<1>7. PipesApart'
  BY <1>1, <1>3 DEF TableInv, PipesApart
<1>8. /\ F[0] = Tty /\ F[1] = Tty
      /\ \A f \in FD : F[f] = Closed \/ \E p \in 1 .. Len(pipe) : F[f] \in {RdEnd(p), WrEnd(p)}
      /\ \A f \in FD, h \in DOMAIN arr : F[f] = WrEnd(arr[h].p) => f = arr[h].w
  BY DEF TableInv, TableEnds
<1>9. F'[0] = Tty /\ F'[1] = Tty
  BY <1>2, <1>4, <1>8, Numbers DEF Close, Above
<1>10. \A f \in FD : \/ F'[f] \in {Closed, F[f]}
                     \/ F'[f] = RdEnd(n) /\ f = new.r
                     \/ F'[f] = WrEnd(n) /\ f = new.w /\ f \notin S
  BY <1>2, <1>4, Numbers DEF Close
<1>11. \A f \in FD : F'[f] = Closed \/ \E p \in 1 .. n : F'[f] \in {RdEnd(p), WrEnd(p)}
  BY <1>1, <1>8, <1>10
<1>12. \A f \in FD : F[f] # WrEnd(n)
  BY <1>1, <1>8, Numbers
<1>13. \A f \in FD, h \in DOMAIN arr : F'[f] = WrEnd(arr[h].p) => f = arr[h].w
  <2> SUFFICES ASSUME NEW f \in FD, NEW h \in DOMAIN arr, F'[f] = WrEnd(arr[h].p)
               PROVE  f = arr[h].w
    OBVIOUS
  <2>1. arr[h].p # n
    BY <1>1, <1>6
  <2>2. F'[f] = F[f]
    BY <1>10, <2>1, Numbers
  <2>3. QED
    BY <1>8, <2>2
<1>14. TableEnds'
  BY <1>3, <1>9, <1>11, <1>13 DEF TableEnds
<1>15. \A f \in FD : F'[f] = WrEnd(n) => new.w \notin S
  BY <1>10, <1>12, Numbers
<1>16. \A h \in DOMAIN arr : arr[h].p # n
  BY <1>1, <1>6
<1>17. /\ new.r \notin S => F'[new.r] = RdEnd(n)
       /\ new.w \in S => F'[new.w] = Closed
  BY <1>2, <1>4, Numbers DEF Close
<1>18. QED
  BY <1>3, <1>5, <1>7, <1>10, <1>14, <1>15, <1>16, <1>17 DEF new

LEMMA StartTyped ==
  ASSUME TableInv, NEW q, ForkedAs(q)
  PROVE  /\ procs' \in [DOMAIN procs' -> Programs]
         /\ DOMAIN procs' = DOMAIN procs \cup {<<total, stage>>}
         /\ procs'[<<total, stage>>] = q
         /\ \A x \in DOMAIN procs \ {<<total, stage>>} : procs'[x] = procs[x]
BY DEF ForkedAs, Start, TableInv, Typed

(* A program of a pipeline is forked. *)
LEMMA FirstStep ==
  ASSUME TableInv, FirstStage
  PROVE  TableInv'
<1> DEFINE new == NewEnds(F)
           n == Len(pipe) + 1
           S == {new.w} \cup {arr[h].r : h \in DueFor(arr, total)}
<1>1. /\ pc = "obey" /\ stage = 1 /\ CanPipe(F) /\ n \in Nat /\ Len(pipe) \in Nat
      /\ cmd.stages > 1 /\ cmd.stages \in Nat /\ total \in Nat /\ pipe' = Append(pipe, <<>>)
      /\ F' = Close(OpenPipe(F, n), S) /\ prev' = new /\ stage' = stage + 1
      /\ UNCHANGED <<total, arr, cmd, pc>> /\ cmd.kind = "pipeline" /\ cmd \in Commands
      /\ total > 0
  BY CmdIs DEF FirstStage, Pipeline, Fork, TableInv, Typed, Obeyed
<1>2. /\ Above(OpenPipe(F, n)) /\ new.r \in FD /\ new.w \in FD /\ new.r # new.w
      /\ F[new.r] = Closed /\ F[new.w] = Closed
  BY <1>1, OpenedPipe
<1>3. ASSUME NEW h \in DueFor(arr, total)
      PROVE  /\ h \in DOMAIN arr /\ arr[h].dest = total /\ arr[h].r \in FD
             /\ F[arr[h].r] = RdEnd(arr[h].p)
  <2>1. h \in DOMAIN arr /\ arr[h].dest = total
    BY DueOne
  <2>2. F[arr[h].r] = RdEnd(arr[h].p)
    BY <1>1, <2>1 DEF TableInv, Intact, ReadOpen
  <2>3. QED
    BY <2>1, <2>2, ArrIs
<1>4. S \in SUBSET FD /\ new.w \in S /\ new.r \notin S
  BY <1>2, <1>3, Numbers
<1>5. \A f \in S : F[f] = Closed \/ \E h \in DueFor(arr, total) : F[f] = RdEnd(arr[h].p)
  BY <1>2, <1>3
<1> HIDE DEF S, new
<1>6. Intact'
  <2>1. \A d \in Nat : (ReadOpen(d)' => d > total) /\ (WriteOpen(d)' => d > total)
    BY <1>1 DEF ReadOpen, WriteOpen, WithSimple
  <2>2. \A d \in Nat : (ReadOpen(d)' => ReadOpen(d)) /\ (WriteOpen(d)' => WriteOpen(d))
    BY <1>1 DEF ReadOpen, WriteOpen, WithSimple
  <2>3. ASSUME NEW h \in DOMAIN arr, NEW f \in S
        PROVE  /\ ReadOpen(arr[h].dest)' => F[f] # RdEnd(arr[h].p)
               /\ F[f] # WrEnd(arr[h].p)
    <3>1. CASE F[f] = Closed
      BY <3>1, Numbers
    <3>2. ASSUME NEW i \in DueFor(arr, total), F[f] = RdEnd(arr[i].p),
                 ReadOpen(arr[h].dest)', F[f] = RdEnd(arr[h].p)
          PROVE  FALSE
      <4>1. arr[i].p = arr[h].p
        BY <3>2 DEF RdEnd
      <4>2. i \in DOMAIN arr /\ arr[i].dest = total
        BY <1>3
      <4>3. i = h
        BY <4>1, <4>2 DEF TableInv, PipesApart
      <4>4. arr[h].dest > total
        BY <1>1, <2>1, <3>2, ArrIs
      <4>5. QED
        BY <1>1, <4>2, <4>3, <4>4
    <3>3. QED
      BY <1>5, <3>1, <3>2, Numbers
  <2>4. QED
    BY <1>1, <1>2, <1>4, <2>2, <2>3, KeepsIntact
<1>7. /\ Len(pipe') = n /\ pipe' \in Seq(Seq(Nat))
      /\ F' \in Tables /\ PipesApart' /\ TableEnds'
      /\ \A f \in FD : F'[f] # WrEnd(n)
      /\ \A h \in DOMAIN arr : arr[h].p # n
      /\ F'[new.r] = RdEnd(n) /\ F'[new.w] = Closed
  BY <1>1, <1>4, PipeStep DEF new
<1>8. Typed'
  <2>1. procs' \in [DOMAIN procs' -> Programs]
    BY FirstForks, StartTyped
  <2>2. new \in [r : Nat, w : Nat]
    BY <1>2, Numbers DEF NewEnds, new
  <2>3. QED
    BY <1>1, <1>7, <2>1, <2>2 DEF TableInv, Typed
<1>9. Obeyed'
  BY <1>1 DEF TableInv, Obeyed, DueFor
<1>10. PrevOpen'
  BY <1>1, <1>2, <1>7 DEF PrevOpen
<1>11. QED
  BY <1>6, <1>7, <1>8, <1>9, <1>10 DEF TableInv

LEMMA MiddleStep ==
  ASSUME TableInv, MiddleStage
  PROVE  TableInv'
<1> DEFINE new == NewEnds(F)
           n == Len(pipe) + 1
           S == {prev.r, new.w}
<1>1. /\ pc = "obey" /\ stage > 1 /\ CanPipe(F) /\ n \in Nat /\ Len(pipe) \in Nat
      /\ stage + 1 \in 1 .. cmd.stages /\ stage \in Nat
      /\ total \in Nat /\ pipe' = Append(pipe, <<>>)
      /\ F' = Close(OpenPipe(F, n), S) /\ prev' = new /\ stage' = stage + 1
      /\ UNCHANGED <<total, arr, cmd, pc>> /\ cmd.kind = "pipeline" /\ cmd \in Commands
      /\ total > 0
  BY CmdIs DEF MiddleStage, Pipeline, Fork, TableInv, Typed, Obeyed
<1>2. /\ Above(OpenPipe(F, n)) /\ new.r \in FD /\ new.w \in FD /\ new.r # new.w
      /\ F[new.r] = Closed /\ F[new.w] = Closed
  BY <1>1, OpenedPipe
<1>3. /\ prev.r \in FD /\ F[prev.r] = RdEnd(Len(pipe))
      /\ \A h \in DOMAIN arr : arr[h].p # Len(pipe)
  BY <1>1 DEF TableInv, PrevOpen
<1>4. S \in SUBSET FD /\ new.w \in S /\ new.r \notin S
  BY <1>2, <1>3, Numbers
<1>5. \A f \in S : F[f] \in {Closed, RdEnd(Len(pipe))}
  BY <1>2, <1>3
<1> HIDE DEF S, new
<1>6. Intact'
  <2>1. \A d \in Nat : (ReadOpen(d)' => ReadOpen(d)) /\ (WriteOpen(d)' => WriteOpen(d))
    BY <1>1 DEF ReadOpen, WriteOpen, WithSimple
  <2>2. ASSUME NEW h \in DOMAIN arr, NEW f \in S
        PROVE  F[f] # RdEnd(arr[h].p) /\ F[f] # WrEnd(arr[h].p)
    BY <1>3, <1>5, Numbers
  <2>3. QED
    BY <1>1, <1>2, <1>4, <2>1, <2>2, KeepsIntact
<1>7. /\ Len(pipe') = n /\ pipe' \in Seq(Seq(Nat))
      /\ F' \in Tables /\ PipesApart' /\ TableEnds'
      /\ \A f \in FD : F'[f] # WrEnd(n)
      /\ \A h \in DOMAIN arr : arr[h].p # n
      /\ F'[new.r] = RdEnd(n) /\ F'[new.w] = Closed
  BY <1>1, <1>4, PipeStep DEF new
<1>8. Typed'
  <2>1. procs' \in [DOMAIN procs' -> Programs]
    BY MiddleForks, StartTyped
  <2>2. new \in [r : Nat, w : Nat]
    BY <1>2, Numbers DEF NewEnds, new
  <2>3. QED
    BY <1>1, <1>7, <2>1, <2>2 DEF TableInv, Typed
<1>9. Obeyed'
  BY <1>1 DEF TableInv, Obeyed, DueFor
<1>10. PrevOpen'
  BY <1>1, <1>2, <1>7 DEF PrevOpen
<1>11. QED
  BY <1>6, <1>7, <1>8, <1>9, <1>10 DEF TableInv

LEMMA LastStep ==
  ASSUME TableInv, LastStage
  PROVE  TableInv'
<1> DEFINE new == NewEnds(F)
           n == Len(pipe) + 1
           S == {prev.r} \cup {arr[h].w : h \in DueFor(arr, total + 1)}
<1>1. /\ pc = "obey" /\ stage > 1 /\ CanPipe(F) /\ n \in Nat /\ Len(pipe) \in Nat
      /\ stage \in Nat /\ total \in Nat /\ pipe' = Append(pipe, <<>>)
      /\ F' = Close(OpenPipe(F, n), S) /\ prev' = new /\ stage' = stage + 1
      /\ UNCHANGED <<total, arr, cmd>> /\ cmd.kind = "pipeline"
      /\ pc' \in {"wait", "prompt"}
  BY CmdIs DEF LastStage, Pipeline, Fork, TableInv, Typed
<1>2. /\ Above(OpenPipe(F, n)) /\ new.r \in FD /\ new.w \in FD
  BY <1>1, OpenedPipe
<1>3. /\ prev.r \in FD /\ F[prev.r] = RdEnd(Len(pipe))
      /\ \A h \in DOMAIN arr : arr[h].p # Len(pipe)
  BY <1>1 DEF TableInv, PrevOpen
<1>4. ASSUME NEW h \in DueFor(arr, total + 1)
      PROVE  /\ h \in DOMAIN arr /\ arr[h].dest = total + 1 /\ arr[h].w \in FD
             /\ F[arr[h].w] = WrEnd(arr[h].p)
  <2>1. h \in DOMAIN arr /\ arr[h].dest = total + 1
    BY DueOne
  <2>2. F[arr[h].w] = WrEnd(arr[h].p)
    BY <1>1, <2>1 DEF TableInv, Intact, WriteOpen
  <2>3. QED
    BY <2>1, <2>2, ArrIs
<1>5. S \in SUBSET FD
  BY <1>3, <1>4
<1>6. \A f \in S : \/ F[f] = RdEnd(Len(pipe))
                   \/ \E h \in DueFor(arr, total + 1) : F[f] = WrEnd(arr[h].p)
  BY <1>3, <1>4
<1> HIDE DEF S, new
<1>7. Intact'
  <2>1. \A d \in Nat : (ReadOpen(d)' => ReadOpen(d)) /\ (WriteOpen(d)' => d > total + 1)
    BY <1>1 DEF ReadOpen, WriteOpen, WithSimple
  <2>2. \A d \in Nat : WriteOpen(d)' => WriteOpen(d)
    BY <2>1 DEF WriteOpen
  <2>3. ASSUME NEW h \in DOMAIN arr, NEW f \in S
        PROVE  /\ F[f] # RdEnd(arr[h].p)
               /\ WriteOpen(arr[h].dest)' => F[f] # WrEnd(arr[h].p)
    <3>1. F[f] # RdEnd(arr[h].p)
      BY <1>3, <1>6, Numbers
    <3>2. ASSUME NEW i \in DueFor(arr, total + 1), F[f] = WrEnd(arr[i].p),
                 WriteOpen(arr[h].dest)', F[f] = WrEnd(arr[h].p)
          PROVE  FALSE
      <4>1. arr[i].p = arr[h].p
        BY <3>2 DEF WrEnd
      <4>2. i \in DOMAIN arr /\ arr[i].dest = total + 1
        BY <1>4
      <4>3. i = h
        BY <4>1, <4>2 DEF TableInv, PipesApart
      <4>4. arr[h].dest > total + 1
        BY <1>1, <2>1, <3>2, ArrIs
      <4>5. QED
        BY <1>1, <4>2, <4>3, <4>4
    <3>3. QED
      BY <1>6, <3>1, <3>2, Numbers
  <2>4. QED
    BY <1>1, <1>2, <1>5, <2>1, <2>2, <2>3, KeepsIntact
<1>8. /\ Len(pipe') = n /\ pipe' \in Seq(Seq(Nat))
      /\ F' \in Tables /\ PipesApart' /\ TableEnds'
  BY <1>1, <1>5, PipeStep
<1>9. Typed'
  <2>1. procs' \in [DOMAIN procs' -> Programs]
    BY LastForks, StartTyped
  <2>2. new \in [r : Nat, w : Nat]
    BY <1>2, Numbers DEF NewEnds, new
  <2>3. QED
    BY <1>1, <1>8, <2>1, <2>2 DEF TableInv, Typed
<1>10. Obeyed' /\ PrevOpen'
  BY <1>1 DEF Obeyed, PrevOpen
<1>11. QED
  BY <1>7, <1>8, <1>9, <1>10 DEF TableInv

(* A line is read, and a numbered pipe is made for the line that it names, or
   the one that another line has made is found. *)
LEMMA ReadLineTable ==
  ASSUME TableInv, NEW c \in Commands, ReadLine(c)
  PROVE  TableInv'
<1> DEFINE dest == total + 1 + c.num
           new == NewEnds(F)
           n == Len(pipe) + 1
           e == [dest |-> dest, r |-> new.r, w |-> new.w, p |-> n]
<1>1. /\ pc = "prompt" /\ total < MaxLines /\ total \in Nat /\ total' = total + 1
      /\ cmd' = c /\ stage' = 1 /\ prev' = prev /\ procs' = procs
      /\ c.num \in Nat /\ c.stages \in Nat \ {0} /\ dest \in Nat /\ dest > total /\ n \in Nat
      /\ c.filter => DueFor(arr, total + 1) # {}
      /\ total + 1 \in 0 .. MaxLines /\ 1 \in Nat /\ pc' \in {"obey", "wild"}
  <2>1. /\ pc = "prompt" /\ total < MaxLines /\ total' = total + 1
        /\ cmd' = c /\ stage' = 1 /\ prev' = prev /\ procs' = procs
        /\ c.filter => DueFor(arr, total + 1) # {}
        /\ pc' \in {"obey", "wild"}
    BY DEF ReadLine
  <2>2. total \in Nat /\ MaxLines \in Nat /\ c.num \in Nat /\ c.stages \in Nat \ {0}
    BY ShellAssumption DEF TableInv, Typed
  <2>3. dest \in Nat /\ dest > total /\ n \in Nat /\ total + 1 \in 0 .. MaxLines
    <3>1. Len(pipe) \in Nat
      BY DEF TableInv, Typed
    <3>2. QED
      BY <2>1, <2>2, <3>1
  <2>4. QED
    BY <2>1, <2>2, <2>3
<1>2. \A d \in Nat : (ReadOpen(d)' => ReadOpen(d)) /\ (WriteOpen(d)' => WriteOpen(d))
  <2>1. pc' # "wait"
    BY DEF ReadLine
  <2>2. QED
    BY <1>1, <2>1 DEF ReadOpen, WriteOpen, WithSimple
<1>3. CASE UNCHANGED <<arr, F, pipe>> /\ pc' \in {"obey", "wild"}
           /\ (pc' = "obey" => ~(c.num > 0 /\ ~Joins(dest)))
  <2>1. Typed'
    BY <1>1, <1>3 DEF TableInv, Typed
  <2>2. Obeyed'
    BY <1>1, <1>3 DEF Obeyed, DueFor, Joins
  <2>3. PipesApart' /\ TableEnds' /\ PrevOpen'
    BY <1>1, <1>3 DEF TableInv, PipesApart, TableEnds, PrevOpen
  <2>4. Intact'
    BY <1>1, <1>2, <1>3, ArrIs DEF TableInv, Intact
  <2>5. QED
    BY <2>1, <2>2, <2>3, <2>4 DEF TableInv
<1>4. CASE /\ c.num > 0 /\ ~Joins(dest) /\ CanPipe(F) /\ pc' = "obey"
           /\ arr' = Append(arr, e) /\ F' = OpenPipe(F, n) /\ pipe' = Append(pipe, <<>>)
  <2> DEFINE R == [dest : Nat, r : FD, w : FD, p : Nat]
             k == Len(arr) + 1
  <2>1. /\ Above(F') /\ F'[new.r] = RdEnd(n) /\ F'[new.w] = WrEnd(n)
        /\ new.r \in FD /\ new.w \in FD /\ new.r # new.w
        /\ F[new.r] = Closed /\ F[new.w] = Closed
        /\ \A f \in AllFds \ {new.r, new.w} : F'[f] = F[f]
    BY <1>1, <1>4, OpenedPipe
  <2>2. e \in R /\ e.dest = dest /\ e.r = new.r /\ e.w = new.w /\ e.p = n
    BY <1>1, <2>1
  <2>3. arr \in Seq(R)
    BY DEF TableInv, Typed
  <2> HIDE DEF e, R
  <2>4. /\ arr' \in Seq(R) /\ DOMAIN arr' = DOMAIN arr \cup {k} /\ arr'[k] = e
        /\ \A h \in DOMAIN arr : arr'[h] = arr[h] /\ h # k
    BY <1>4, <2>2, <2>3, AppendProperties
  <2> HIDE DEF k, new, dest, n
  <2>5. Len(pipe') = n /\ pipe' \in Seq(Seq(Nat)) /\ Len(pipe) \in Nat /\ n = Len(pipe) + 1
    BY <1>4, AppendProperties, EmptySeq DEF TableInv, Typed, n
  <2>6. Typed'
    BY <1>1, <1>4, <2>1, <2>4, <2>5 DEF TableInv, Typed, R, Above
  <2>7. \A d \in Nat : DueFor(arr, d) \subseteq DueFor(arr', d) /\ DueFor(arr', dest) # {}
    <3>1. DOMAIN arr = 1 .. Len(arr) /\ DOMAIN arr' = 1 .. Len(arr')
      BY <2>3, <2>4
    <3>2. k \in DueFor(arr', dest)
      BY <2>2, <2>4, <3>1 DEF DueFor
    <3>3. QED
      BY <2>4, <3>1, <3>2 DEF DueFor
  <2>8. Obeyed'
    <3>1. dest = total' + cmd'.num
      BY <1>1 DEF dest
    <3>2. cmd'.filter => DueFor(arr', total') # {}
      BY <1>1, <2>7
    <3>3. DueFor(arr', total' + cmd'.num) # {}
      BY <1>1, <2>7, <3>1
    <3>4. QED
      BY <1>1, <3>2, <3>3 DEF Obeyed
  <2>9. \A h \in DOMAIN arr : arr[h].dest # dest /\ arr[h].p \in 1 .. Len(pipe) /\ arr[h].p # n
    <3>1. ASSUME NEW h \in DOMAIN arr
          PROVE  arr[h].dest # dest
      BY <1>4, <2>3 DEF Joins, DueFor
    <3>2. QED
      BY <2>5, <3>1 DEF TableInv, PipesApart
  <2>10. PipesApart'
    BY <2>2, <2>4, <2>5, <2>9 DEF TableInv, PipesApart
  <2>11. /\ F[0] = Tty /\ F[1] = Tty
         /\ \A f \in FD : F[f] = Closed \/ \E p \in 1 .. Len(pipe) : F[f] \in {RdEnd(p), WrEnd(p)}
         /\ \A f \in FD, h \in DOMAIN arr : F[f] = WrEnd(arr[h].p) => f = arr[h].w
    BY <1>1 DEF TableInv, TableEnds
  <2>12. F'[0] = Tty /\ F'[1] = Tty
    BY <2>1, <2>11, Numbers
  <2>13. \A f \in FD : F'[f] = F[f] \/ (f = new.r /\ F'[f] = RdEnd(n))
                       \/ (f = new.w /\ F'[f] = WrEnd(n))
    BY <2>1, Numbers
  <2>14. \A f \in FD : F'[f] = Closed \/ \E p \in 1 .. Len(pipe') : F'[f] \in {RdEnd(p), WrEnd(p)}
    <3>1. n \in 1 .. Len(pipe') /\ 1 .. Len(pipe) \subseteq 1 .. Len(pipe')
      BY <2>5
    <3>2. QED
      BY <2>11, <2>13, <3>1
  <2>15. \A f \in FD, h \in DOMAIN arr' : F'[f] = WrEnd(arr'[h].p) => f = arr'[h].w
    <3>1. ASSUME NEW f \in FD, NEW h \in DOMAIN arr, F'[f] = WrEnd(arr[h].p)
          PROVE  f = arr[h].w
      BY <2>9, <2>11, <2>13, <3>1, Numbers
    <3>2. ASSUME NEW f \in FD, F'[f] = WrEnd(n)
          PROVE  f = new.w
      <4>1. F[f] # WrEnd(n)
        BY <2>5, <2>11, Numbers
      <4>2. QED
        BY <2>13, <3>2, <4>1, Numbers
    <3>3. QED
      BY <2>2, <2>4, <3>1, <3>2
  <2>16. TableEnds'
    BY <2>12, <2>14, <2>15 DEF TableEnds
  <2>17. Intact'
    <3>1. ASSUME NEW h \in DOMAIN arr
          PROVE  /\ ReadOpen(arr[h].dest)' => F'[arr[h].r] = RdEnd(arr[h].p)
                 /\ WriteOpen(arr[h].dest)' => F'[arr[h].w] = WrEnd(arr[h].p)
      <4>1. /\ ReadOpen(arr[h].dest) => F[arr[h].r] = RdEnd(arr[h].p)
            /\ WriteOpen(arr[h].dest) => F[arr[h].w] = WrEnd(arr[h].p)
        BY <1>1 DEF TableInv, Intact
      <4>2. /\ arr[h].r \in AllFds /\ arr[h].w \in AllFds /\ arr[h].dest \in Nat
            /\ arr'[h] = arr[h]
        BY <2>4, ArrIs
      <4>3. /\ ReadOpen(arr[h].dest)' => ReadOpen(arr[h].dest)
            /\ WriteOpen(arr[h].dest)' => WriteOpen(arr[h].dest)
        BY <1>2, <4>2
      <4>4. \A f \in AllFds : F[f] # Closed => F'[f] = F[f]
        BY <2>1
      <4>5. QED
        BY <4>1, <4>2, <4>3, <4>4, Numbers
    <3>2. QED
      BY <2>1, <2>2, <2>4, <3>1 DEF Intact
  <2>18. PrevOpen'
    BY <1>1 DEF PrevOpen
  <2>19. QED
    BY <2>6, <2>8, <2>10, <2>16, <2>17, <2>18 DEF TableInv
<1>5. QED
  BY <1>3, <1>4 DEF ReadLine

(* wait() has returned. *)
LEMMA ReapTable ==
  ASSUME TableInv, Reap
  PROVE  TableInv'
<1> DEFINE S == IF cmd.kind = "simple" THEN DoneWith ELSE {}
<1>1. /\ pc = "wait" /\ pc' = "prompt" /\ total \in Nat
      /\ UNCHANGED <<total, arr, cmd, stage, prev, procs, pipe>>
  BY DEF Reap, TableInv, Typed
<1>2. F \in Tables /\ Above(F)
  BY DEF TableInv, Typed, Above
<1>3. F' = Close(F, S)
  <2>1. F = Close(F, {})
    BY <1>2 DEF Close, Tables
  <2>2. QED
    BY <2>1 DEF Reap
<1>4. \A d \in Nat : /\ ReadOpen(d)' => d > total /\ ReadOpen(d)
                     /\ WriteOpen(d)' => d > total + 1 /\ WriteOpen(d)
  BY <1>1 DEF ReadOpen, WriteOpen, WithSimple
<1>5. ASSUME NEW f \in S
      PROVE  f \in FD /\ \E i \in DOMAIN arr :
                \/ F[f] = RdEnd(arr[i].p) /\ arr[i].dest = total
                \/ F[f] = WrEnd(arr[i].p) /\ arr[i].dest = total + 1
  <2>1. PICK i \in DOMAIN arr : \/ f = arr[i].r /\ arr[i].dest = total
                                \/ f = arr[i].w /\ arr[i].dest = total + 1
    BY DueOne DEF DoneWith
  <2>2. WithSimple
    BY <1>1 DEF WithSimple
  <2>3. QED
    BY <1>1, <2>1, <2>2, ArrIs DEF TableInv, Intact, ReadOpen, WriteOpen
<1> HIDE DEF S
<1>6. S \in SUBSET FD
  BY <1>5
<1>7. Intact'
  <2>1. ASSUME NEW h \in DOMAIN arr, NEW f \in S
        PROVE  /\ ReadOpen(arr[h].dest)' => F[f] # RdEnd(arr[h].p)
               /\ WriteOpen(arr[h].dest)' => F[f] # WrEnd(arr[h].p)
    <3>1. PICK i \in DOMAIN arr :
                \/ F[f] = RdEnd(arr[i].p) /\ arr[i].dest = total
                \/ F[f] = WrEnd(arr[i].p) /\ arr[i].dest = total + 1
      BY <1>5
    <3>2. arr[i].p = arr[h].p => i = h
      BY DEF TableInv, PipesApart
    <3>3. /\ ReadOpen(arr[h].dest)' => arr[h].dest > total
          /\ WriteOpen(arr[h].dest)' => arr[h].dest > total + 1
      BY <1>1, <1>4, ArrIs
    <3>4. arr[h].dest > total => arr[h].dest # total
      BY <1>1, ArrIs
    <3>5. arr[h].dest > total + 1 => arr[h].dest # total + 1
      BY <1>1, ArrIs
    <3>6. QED
      BY <3>1, <3>2, <3>3, <3>4, <3>5, Numbers
  <2>2. QED
    BY <1>1, <1>2, <1>3, <1>4, <1>6, <2>1, KeepsIntact
<1>8. F' \in Tables
  BY <1>2, <1>3, Numbers DEF Close, Tables
<1>9. TableEnds'
  <2>1. \A f \in AllFds : F'[f] = F[f] \/ (F'[f] = Closed /\ f \in FD)
    BY <1>3, <1>6 DEF Close
  <2>2. F'[0] = F[0] /\ F'[1] = F[1] /\ \A f \in FD : F'[f] \in {F[f], Closed}
    BY <2>1, Numbers
  <2>3. QED
    BY <1>1, <2>2, Numbers DEF TableInv, TableEnds
<1>10. Typed' /\ Obeyed' /\ PipesApart' /\ PrevOpen'
  BY <1>1, <1>8 DEF TableInv, Typed, Obeyed, PipesApart, PrevOpen
<1>11. QED
  BY <1>7, <1>9, <1>10 DEF TableInv

(* Steps of the shell that leave its descriptors alone, or close them all. *)
LEMMA QuietTable ==
  ASSUME TableInv,
         \/ Builtin \/ StageFails \/ Exit
         \/ (Simple \/ Redirect)
  PROVE  TableInv'
<1>1. CASE Exit
  <2>1. F' \in Tables
    BY <1>1, Numbers DEF Exit, Tables
  <2>2. QED
    BY <1>1, <2>1
    DEF Exit, TableInv, Typed, Obeyed, PipesApart, TableEnds, Intact, PrevOpen
<1>2. CASE Builtin \/ StageFails
  <2>1. \A d \in Nat : (ReadOpen(d)' => ReadOpen(d)) /\ (WriteOpen(d)' => WriteOpen(d))
    BY <1>2 DEF Builtin, StageFails, ReadOpen, WriteOpen, WithSimple
  <2>2. Intact'
    BY <1>2, <2>1, ArrIs DEF Builtin, StageFails, TableInv, Intact
  <2>3. Typed'
    BY <1>2 DEF Builtin, StageFails, TableInv, Typed
  <2>4. Obeyed' /\ PipesApart' /\ TableEnds' /\ PrevOpen'
    BY <1>2 DEF Builtin, StageFails, TableInv, Obeyed, PipesApart, TableEnds, PrevOpen
  <2>5. QED
    BY <2>2, <2>3, <2>4 DEF TableInv
<1>3. CASE Simple \/ Redirect
  <2>1. /\ UNCHANGED <<total, arr, F, cmd, stage, prev, pipe>>
        /\ pc = "obey" /\ pc' = "wait" /\ stage = 1
    <3>1. pc = "obey" /\ cmd.kind \in {"simple", "redirect"}
      BY <1>3 DEF Simple, Redirect
    <3>2. stage = 1
      BY <3>1, CmdIs
    <3>3. QED
      BY <1>3, <3>1, <3>2 DEF Simple, Redirect
  <2>2. \A d \in Nat : (ReadOpen(d)' => ReadOpen(d)) /\ (WriteOpen(d)' => WriteOpen(d))
    BY <2>1 DEF ReadOpen, WriteOpen, WithSimple
  <2>3. Intact'
    BY <2>1, <2>2, ArrIs DEF TableInv, Intact
  <2>4. procs' \in [DOMAIN procs' -> Programs]
    BY <1>3, SimpleForks, StartTyped
  <2>5. QED
    BY <2>1, <2>3, <2>4
    DEF TableInv, Typed, Obeyed, PipesApart, TableEnds, PrevOpen
<1>4. QED
  BY <1>1, <1>2, <1>3

(* Programs move units, and end; the shell has no part in it. *)
LEMMA Units ==
  ASSUME NEW q \in Seq(Seq(Nat)), NEW e \in AnyEnd, NEW unit \in Nat
  PROVE  /\ Put(q, e, unit) \in Seq(Seq(Nat)) /\ Len(Put(q, e, unit)) = Len(q)
         /\ \A p \in 1 .. Len(q) :
              Put(q, e, unit)[p] = IF Piped(e) /\ e[1] = p THEN Append(q[p], unit) ELSE q[p]
<1>1. e[1] \in Nat
  BY DEF AnyEnd
<1>2. CASE ~Piped(e)
  BY <1>2 DEF Put
<1>3. CASE Piped(e)
  <2>1. Put(q, e, unit) = [q EXCEPT ![e[1]] = Append(q[e[1]], unit)]
    BY <1>3 DEF Put
  <2>2. CASE e[1] \in 1 .. Len(q)
    <3>1. Append(q[e[1]], unit) \in Seq(Nat)
      BY <2>2, AppendProperties
    <3>2. QED
      BY <1>3, <2>1, <2>2, <3>1
  <2>3. CASE e[1] \notin 1 .. Len(q)
    <3>1. [q EXCEPT ![e[1]] = Append(q[e[1]], unit)] = q
      BY <1>1, <2>3
    <3>2. QED
      BY <1>3, <2>1, <2>3, <3>1
  <2>4. QED
    BY <2>2, <2>3
<1>4. QED
  BY <1>2, <1>3

LEMMA Taken ==
  ASSUME NEW q \in Seq(Seq(Nat)), NEW e \in AnyEnd, q[e[1]] # <<>>
  PROVE  /\ Take(q, e) \in Seq(Seq(Nat)) /\ Len(Take(q, e)) = Len(q)
         /\ \A p \in 1 .. Len(q) :
              Take(q, e)[p] = IF e[1] = p THEN Tail(q[p]) ELSE q[p]
<1>1. e[1] \in Nat
  BY DEF AnyEnd
<1>2. Take(q, e) = [q EXCEPT ![e[1]] = Tail(q[e[1]])]
  BY DEF Take
<1>3. CASE e[1] \in 1 .. Len(q)
  <2>1. Tail(q[e[1]]) \in Seq(Nat)
    BY <1>3, HeadTailProperties
  <2>2. QED
    BY <1>2, <1>3, <2>1
<1>4. CASE e[1] \notin 1 .. Len(q)
  <2>1. [q EXCEPT ![e[1]] = Tail(q[e[1]])] = q
    BY <1>1, <1>4
  <2>2. QED
    BY <1>2, <1>4, <2>1
<1>5. QED
  BY <1>3, <1>4

\* A step of a program: the shell and what the programs hold stay; a pipe loses
\* its first unit or has one more, which is for the line its writer writes for.
ProgramStep ==
    /\ ShellIdle /\ pipe' \in Seq(Seq(Nat)) /\ Len(pipe') = Len(pipe)
    /\ DOMAIN procs' \subseteq DOMAIN procs /\ procs' \in [DOMAIN procs' -> Programs]
    /\ \A x \in DOMAIN procs' :
        /\ procs'[x].in = procs[x].in /\ procs'[x].out = procs[x].out
        /\ procs'[x].holds = procs[x].holds /\ procs'[x].filter = procs[x].filter
        /\ procs'[x].for = procs[x].for
    /\ \/ pipe' = pipe
       \/ \E x \in DOMAIN procs, q \in Seq(Seq(Nat)) :
            /\ q = pipe \/ (Available(procs[x].in) /\ q = Take(pipe, procs[x].in))
            /\ ~Full(procs[x].out) /\ pipe' = Put(q, procs[x].out, procs[x].for)

LEMMA ProgramSteps ==
  ASSUME TableInv, NEW x \in DOMAIN procs, Program(x)
  PROVE  ProgramStep
<1>1. /\ procs \in [DOMAIN procs -> Programs] /\ procs[x] \in Programs
      /\ pipe \in Seq(Seq(Nat))
  BY DEF TableInv, Typed
<1>2. /\ procs[x].in \in AnyEnd /\ procs[x].out \in AnyEnd /\ procs[x].for \in Nat
      /\ procs[x].left \in Nat
  BY <1>1 DEF Programs
<1>3. CASE Finish(x)
  BY <1>1, <1>3 DEF Finish, Ended, ProgramStep
<1>4. CASE Produce(x)
  <2>1. /\ pipe' = Put(pipe, procs[x].out, procs[x].for) /\ ShellIdle
        /\ procs' = [procs EXCEPT ![x].left = @ - 1] /\ procs[x].left > 0
        /\ ~Full(procs[x].out)
    BY <1>4 DEF Produce
  <2>2. pipe' \in Seq(Seq(Nat)) /\ Len(pipe') = Len(pipe)
    BY <1>1, <1>2, <2>1, Units
  <2>3. procs[x].left - 1 \in Nat
    BY <1>2, <2>1
  <2>4. procs' = [procs EXCEPT ![x] = [procs[x] EXCEPT !.left = procs[x].left - 1]]
    BY <2>1
  <2>5. [procs[x] EXCEPT !.left = procs[x].left - 1] \in Programs
    BY <1>1, <2>3 DEF Programs
  <2>6. /\ DOMAIN procs' = DOMAIN procs /\ procs' \in [DOMAIN procs' -> Programs]
        /\ \A y \in DOMAIN procs :
            /\ procs'[y].in = procs[y].in /\ procs'[y].out = procs[y].out
            /\ procs'[y].holds = procs[y].holds /\ procs'[y].filter = procs[y].filter
            /\ procs'[y].for = procs[y].for
    BY <1>1, <2>4, <2>5 DEF Programs
  <2>7. QED
    BY <1>1, <2>1, <2>2, <2>6 DEF ProgramStep
<1>5. CASE Copy(x)
  <2> DEFINE q == Take(pipe, procs[x].in)
  <2>1. /\ pipe' = Put(q, procs[x].out, procs[x].for) /\ ShellIdle /\ procs' = procs
        /\ Available(procs[x].in) /\ ~Full(procs[x].out)
    BY <1>5 DEF Copy
  <2>2. q \in Seq(Seq(Nat)) /\ Len(q) = Len(pipe)
    BY <1>1, <1>2, <2>1, Taken DEF Available
  <2> HIDE DEF q
  <2>3. pipe' \in Seq(Seq(Nat)) /\ Len(pipe') = Len(pipe)
    BY <1>2, <2>1, <2>2, Units
  <2>4. \E y \in DOMAIN procs, r \in Seq(Seq(Nat)) :
            /\ r = pipe \/ (Available(procs[y].in) /\ r = Take(pipe, procs[y].in))
            /\ ~Full(procs[y].out) /\ pipe' = Put(r, procs[y].out, procs[y].for)
    BY <2>1, <2>2 DEF q
  <2>5. QED
    BY <1>1, <2>1, <2>3, <2>4 DEF ProgramStep
<1>6. QED
  BY <1>3, <1>4, <1>5 DEF Program

LEMMA ProgramTable ==
  ASSUME TableInv, ProgramStep
  PROVE  TableInv'
<1>1. /\ UNCHANGED <<pc, total, arr, F, cmd, stage, prev>> /\ Len(pipe') = Len(pipe)
      /\ pipe' \in Seq(Seq(Nat)) /\ procs' \in [DOMAIN procs' -> Programs]
  BY DEF ProgramStep, ShellIdle
<1>2. Typed' /\ Obeyed'
  BY <1>1 DEF TableInv, Typed, Obeyed, DueFor
<1>3. PipesApart' /\ TableEnds' /\ PrevOpen'
  BY <1>1 DEF TableInv, PipesApart, TableEnds, PrevOpen
<1>4. Intact'
  BY <1>1 DEF TableInv, Intact, ReadOpen, WriteOpen, WithSimple
<1>5. QED
  BY <1>2, <1>3, <1>4 DEF TableInv

LEMMA TableInit == Init => TableInv
<1> SUFFICES ASSUME Init
             PROVE  TableInv
  OBVIOUS
<1>1. Typed
  BY ShellAssumption, Numbers DEF Init, Typed, NoEnds, Tables
<1>2. TableEnds
  BY Numbers DEF Init, TableEnds
<1>3. QED
  BY <1>1, <1>2 DEF Init, TableInv, Obeyed, PipesApart, Intact, PrevOpen

LEMMA TableNext ==
  ASSUME TableInv, [Next]_vars
  PROVE  TableInv'
<1>1. CASE UNCHANGED vars
  <2>1. UNCHANGED <<pc, total, arr, F, cmd, stage, prev, procs, pipe>>
    BY <1>1 DEF vars
  <2>2. Typed' /\ Obeyed' /\ PipesApart'
    BY <2>1 DEF TableInv, Typed, Obeyed, PipesApart, DueFor
  <2>3. TableEnds' /\ Intact' /\ PrevOpen'
    BY <2>1 DEF TableInv, TableEnds, Intact, ReadOpen, WriteOpen, WithSimple, PrevOpen
  <2>4. QED
    BY <2>2, <2>3 DEF TableInv
<1>2. CASE Shell
  BY <1>2, QuietTable, FirstStep, MiddleStep, LastStep, ReapTable DEF Shell
<1>3. QED
  BY <1>1, <1>2, ReadLineTable, ProgramSteps, ProgramTable DEF Next, Terminated

(* The invariant about the shell's descriptors, for any number of lines. *)
THEOREM TableInvariant == Spec => []TableInv
BY TableInit, TableNext, PTL DEF Spec

(* Numbered pipes that wait for a later line keep both ends, and the next line's
   its read end at least, whatever lines, pipelines and joined pipes come
   between: no close() hits a number that has been given to another pipe. *)
THEOREM PipesStayIntact == Spec => []PendingIntact
<1>1. TableInv => PendingIntact
  BY ArrIs DEF TableInv, Intact, PendingIntact, ReadOpen, WriteOpen
<1>2. QED
  BY <1>1, TableInvariant, PTL
-----------------------------------------------------------------------------
(* What the other invariants need to know of a step. *)

\* The shell closes the write end of no pipe that was made for a line that has
\* been read.
Spares(S) == \A f \in S, h \in DOMAIN arr : F[f] = WrEnd(arr[h].p) => arr[h].dest > total

\* The shell starts program q.
ShellForks(q) ==
    /\ pc = "obey" /\ pc' # "dead" /\ ForkedAs(q)
    /\ UNCHANGED <<total, arr, cmd>>
    /\ \/ pipe' = pipe /\ F' = F
       \/ /\ pipe' = Append(pipe, <<>>)
          /\ \E S \in SUBSET FD :
                CanPipe(F) /\ Spares(S) /\ F' = Close(OpenPipe(F, Len(pipe) + 1), S)
    /\ pc' = "obey" => stage' = stage + 1 /\ pipe' = Append(pipe, <<>>)
    /\ await' \subseteq await \cup DOMAIN procs'

\* The shell starts nothing and makes no pipe.
QuietStep ==
    /\ UNCHANGED <<total, arr, cmd, stage, procs, pipe>> /\ pc' \in {pc, "prompt", "wild", "dead"}
    /\ await' \subseteq await /\ (pc' = "dead" => pc \in {"obey", "dead"})
    /\ \/ F' = F /\ (pc' = "dead" <=> pc = "dead")
       \/ pc' = "dead" /\ F' = [f \in AllFds |-> Closed]
       \/ pc' = "prompt" /\ pc = "wait" /\ cmd.kind = "simple"
          /\ \E S \in SUBSET FD : Spares(S) /\ F' = Close(F, S)

(* The number that the next line's pipe is written with. *)
LEMMA WritesNext ==
  ASSUME TableInv, pc = "obey" \/ WithSimple, NEW h \in DueFor(arr, total + 1)
  PROVE  /\ h \in DOMAIN arr
         /\ \A i \in DOMAIN arr : F[arr[h].w] = WrEnd(arr[i].p) => arr[i].dest > total
<1>1. h \in DOMAIN arr /\ arr[h].dest = total + 1 /\ pc # "dead" /\ total \in Nat
  BY DEF DueFor, TableInv, Typed, WithSimple
<1>2. F[arr[h].w] = WrEnd(arr[h].p)
  BY <1>1 DEF TableInv, Intact, WriteOpen
<1>3. \A i \in DOMAIN arr : arr[h].p = arr[i].p => h = i
  BY <1>1 DEF TableInv, PipesApart
<1>4. QED
  BY <1>1, <1>2, <1>3, Numbers

LEMMA ForkStep ==
  ASSUME TableInv, Redirect \/ Simple \/ FirstStage \/ MiddleStage \/ LastStage
  PROVE  \E q : ShellForks(q)
<1>1. PICK q : ForkedAs(q)
  BY Forks
<1>2. /\ DOMAIN procs' = DOMAIN procs \cup {<<total, stage>>}
      /\ pc = "obey" /\ \A h \in DOMAIN arr : arr[h].r \in FD /\ arr[h].w \in FD
  BY <1>1, StartTyped, ArrIs
     DEF Redirect, Simple, FirstStage, MiddleStage, LastStage, Pipeline
<1>3. /\ stage > 1 => prev.r \in FD /\ F[prev.r] = RdEnd(Len(pipe))
      /\ \A d : DueFor(arr, d) \subseteq DOMAIN arr
  BY <1>2 DEF TableInv, Typed, DueFor, PrevOpen
<1>4. CASE Redirect \/ Simple
  BY <1>1, <1>2, <1>4 DEF Redirect, Simple, ShellForks, AwaitAll
<1>5. CASE FirstStage
  <2> DEFINE S == {NewEnds(F).w} \cup {arr[h].r : h \in DueFor(arr, total)}
  <2>1. CanPipe(F) /\ F' = Close(OpenPipe(F, Len(pipe) + 1), S) /\ pipe' = Append(pipe, <<>>)
    BY <1>5 DEF FirstStage, Pipeline, Fork
  <2>2. S \in SUBSET FD /\ F[NewEnds(F).w] = Closed
    BY <1>2, <1>3, <2>1, NewEndsFree
  <2>3. \A h \in DueFor(arr, total) : F[arr[h].r] = RdEnd(arr[h].p)
    BY <1>2, <1>3, <1>5
       DEF TableInv, Intact, ReadOpen, DueFor, FirstStage, Pipeline
  <2>4. Spares(S)
    BY <2>2, <2>3, Numbers DEF Spares
  <2>5. QED
    BY <1>1, <1>2, <1>5, <2>1, <2>2, <2>4 DEF FirstStage, Fork, ShellForks
<1>6. CASE MiddleStage
  <2> DEFINE S == {prev.r, NewEnds(F).w}
  <2>1. /\ CanPipe(F) /\ F' = Close(OpenPipe(F, Len(pipe) + 1), S)
        /\ pipe' = Append(pipe, <<>>) /\ stage > 1
    BY <1>6, CmdIs DEF MiddleStage, Pipeline, Fork
  <2>2. S \in SUBSET FD /\ F[NewEnds(F).w] = Closed
    BY <1>3, <2>1, NewEndsFree
  <2>3. Spares(S)
    BY <1>3, <2>1, <2>2, Numbers DEF Spares
  <2>4. QED
    BY <1>1, <1>2, <1>6, <2>1, <2>2, <2>3 DEF MiddleStage, Fork, ShellForks
<1>7. CASE LastStage
  <2> DEFINE S == {prev.r} \cup {arr[h].w : h \in DueFor(arr, total + 1)}
  <2>1. /\ CanPipe(F) /\ F' = Close(OpenPipe(F, Len(pipe) + 1), S)
        /\ pipe' = Append(pipe, <<>>) /\ stage > 1 /\ pc' \in {"wait", "prompt"}
        /\ await' \in {{}, {<<total, stage>>}}
    BY <1>7, CmdIs DEF LastStage, Pipeline, Fork
  <2>2. S \in SUBSET FD
    BY <1>2, <1>3, <2>1
  <2>3. \A f \in S : F[f] = RdEnd(Len(pipe)) \/ \E h \in DueFor(arr, total + 1) : f = arr[h].w
    BY <1>3, <2>1
  <2>4. Spares(S)
    BY <1>2, <2>3, WritesNext, Numbers DEF Spares
  <2>5. QED
    BY <1>1, <1>2, <1>7, <2>1, <2>2, <2>4 DEF LastStage, Fork, ShellForks
<1>8. QED
  BY <1>4, <1>5, <1>6, <1>7

LEMMA NextSplit ==
  ASSUME TableInv, [Next]_vars
  PROVE  \/ \E q : ShellForks(q)
         \/ \E c \in Commands : ReadLine(c)
         \/ \E x \in DOMAIN procs : Program(x)
         \/ QuietStep
<1>1. CASE UNCHANGED vars
  BY <1>1 DEF vars, QuietStep
<1>2. CASE Builtin \/ Exit \/ StageFails
  BY <1>2 DEF Builtin, Exit, StageFails, QuietStep
<1>3. CASE Reap
  <2>1. CASE cmd.kind = "simple"
    <3>1. pc = "wait" /\ F' = Close(F, DoneWith) /\ WithSimple
      BY <1>3, <2>1 DEF Reap, WithSimple
    <3>2. \A d : \A h \in DueFor(arr, d) : h \in DOMAIN arr /\ arr[h].dest = d
      BY DEF TableInv, Typed, DueFor
    <3>3. \A h \in DueFor(arr, total) : F[arr[h].r] = RdEnd(arr[h].p)
      BY <3>1, <3>2 DEF TableInv, Intact, ReadOpen
    <3>4. Spares(DoneWith)
      BY <3>1, <3>3, WritesNext, Numbers DEF Spares, DoneWith
    <3>5. DoneWith \in SUBSET FD
      BY <3>2, ArrIs DEF DoneWith
    <3>6. QED
      BY <1>3, <2>1, <3>1, <3>4, <3>5 DEF Reap, QuietStep
  <2>2. CASE cmd.kind # "simple"
    BY <1>3, <2>2 DEF Reap, QuietStep
  <2>3. QED
    BY <2>1, <2>2
<1>4. QED
  BY <1>1, <1>2, <1>3, ForkStep DEF Next, Shell, Terminated

LEMMA NextIs ==
  ASSUME TableInv, [Next]_vars
  PROVE  \/ \E q : ShellForks(q)
         \/ \E c \in Commands : ReadLine(c)
         \/ ProgramStep \/ QuietStep
BY NextSplit, ProgramSteps

-----------------------------------------------------------------------------
(* The programs: what they are connected to, and how they are numbered. *)

\* A program reads the terminal or a pipe, and writes to the terminal or a pipe;
\* all it holds are ends of pipes.
ProgramEnds ==
    \A x \in DOMAIN procs :
        /\ procs[x].in \in {Tty} \cup {RdEnd(p) : p \in 1 .. Len(pipe)}
        /\ procs[x].out \in {Tty} \cup {WrEnd(p) : p \in 1 .. Len(pipe)}
        /\ \A e \in procs[x].holds : \E p \in 1 .. Len(pipe) : e \in {RdEnd(p), WrEnd(p)}
        /\ procs[x].filter => procs[x].in # Tty

\* Programs are of lines that have been read, and of the present one only those
\* that have had their turn.
Numbering ==
    /\ await \subseteq Pids /\ DOMAIN procs \subseteq Pids
    /\ \A x \in DOMAIN procs :
        /\ x[1] <= total
        /\ pc = "obey" /\ x[1] = total => x[2] < stage

Filled == \A p \in 1 .. Len(pipe) : Len(pipe[p]) <= PipeCap
AllClosed == pc = "dead" => \A f \in FD : F[f] = Closed

ProgramInv ==
    /\ ProgramEnds /\ Numbering /\ Filled /\ AllClosed
    /\ ~ClosesNumbered => StagesConnected

LEMMA PidsAre ==
  ASSUME TableInv, Numbering
  PROVE  /\ total \in Nat /\ stage \in Nat
         /\ \A x \in DOMAIN procs : x = <<x[1], x[2]>> /\ x[1] \in Nat /\ x[2] \in Nat
         /\ pc = "obey" => <<total, stage>> \in Pids /\ <<total, stage>> \notin DOMAIN procs
<1>1. total \in 0 .. MaxLines /\ stage \in Nat /\ MaxLines \in Nat
  BY ShellAssumption DEF TableInv, Typed
<1>2. pc = "obey" => total > 0
  BY DEF TableInv, Obeyed
<1>3. \A x \in DOMAIN procs : x \in Pids
  BY DEF Numbering
<1>4. \A x \in Pids : x = <<x[1], x[2]>> /\ x[1] \in Nat /\ x[2] \in Nat
  BY <1>1 DEF Pids
<1>5. ASSUME pc = "obey"
      PROVE  <<total, stage>> \in Pids /\ <<total, stage>> \notin DOMAIN procs
  <2>1. <<total, stage>> \in Pids
    BY <1>1, <1>2, <1>5 DEF Pids
  <2>2. <<total, stage>>[1] = total /\ <<total, stage>>[2] = stage
    OBVIOUS
  <2>3. ~(stage < stage)
    BY <1>1
  <2>4. QED
    BY <1>5, <2>1, <2>2, <2>3 DEF Numbering
<1>6. QED
  BY <1>1, <1>3, <1>4, <1>5

(* What a program that is started has at its ends. *)
LEMMA ForkedEnds ==
  ASSUME TableInv, pc = "obey", NEW q, ForkedAs(q), NEW n \in Nat, Len(pipe) <= n,
         q.out = WrEnd(Len(pipe) + 1) => Len(pipe) + 1 <= n
  PROVE  /\ q.in \in {Tty} \cup {RdEnd(p) : p \in 1 .. Len(pipe)}
         /\ q.out \in {Tty} \cup {WrEnd(p) : p \in 1 .. n}
         /\ \A e \in q.holds : \E p \in 1 .. Len(pipe) : e \in {RdEnd(p), WrEnd(p)}
         /\ \A e \in q.holds : \E f \in FD : F[f] = e
<1>1. Len(pipe) \in Nat /\ pc # "dead" /\ stage \in Nat
  BY DEF TableInv, Typed
<1>2. \A h \in DOMAIN arr : arr[h].p \in 1 .. Len(pipe)
  BY DEF TableInv, PipesApart
<1>3. \A d : DueFor(arr, d) \subseteq DOMAIN arr
  BY DEF TableInv, Typed, DueFor
<1>4. q.in \in {Tty} \cup {RdEnd(p) : p \in 1 .. Len(pipe)}
  <2>1. CASE stage > 1
    <3>1. q.in = RdEnd(Len(pipe)) /\ Len(pipe) > 0
      BY <2>1 DEF ForkedAs, TableInv, PrevOpen
    <3>2. Len(pipe) \in 1 .. Len(pipe)
      BY <1>1, <3>1
    <3>3. QED
      BY <3>1, <3>2
  <2>2. CASE ~(stage > 1)
    BY <1>2, <1>3, <2>2 DEF ForkedAs
  <2>3. QED
    BY <2>1, <2>2
<1>5. q.out \in {Tty} \cup {WrEnd(p) : p \in 1 .. n}
  <2>1. CASE q.out = WrEnd(Len(pipe) + 1)
    <3>1. Len(pipe) + 1 \in 1 .. n
      BY <1>1, <2>1
    <3>2. QED
      BY <2>1, <3>1
  <2>2. CASE \E h \in DOMAIN arr : q.out = WrEnd(arr[h].p)
    <3>1. \A p \in 1 .. Len(pipe) : p \in 1 .. n
      BY <1>1
    <3>2. QED
      BY <1>2, <2>2, <3>1
  <2>3. QED
    BY <1>3, <2>1, <2>2 DEF ForkedAs
<1>6. \A e \in q.holds : \E f \in FD : F[f] = e /\ F[f] # Closed
  BY DEF ForkedAs
<1>7. \A f \in FD : F[f] = Closed \/ \E p \in 1 .. Len(pipe) : F[f] \in {RdEnd(p), WrEnd(p)}
  BY <1>1 DEF TableInv, TableEnds
<1>8. QED
  BY <1>4, <1>5, <1>6, <1>7

(* A step that starts no program keeps what is said of the others. *)
LEMMA OthersKept ==
  ASSUME ProgramInv, DOMAIN procs' \subseteq DOMAIN procs,
         \A x \in DOMAIN procs' :
            /\ procs'[x].in = procs[x].in /\ procs'[x].out = procs[x].out
            /\ procs'[x].holds = procs[x].holds /\ procs'[x].filter = procs[x].filter,
         Len(pipe) \in Nat, Len(pipe') \in Nat, Len(pipe) <= Len(pipe'),
         await' \subseteq await,
         \A x \in DOMAIN procs : x[1] <= total' /\ (pc' = "obey" /\ x[1] = total' => x[2] < stage'),
         \A x \in DOMAIN procs : x[1] = total' => x[1] = total /\ cmd' = cmd
  PROVE  ProgramEnds' /\ Numbering' /\ (~ClosesNumbered => StagesConnected')
<1>1. 1 .. Len(pipe) \subseteq 1 .. Len(pipe')
  OBVIOUS
<1>2. ProgramEnds'
  <2> SUFFICES ASSUME NEW x \in DOMAIN procs'
      PROVE  /\ procs'[x].in \in {Tty} \cup {RdEnd(p) : p \in 1 .. Len(pipe')}
             /\ procs'[x].out \in {Tty} \cup {WrEnd(p) : p \in 1 .. Len(pipe')}
             /\ \A e \in procs'[x].holds : \E p \in 1 .. Len(pipe') : e \in {RdEnd(p), WrEnd(p)}
             /\ procs'[x].filter => procs'[x].in # Tty
    BY DEF ProgramEnds
  <2>1. /\ procs[x].in \in {Tty} \cup {RdEnd(p) : p \in 1 .. Len(pipe)}
        /\ procs[x].out \in {Tty} \cup {WrEnd(p) : p \in 1 .. Len(pipe)}
        /\ \A e \in procs[x].holds : \E p \in 1 .. Len(pipe) : e \in {RdEnd(p), WrEnd(p)}
        /\ procs[x].filter => procs[x].in # Tty
    BY DEF ProgramInv, ProgramEnds
  <2>2. /\ procs'[x].in = procs[x].in /\ procs'[x].out = procs[x].out
        /\ procs'[x].holds = procs[x].holds /\ procs'[x].filter = procs[x].filter
    OBVIOUS
  <2>3. QED
    BY <1>1, <2>1, <2>2
<1>3. Numbering'
  BY DEF ProgramInv, Numbering, Pids
<1>4. ~ClosesNumbered => StagesConnected'
  <2> SUFFICES ASSUME ~ClosesNumbered, NEW x \in DOMAIN procs',
                      \/ <<x[1], x[2] + 1>> \in DOMAIN procs'
                      \/ x[1] = total' /\ x[2] < cmd'.stages
               PROVE  Piped(procs'[x].out)
    BY DEF StagesConnected, Piped
  <2>1. x \in DOMAIN procs /\ procs'[x].out = procs[x].out
    OBVIOUS
  <2>2. \/ <<x[1], x[2] + 1>> \in DOMAIN procs
        \/ x[1] = total /\ x[2] < cmd.stages
    BY <2>1
  <2>3. QED
    BY <2>1, <2>2 DEF ProgramInv, StagesConnected
<1>5. QED
  BY <1>2, <1>3, <1>4

LEMMA EmptyAppended ==
  ASSUME TableInv, Filled, pipe' = Append(pipe, <<>>)
  PROVE  /\ Filled' /\ Len(pipe') = Len(pipe) + 1 /\ Len(pipe) \in Nat
         /\ pipe'[Len(pipe) + 1] = <<>> /\ \A p \in 1 .. Len(pipe) : pipe'[p] = pipe[p]
<1>1. pipe \in Seq(Seq(Nat)) /\ Len(pipe) \in Nat /\ <<>> \in Seq(Nat)
  BY DEF TableInv, Typed
<1>2. /\ Len(pipe') = Len(pipe) + 1 /\ pipe'[Len(pipe) + 1] = <<>>
      /\ \A p \in 1 .. Len(pipe) : pipe'[p] = pipe[p]
  BY <1>1, AppendProperties
<1>3. \A p \in 1 .. Len(pipe') : p \in 1 .. Len(pipe) \/ p = Len(pipe) + 1
  BY <1>1, <1>2
<1>4. Len(<<>>) <= PipeCap
  BY ShellAssumption
<1>5. Filled'
  BY <1>2, <1>3, <1>4 DEF Filled
<1>6. QED
  BY <1>1, <1>2, <1>5

LEMMA ReadLineKeeps ==
  ASSUME TableInv, ProgramInv, NEW c \in Commands, ReadLine(c)
  PROVE  ProgramInv'
<1>1. /\ total' = total + 1 /\ procs' = procs /\ await' = await
      /\ pc' \in {"obey", "wild"} /\ pipe' \in {pipe, Append(pipe, <<>>)}
  BY DEF ReadLine
<1>2. total \in Nat /\ Len(pipe) \in Nat /\ Numbering /\ Filled
  BY PidsAre DEF ProgramInv, TableInv, Typed
<1>3. Filled' /\ Len(pipe') \in Nat /\ Len(pipe) <= Len(pipe')
  BY <1>1, <1>2, EmptyAppended DEF Filled
<1>4. \A x \in DOMAIN procs : x[1] \in Nat /\ x[1] <= total
  BY <1>2, PidsAre DEF Numbering
<1>5. \A x \in DOMAIN procs : x[1] <= total' /\ x[1] # total'
  BY <1>1, <1>2, <1>4
<1>6. ProgramEnds' /\ Numbering' /\ (~ClosesNumbered => StagesConnected')
  BY <1>1, <1>2, <1>3, <1>5, OthersKept
<1>7. AllClosed'
  BY <1>1 DEF AllClosed
<1>8. QED
  BY <1>3, <1>6, <1>7 DEF ProgramInv

LEMMA QuietKeeps ==
  ASSUME TableInv, ProgramInv, QuietStep
  PROVE  ProgramInv'
<1>1. /\ UNCHANGED <<total, cmd, stage, procs, pipe>> /\ await' \subseteq await
      /\ pc' = "obey" => pc = "obey"
  BY DEF QuietStep
<1>2. Len(pipe) \in Nat /\ Len(pipe') \in Nat /\ Len(pipe) <= Len(pipe') /\ Numbering
  BY <1>1 DEF TableInv, Typed, ProgramInv
<1>3. \A x \in DOMAIN procs : x[1] <= total' /\ (pc' = "obey" /\ x[1] = total' => x[2] < stage')
  BY <1>1, <1>2 DEF Numbering
<1>4. ProgramEnds' /\ Numbering' /\ (~ClosesNumbered => StagesConnected')
  BY <1>1, <1>2, <1>3, OthersKept
<1>5. AllClosed'
  BY Numbers DEF ProgramInv, AllClosed, QuietStep
<1>6. QED
  BY <1>1, <1>4, <1>5 DEF ProgramInv, Filled

LEMMA ProgramKeeps ==
  ASSUME TableInv, ProgramInv, ProgramStep
  PROVE  ProgramInv'
<1>1. /\ UNCHANGED <<pc, total, F, cmd, stage, await>> /\ DOMAIN procs' \subseteq DOMAIN procs
      /\ Len(pipe') = Len(pipe) /\ Len(pipe) \in Nat /\ pipe \in Seq(Seq(Nat))
      /\ pipe' \in Seq(Seq(Nat)) /\ Numbering /\ Filled /\ ProgramEnds
  BY DEF ProgramStep, ShellIdle, TableInv, Typed, ProgramInv
<1>2. \A x \in DOMAIN procs : x[1] <= total' /\ (pc' = "obey" /\ x[1] = total' => x[2] < stage')
  BY <1>1 DEF Numbering
<1>3. \A x \in DOMAIN procs' :
        /\ procs'[x].in = procs[x].in /\ procs'[x].out = procs[x].out
        /\ procs'[x].holds = procs[x].holds /\ procs'[x].filter = procs[x].filter
  BY DEF ProgramStep
<1>4. ProgramEnds' /\ Numbering' /\ (~ClosesNumbered => StagesConnected')
  BY <1>1, <1>2, <1>3, OthersKept
<1>5. AllClosed'
  BY <1>1 DEF AllClosed, ProgramInv
<1>6. Filled'
  <2>1. CASE pipe' = pipe
    BY <1>1, <2>1 DEF Filled
  <2>2. ASSUME NEW x \in DOMAIN procs, NEW q \in Seq(Seq(Nat)),
               q = pipe \/ (Available(procs[x].in) /\ q = Take(pipe, procs[x].in)),
               ~Full(procs[x].out), pipe' = Put(q, procs[x].out, procs[x].for)
        PROVE  Filled'
    <3> DEFINE e == procs[x].out
               d == procs[x].in
    <3>1. procs[x] \in Programs /\ e \in AnyEnd /\ d \in AnyEnd /\ procs[x].for \in Nat
      BY DEF TableInv, Typed, Programs
    <3>2. /\ Len(q) = Len(pipe)
          /\ \A p \in 1 .. Len(pipe) :
                q[p] \in Seq(Nat) /\ (q[p] = pipe[p] \/ (pipe[p] # <<>> /\ q[p] = Tail(pipe[p])))
      <4>1. CASE q = pipe
        BY <1>1, <4>1
      <4>2. CASE Available(d) /\ q = Take(pipe, d)
        <5> HIDE DEF d
        <5>1. pipe[d[1]] # <<>>
          BY <4>2 DEF Available
        <5> DEFINE t == Take(pipe, d)
        <5>2. /\ Len(t) = Len(pipe)
              /\ \A p \in 1 .. Len(pipe) : t[p] = IF d[1] = p THEN Tail(pipe[p]) ELSE pipe[p]
          BY <1>1, <3>1, <5>1, Taken
        <5>3. t = q
          BY <4>2
        <5> HIDE DEF t
        <5>4. /\ Len(q) = Len(pipe)
              /\ \A p \in 1 .. Len(pipe) : q[p] = IF d[1] = p THEN Tail(pipe[p]) ELSE pipe[p]
          BY <5>2, <5>3
        <5>5. \A p \in 1 .. Len(q) : q[p] \in Seq(Nat)
          OBVIOUS
        <5>6. QED
          BY <5>1, <5>4, <5>5
      <4>3. QED
        BY <2>2, <4>1, <4>2
    <3>3. \A p \in 1 .. Len(pipe) : Len(q[p]) \in Nat /\ Len(q[p]) <= Len(pipe[p])
      <4> TAKE p \in 1 .. Len(pipe)
      <4>1. pipe[p] \in Seq(Nat) /\ Len(pipe[p]) \in Nat /\ q[p] \in Seq(Nat)
        BY <1>1, <3>2
      <4>2. pipe[p] # <<>> => Len(Tail(pipe[p])) = Len(pipe[p]) - 1
        BY <4>1, HeadTailProperties
      <4>3. q[p] = pipe[p] \/ (pipe[p] # <<>> /\ q[p] = Tail(pipe[p]))
        BY <3>2
      <4>4. Len(q[p]) \in Nat
        BY <4>1
      <4>5. Len(q[p]) = Len(pipe[p]) \/ Len(q[p]) = Len(pipe[p]) - 1
        BY <4>2, <4>3
      <4>6. QED
        BY <4>1, <4>4, <4>5
    <3>4. \A p \in 1 .. Len(pipe) :
            pipe'[p] = IF Piped(e) /\ e[1] = p THEN Append(q[p], procs[x].for) ELSE q[p]
      BY <2>2, <3>1, <3>2, Units
    <3>5. \A p \in 1 .. Len(pipe) : Piped(e) /\ e[1] = p => Len(pipe[p]) < PipeCap
      <4> TAKE p \in 1 .. Len(pipe)
      <4>1. Len(pipe[p]) \in Nat /\ PipeCap \in Nat
        BY <1>1, ShellAssumption
      <4>2. Piped(e) /\ e[1] = p => ~(Len(pipe[p]) >= PipeCap)
        BY <2>2 DEF Full
      <4>3. QED
        BY <4>1, <4>2
    <3> HIDE DEF e, d
    <3>6. ASSUME NEW p \in 1 .. Len(pipe)
          PROVE  Len(pipe'[p]) <= PipeCap
      <4>1. /\ Len(pipe[p]) \in Nat /\ PipeCap \in Nat /\ q[p] \in Seq(Nat)
            /\ Len(pipe[p]) <= PipeCap
        BY <1>1, <3>2, ShellAssumption DEF Filled
      <4>2. Len(Append(q[p], procs[x].for)) = Len(q[p]) + 1
        BY <3>1, <4>1, AppendProperties
      <4>3. CASE Piped(e) /\ e[1] = p
        <5>1. pipe'[p] = Append(q[p], procs[x].for) /\ Len(pipe[p]) < PipeCap
          BY <3>4, <3>5, <4>3
        <5>2. QED
          BY <3>3, <4>1, <4>2, <5>1
      <4>4. CASE ~(Piped(e) /\ e[1] = p)
        <5>1. pipe'[p] = q[p]
          BY <3>4, <4>4
        <5>2. QED
          BY <3>3, <4>1, <5>1
      <4>5. QED
        BY <4>3, <4>4
    <3>7. QED
      BY <1>1, <3>6 DEF Filled
  <2>3. QED
    BY <2>1, <2>2 DEF ProgramStep
<1>7. QED
  BY <1>4, <1>5, <1>6 DEF ProgramInv

LEMMA ForkKeeps ==
  ASSUME TableInv, TableInv', ProgramInv, NEW q, ShellForks(q)
  PROVE  ProgramInv'
<1> DEFINE n == <<total, stage>>
<1>1. /\ pc = "obey" /\ ForkedAs(q) /\ UNCHANGED <<total, cmd>>
      /\ pipe' = pipe \/ pipe' = Append(pipe, <<>>)
      /\ await' \subseteq await \cup DOMAIN procs'
      /\ pc' = "obey" => stage' = stage + 1
  BY DEF ShellForks
<1>2. Numbering /\ Filled /\ ProgramEnds
  BY DEF ProgramInv
<1>3. /\ total \in Nat /\ stage \in Nat /\ n \in Pids /\ n \notin DOMAIN procs
      /\ \A x \in DOMAIN procs : x = <<x[1], x[2]>> /\ x[1] \in Nat /\ x[2] \in Nat
  BY <1>1, <1>2, PidsAre
<1>4. /\ Filled' /\ Len(pipe) \in Nat /\ Len(pipe') \in Nat /\ Len(pipe) <= Len(pipe')
      /\ pipe' = Append(pipe, <<>>) => Len(pipe') = Len(pipe) + 1
  <2>1. Len(pipe) \in Nat
    BY DEF TableInv, Typed
  <2>2. CASE pipe' = Append(pipe, <<>>)
    <3>1. Filled' /\ Len(pipe') = Len(pipe) + 1
      BY <1>2, <2>2, EmptyAppended
    <3>2. QED
      BY <2>1, <3>1
  <2>3. CASE pipe' # Append(pipe, <<>>)
    <3>1. pipe' = pipe
      BY <1>1, <2>3
    <3>2. QED
      BY <1>2, <2>1, <2>3, <3>1 DEF Filled
  <2>4. QED
    BY <2>2, <2>3
<1>5. /\ DOMAIN procs' = DOMAIN procs \cup {n} /\ procs'[n] = q
      /\ \A x \in DOMAIN procs : procs'[x] = procs[x]
  BY <1>1, <1>3, StartTyped
<1>6. AllClosed'
  BY DEF ShellForks, AllClosed
<1>7. Numbering'
  <2>1. await' \subseteq Pids /\ DOMAIN procs' \subseteq Pids
    BY <1>1, <1>2, <1>3, <1>5 DEF Numbering
  <2>2. \A x \in DOMAIN procs : x[1] <= total /\ (x[1] = total => x[2] < stage)
    BY <1>1, <1>2 DEF Numbering
  <2>3. n[1] = total /\ n[2] = stage
    OBVIOUS
  <2> HIDE DEF n
  <2>4. ASSUME NEW x \in DOMAIN procs'
        PROVE  x[1] <= total' /\ (pc' = "obey" /\ x[1] = total' => x[2] < stage')
    <3>1. CASE x = n
      BY <1>1, <1>3, <2>3, <3>1
    <3>2. CASE x \in DOMAIN procs
      BY <1>1, <1>3, <2>2, <3>2
    <3>3. QED
      BY <1>5, <3>1, <3>2
  <2>5. QED
    BY <2>1, <2>4 DEF Numbering
<1>8. q.out = WrEnd(Len(pipe) + 1) => pipe' = Append(pipe, <<>>)
  <2>1. Tty # WrEnd(Len(pipe) + 1)
    BY Numbers
  <2>2. \A h \in DOMAIN arr : arr[h].p \in 1 .. Len(pipe)
    BY DEF TableInv, PipesApart
  <2>3. \A h \in DueFor(arr, total + cmd.num) : h \in DOMAIN arr
    BY DEF TableInv, Typed, DueFor
  <2>4. \A h \in DueFor(arr, total + cmd.num) : arr[h].p # Len(pipe) + 1
    BY <1>4, <2>2, <2>3
  <2>5. \A h \in DueFor(arr, total + cmd.num) : WrEnd(arr[h].p) # WrEnd(Len(pipe) + 1)
    BY <2>4 DEF WrEnd
  <2>6. QED
    BY <1>1, <2>1, <2>5 DEF ForkedAs
<1>9. ProgramEnds'
  <2>1. 1 .. Len(pipe) \subseteq 1 .. Len(pipe')
    BY <1>4
  <2>2. /\ q.in \in {Tty} \cup {RdEnd(p) : p \in 1 .. Len(pipe)}
        /\ q.out \in {Tty} \cup {WrEnd(p) : p \in 1 .. Len(pipe')}
        /\ \A e \in q.holds : \E p \in 1 .. Len(pipe) : e \in {RdEnd(p), WrEnd(p)}
    BY <1>1, <1>4, <1>8, ForkedEnds
  <2>3. q.filter => q.in # Tty
    BY <1>1 DEF ForkedAs
  <2>4. ASSUME NEW x \in DOMAIN procs'
        PROVE  /\ procs'[x].in \in {Tty} \cup {RdEnd(p) : p \in 1 .. Len(pipe')}
               /\ procs'[x].out \in {Tty} \cup {WrEnd(p) : p \in 1 .. Len(pipe')}
               /\ \A e \in procs'[x].holds : \E p \in 1 .. Len(pipe') : e \in {RdEnd(p), WrEnd(p)}
               /\ procs'[x].filter => procs'[x].in # Tty
    <3>1. CASE x = n
      BY <1>5, <2>1, <2>2, <2>3, <3>1
    <3>2. CASE x \in DOMAIN procs
      <4>1. /\ procs[x].in \in {Tty} \cup {RdEnd(p) : p \in 1 .. Len(pipe)}
            /\ procs[x].out \in {Tty} \cup {WrEnd(p) : p \in 1 .. Len(pipe)}
            /\ \A e \in procs[x].holds : \E p \in 1 .. Len(pipe) : e \in {RdEnd(p), WrEnd(p)}
            /\ procs[x].filter => procs[x].in # Tty
        BY <1>2, <3>2 DEF ProgramEnds
      <4>2. procs'[x] = procs[x]
        BY <1>5, <3>2
      <4>3. QED
        BY <2>1, <4>1, <4>2
    <3>3. QED
      BY <1>5, <3>1, <3>2
  <2>5. QED
    BY <2>4 DEF ProgramEnds
<1>10. ASSUME ~ClosesNumbered
       PROVE  StagesConnected'
  <2>1. \A x \in DOMAIN procs : x[1] <= total /\ (x[1] = total => x[2] < stage)
    BY <1>1, <1>2 DEF Numbering
  <2>2. cmd.stages \in Nat /\ stage <= cmd.stages
    BY <1>1, CmdIs
  <2>3. ASSUME NEW x \in DOMAIN procs',
               <<x[1], x[2] + 1>> \in DOMAIN procs' \/ (x[1] = total /\ x[2] < cmd.stages)
        PROVE  Piped(procs'[x].out)
    <3>1. CASE x = n
      <4>1. n[1] = total /\ n[2] = stage
        OBVIOUS
      <4>2. <<total, stage + 1>> \notin DOMAIN procs
      <5>1. <<total, stage + 1>>[1] = total /\ <<total, stage + 1>>[2] = stage + 1
          OBVIOUS
      <5>2. ~(stage + 1 < stage)
          BY <1>3
      <5>3. QED
          BY <2>1, <5>1, <5>2
      <4>3. <<total, stage + 1>> # n
        BY <1>3
      <4>4. stage < cmd.stages
        BY <1>5, <2>3, <3>1, <4>1, <4>2, <4>3
      <4>5. q.out # Tty
        BY <1>1, <1>10, <4>4 DEF ForkedAs
      <4>6. q.out # Closed
        BY <1>1, Numbers DEF ForkedAs
      <4>7. QED
        BY <1>5, <3>1, <4>5, <4>6 DEF Piped
    <3>2. CASE x \in DOMAIN procs
      <4>1. <<x[1], x[2] + 1>> \in DOMAIN procs \/ (x[1] = total /\ x[2] < cmd.stages)
        <5>1. CASE <<x[1], x[2] + 1>> = n
          <6>1. x[1] = total /\ x[2] + 1 = stage /\ x[2] \in Nat
            BY <1>3, <3>2, <5>1
          <6>2. x[2] < cmd.stages
            BY <1>3, <2>2, <6>1
          <6>3. QED
            BY <6>1, <6>2
        <5>2. QED
          BY <1>5, <2>3, <5>1
      <4>2. procs'[x] = procs[x]
        BY <1>5, <3>2
      <4>3. QED
        BY <1>10, <3>2, <4>1, <4>2 DEF ProgramInv, StagesConnected
    <3>3. QED
      BY <1>5, <3>1, <3>2
  <2>4. QED
    BY <1>1, <2>3 DEF StagesConnected, Piped
<1>11. QED
  BY <1>4, <1>6, <1>7, <1>9, <1>10 DEF ProgramInv

LEMMA ProgramNext ==
  ASSUME TableInv, TableInv', ProgramInv, [Next]_vars
  PROVE  ProgramInv'
BY NextIs, ForkKeeps, ReadLineKeeps, ProgramKeeps, QuietKeeps

LEMMA ProgramInit == Init => ProgramInv
BY DEF Init, ProgramInv, ProgramEnds, Numbering, Filled, AllClosed, StagesConnected

(* The invariant about the programs, for any number of lines and programs. *)
THEOREM ProgramInvariant == Spec => []ProgramInv
BY TableInvariant, ProgramInit, ProgramNext, PTL DEF Spec

(* Types; no pipe holds more than it can; a line has one numbered pipe at most. *)
THEOREM TypeCorrect == Spec => []TypeOK
<1>1. TableInv /\ ProgramInv => TypeOK
  <2> SUFFICES ASSUME TableInv, ProgramInv
               PROVE  TypeOK
    OBVIOUS
  <2>1. \A f \in FD : F[f] = Closed \/ F[f][1] \in DOMAIN pipe
    <3>1. DOMAIN pipe = 1 .. Len(pipe)
      BY DEF TableInv, Typed
    <3>2. \A f \in FD : F[f] = Closed \/ \E p \in 1 .. Len(pipe) : F[f] \in {RdEnd(p), WrEnd(p)}
      BY DEF TableInv, TableEnds, ProgramInv, AllClosed
    <3>3. QED
      BY <3>1, <3>2, Numbers
  <2>2. \A p \in DOMAIN pipe : Len(pipe[p]) <= PipeCap
    <3>1. DOMAIN pipe = 1 .. Len(pipe)
      BY DEF TableInv, Typed
    <3>2. QED
      BY <3>1 DEF ProgramInv, Filled
  <2>3. \A h \in DOMAIN arr : Both(arr[h]) \subseteq FD /\ DueFor(arr, arr[h].dest) = {h}
    <3>1. \A h \in DOMAIN arr : Both(arr[h]) \subseteq FD
      BY ArrIs DEF Both
    <3>2. \A h \in DOMAIN arr : h \in DueFor(arr, arr[h].dest)
      BY DEF DueFor, TableInv, Typed
    <3>3. QED
      BY <3>1, <3>2, DueOne
  <2>4. QED
    BY <2>1, <2>2, <2>3 DEF TypeOK, TableInv, Typed, ProgramInv, Numbering
<1>2. QED
  BY <1>1, TableInvariant, ProgramInvariant, PTL

(* In shell1.h, all programs of a pipeline but the last write into a pipe: dup2
   finds the number open, whatever the shell has closed before. *)
THEOREM Connected ==
  ASSUME ~ClosesNumbered
  PROVE  Spec => []StagesConnected
<1>1. ProgramInv => StagesConnected
  BY DEF ProgramInv
<1>2. QED
  BY <1>1, ProgramInvariant, PTL

-----------------------------------------------------------------------------
(* Why the shell waits. *)

\* The shell holds the write end of pipe p, which was made for a line that has
\* been read by now.
Late(p) == \E h \in DOMAIN arr :
    arr[h].p = p /\ arr[h].dest <= total /\ F[arr[h].w] = WrEnd(p)

Before(y, x) == y[1] < x[1] \/ (y[1] = x[1] /\ y[2] < x[2])

\* Only programs that were started earlier hold the write end of a program's
\* input, and not the shell, unless the pipe is late.
OnlyEarlier(x, p) ==
    /\ \A f \in FD : F[f] # WrEnd(p)
    /\ \A y \in DOMAIN procs : WrEnd(p) \in OpenAt(procs[y]) => Before(y, x)
Waiting ==
    pc # "dead" => \A x \in DOMAIN procs, p \in 1 .. Len(pipe) :
        procs[x].in = RdEnd(p) => Late(p) \/ OnlyEarlier(x, p)

(* The table after a pipe is made and some numbers are closed. *)
LEMMA TableAfter ==
  ASSUME TableInv, CanPipe(F), NEW S \in SUBSET FD,
         F' = Close(OpenPipe(F, Len(pipe) + 1), S)
  PROVE  \A f \in FD :
            /\ F'[f] \in {F[f], Closed, RdEnd(Len(pipe) + 1), WrEnd(Len(pipe) + 1)}
            /\ F[f] # Closed /\ f \notin S => F'[f] = F[f]
<1> DEFINE n == Len(pipe) + 1
           T == OpenPipe(F, n)
<1>1. Len(pipe) \in Nat /\ n \in Nat
  BY DEF TableInv, Typed
<1>2. /\ T[NewEnds(F).r] = RdEnd(n) /\ T[NewEnds(F).w] = WrEnd(n)
      /\ F[NewEnds(F).r] = Closed /\ F[NewEnds(F).w] = Closed
      /\ \A f \in AllFds \ {NewEnds(F).r, NewEnds(F).w} : T[f] = F[f]
  BY <1>1, OpenedPipe
<1> HIDE DEF T
<1>3. \A f \in FD : F'[f] = IF f \in S THEN Closed ELSE T[f]
  BY Numbers DEF T, Close
<1>4. QED
  BY <1>2, <1>3, Numbers

(* What the shell closes, it closes no late pipe with. *)
LEMMA LateStays ==
  ASSUME TableInv, NEW p, Late(p), total' \in Nat, total <= total',
         \A h \in DOMAIN arr : h \in DOMAIN arr' /\ arr'[h] = arr[h],
         \A h \in DOMAIN arr : F[arr[h].w] = WrEnd(arr[h].p) /\ arr[h].dest <= total
                                    => F'[arr[h].w] = F[arr[h].w]
  PROVE  Late(p)'
<1>1. PICK h \in DOMAIN arr : arr[h].p = p /\ arr[h].dest <= total /\ F[arr[h].w] = WrEnd(p)
  BY DEF Late
<1>2. arr[h].dest \in Nat /\ total \in Nat
  BY ArrIs DEF TableInv, Typed
<1>3. arr[h].dest <= total'
  BY <1>1, <1>2
<1>4. QED
  BY <1>1, <1>3 DEF Late
(* A step that starts no program. *)
LEMMA OthersWait ==
  ASSUME TableInv, ProgramInv, Waiting, pc # "dead", total' \in Nat, total <= total',
         DOMAIN procs' \subseteq DOMAIN procs,
         \A x \in DOMAIN procs' :
            /\ procs'[x].in = procs[x].in /\ procs'[x].out = procs[x].out
            /\ procs'[x].holds = procs[x].holds,
         \A h \in DOMAIN arr : h \in DOMAIN arr' /\ arr'[h] = arr[h],
         \A h \in DOMAIN arr : F[arr[h].w] = WrEnd(arr[h].p) /\ arr[h].dest <= total
                                    => F'[arr[h].w] = F[arr[h].w],
         \A f \in FD : F'[f] \in {F[f], Closed, RdEnd(Len(pipe) + 1), WrEnd(Len(pipe) + 1)}
  PROVE  Waiting'
<1> SUFFICES ASSUME NEW x \in DOMAIN procs', NEW p, procs'[x].in = RdEnd(p)
             PROVE  Late(p)' \/ OnlyEarlier(x, p)'
  BY DEF Waiting
<1>1. x \in DOMAIN procs /\ procs[x].in = RdEnd(p)
  OBVIOUS
<1>2. p \in 1 .. Len(pipe) /\ Len(pipe) \in Nat
  BY <1>1, Numbers DEF ProgramInv, ProgramEnds, TableInv, Typed
<1>3. p # Len(pipe) + 1
  BY <1>2
<1>4. Late(p) => Late(p)'
  BY LateStays
<1>5. ASSUME OnlyEarlier(x, p)
      PROVE  OnlyEarlier(x, p)'
  <2>1. \A f \in FD : F'[f] # WrEnd(p)
    BY <1>3, <1>5, Numbers DEF OnlyEarlier
  <2>2. \A y \in DOMAIN procs' : WrEnd(p) \in {procs'[y].in, procs'[y].out} \cup procs'[y].holds
                                    => Before(y, x)
    BY <1>5 DEF OnlyEarlier, OpenAt
  <2>3. QED
    BY <2>1, <2>2 DEF OnlyEarlier, OpenAt
<1>6. QED
  BY <1>1, <1>2, <1>4, <1>5 DEF Waiting

LEMMA ReadLineWaits ==
  ASSUME TableInv, ProgramInv, Waiting, NEW c \in Commands, ReadLine(c)
  PROVE  Waiting'
<1>1. /\ pc = "prompt" /\ total' = total + 1 /\ procs' = procs /\ total \in Nat
      /\ arr \in Seq([dest : Nat, r : FD, w : FD, p : Nat])
  BY DEF ReadLine, TableInv, Typed
<1>2. CASE arr' = arr /\ F' = F
  BY <1>1, <1>2, OthersWait
<1>3. CASE ~(arr' = arr /\ F' = F)
  <2> DEFINE n == Len(pipe) + 1
             e == [dest |-> total + 1 + c.num, r |-> NewEnds(F).r, w |-> NewEnds(F).w, p |-> n]
  <2>1. CanPipe(F) /\ arr' = Append(arr, e) /\ F' = OpenPipe(F, n)
    BY <1>3 DEF ReadLine
  <2>2. Close(OpenPipe(F, n), {}) = OpenPipe(F, n)
    BY <2>1 DEF Close, OpenPipe, TableInv, Typed, Tables
  <2>3. \A f \in FD : /\ F'[f] \in {F[f], Closed, RdEnd(n), WrEnd(n)}
                      /\ F[f] # Closed => F'[f] = F[f]
    BY <2>1, <2>2, TableAfter
  <2> HIDE DEF e, n
  <2>4. \A h \in DOMAIN arr : h \in DOMAIN arr' /\ arr'[h] = arr[h]
    BY <1>1, <2>1
  <2>5. \A h \in DOMAIN arr : F[arr[h].w] = WrEnd(arr[h].p) => F'[arr[h].w] = F[arr[h].w]
    BY <2>3, ArrIs, Numbers
  <2>6. QED
    BY <1>1, <2>3, <2>4, <2>5, OthersWait DEF n
<1>4. QED
  BY <1>2, <1>3

LEMMA QuietWaits ==
  ASSUME TableInv, ProgramInv, Waiting, QuietStep
  PROVE  Waiting'
<1>1. UNCHANGED <<total, arr, procs>> /\ total \in Nat
  BY DEF QuietStep, TableInv, Typed
<1>2. CASE pc' = "dead"
  BY <1>2 DEF Waiting
<1>3. CASE pc' # "dead" /\ F' = F
  <2>1. pc # "dead"
    BY <1>3 DEF QuietStep, ProgramInv, AllClosed
  <2>2. QED
    BY <1>1, <1>3, <2>1, OthersWait
<1>4. ASSUME pc = "wait", NEW S \in SUBSET FD, Spares(S), F' = Close(F, S)
      PROVE  Waiting'
  <2>1. \A f \in FD : F'[f] = IF f \in S THEN Closed ELSE F[f]
    BY <1>4, Numbers DEF Close
  <2>2. \A h \in DOMAIN arr : F[arr[h].w] = WrEnd(arr[h].p) /\ arr[h].dest <= total
                                => F'[arr[h].w] = F[arr[h].w]
    <3> TAKE h \in DOMAIN arr
    <3>1. arr[h].w \in FD /\ arr[h].dest \in Nat
      BY ArrIs
    <3>2. QED
      BY <1>1, <1>4, <2>1, <3>1 DEF Spares
  <2>3. QED
    BY <1>1, <1>4, <2>1, <2>2, OthersWait
<1>5. QED
  BY <1>2, <1>3, <1>4 DEF QuietStep

LEMMA ProgramWaits ==
  ASSUME TableInv, ProgramInv, Waiting, ProgramStep
  PROVE  Waiting'
<1>1. UNCHANGED <<pc, total, arr, F>> /\ total \in Nat
  BY DEF ProgramStep, ShellIdle, TableInv, Typed
<1>2. /\ DOMAIN procs' \subseteq DOMAIN procs
      /\ \A x \in DOMAIN procs' :
            /\ procs'[x].in = procs[x].in /\ procs'[x].out = procs[x].out
            /\ procs'[x].holds = procs[x].holds
  BY DEF ProgramStep
<1>3. QED
  BY <1>1, <1>2, OthersWait DEF Waiting

(* A program that is started writes to no old pipe that the shell does not
   hold the write end of. *)
LEMMA WritesElsewhere ==
  ASSUME TableInv, pc = "obey", NEW q, ForkedAs(q), NEW p \in 1 .. Len(pipe),
         \A f \in FD : F[f] # WrEnd(p)
  PROVE  WrEnd(p) \notin OpenAt(q)
<1>1. Len(pipe) \in Nat /\ p # Len(pipe) + 1 /\ total \in Nat /\ cmd.num \in Nat
  BY CmdIs DEF TableInv, Typed
<1>2. q.in # WrEnd(p) /\ WrEnd(p) \notin q.holds
  BY ForkedEnds, Numbers, <1>1 DEF ForkedAs
<1>3. ASSUME NEW h \in DueFor(arr, total + cmd.num), cmd.num > 0
      PROVE  WrEnd(arr[h].p) # WrEnd(p)
  <2>1. h \in DOMAIN arr /\ arr[h].dest = total + cmd.num /\ arr[h].w \in FD
    BY <1>3, DueOne, ArrIs
  <2>2. WriteOpen(arr[h].dest)
    BY <1>1, <1>3, <2>1 DEF WriteOpen
  <2>3. F[arr[h].w] = WrEnd(arr[h].p)
    BY <2>1, <2>2 DEF TableInv, Intact
  <2>4. QED
    BY <2>1, <2>3
<1>4. q.out # WrEnd(p)
  BY <1>1, <1>3, Numbers DEF ForkedAs
<1>5. QED
  BY <1>2, <1>4 DEF OpenAt

LEMMA ForkWaits ==
  ASSUME TableInv, ProgramInv, Waiting, NEW q, ShellForks(q)
  PROVE  Waiting'
<1> DEFINE n == Len(pipe) + 1
           None(p) == \A f \in FD : F[f] # WrEnd(p)
<1> PICK x : x = <<total, stage>>
  OBVIOUS
<1>1. /\ pc = "obey" /\ ForkedAs(q) /\ UNCHANGED <<total, arr>>
      /\ Len(pipe) \in Nat /\ total \in Nat /\ stage \in Nat
  BY DEF ShellForks, TableInv, Typed
<1>2. /\ DOMAIN procs' = DOMAIN procs \cup {x} /\ procs'[x] = q
      /\ x \notin DOMAIN procs /\ \A y \in DOMAIN procs : procs'[y] = procs[y]
  <2>1. x \notin DOMAIN procs
    BY <1>1, PidsAre DEF ProgramInv
  <2>2. QED
    BY <1>1, <2>1, StartTyped
<1>3. \A y \in DOMAIN procs : Before(y, x)
  <2>1. x[1] = total /\ x[2] = stage
    OBVIOUS
  <2>2. \A y \in DOMAIN procs : y[1] \in Nat
    BY PidsAre DEF ProgramInv
  <2>3. \A y \in DOMAIN procs : y[1] <= total /\ (y[1] = total => y[2] < stage)
    BY <1>1 DEF ProgramInv, Numbering
  <2>4. QED
    BY <1>1, <2>1, <2>2, <2>3 DEF Before
<1>4. \A h \in DOMAIN arr : arr[h].w \in FD /\ arr[h].dest \in Nat /\ arr[h].p \in 1 .. Len(pipe)
  BY ArrIs DEF TableInv, PipesApart
<1>5. /\ \A f \in FD : F'[f] \in {F[f], Closed, RdEnd(n), WrEnd(n)}
      /\ \A h \in DOMAIN arr : F[arr[h].w] = WrEnd(arr[h].p) /\ arr[h].dest <= total
                                    => F'[arr[h].w] = F[arr[h].w]
  <2>1. CASE F' = F
    BY <2>1
  <2>2. ASSUME NEW S \in SUBSET FD, CanPipe(F), Spares(S), F' = Close(OpenPipe(F, n), S)
        PROVE  /\ \A f \in FD : F'[f] \in {F[f], Closed, RdEnd(n), WrEnd(n)}
               /\ \A h \in DOMAIN arr : F[arr[h].w] = WrEnd(arr[h].p) /\ arr[h].dest <= total
                                            => F'[arr[h].w] = F[arr[h].w]
    <3>1. \A f \in FD : /\ F'[f] \in {F[f], Closed, RdEnd(n), WrEnd(n)}
                        /\ F[f] # Closed /\ f \notin S => F'[f] = F[f]
      BY <2>2, TableAfter
    <3>2. ASSUME NEW h \in DOMAIN arr, F[arr[h].w] = WrEnd(arr[h].p), arr[h].dest <= total
          PROVE  F'[arr[h].w] = F[arr[h].w]
      <4>1. arr[h].w \notin S
        BY <1>1, <1>4, <2>2, <3>2 DEF Spares
      <4>2. QED
        BY <1>4, <3>1, <3>2, <4>1, Numbers
    <3>3. QED
      BY <3>1, <3>2
  <2>3. QED
    BY <2>1, <2>2 DEF ShellForks
<1>6. \A p : Late(p) => Late(p)'
  <2> TAKE p
  <2>1. /\ total' \in Nat /\ total <= total'
        /\ \A h \in DOMAIN arr : h \in DOMAIN arr' /\ arr'[h] = arr[h]
    BY <1>1
  <2>2. QED
    BY <1>5, <2>1, LateStays
<1>7. ASSUME NEW y, NEW p \in 1 .. Len(pipe), None(p),
             \A z \in DOMAIN procs : WrEnd(p) \in OpenAt(procs[z]) => Before(z, y)
      PROVE  OnlyEarlier(y, p)'
  <2>1. p # n
    BY <1>1
  <2>2. \A f \in FD : F'[f] # WrEnd(p)
    BY <1>5, <1>7, <2>1, Numbers
  <2>3. WrEnd(p) \notin OpenAt(q)
    BY <1>1, <1>7, WritesElsewhere
  <2>4. \A z \in DOMAIN procs' : WrEnd(p) \in OpenAt(procs'[z]) => Before(z, y)
    BY <1>2, <1>7, <2>3
  <2>5. QED
    BY <2>2, <2>4 DEF OnlyEarlier, OpenAt
<1>8. ASSUME NEW p, q.in = RdEnd(p)
      PROVE  p \in 1 .. Len(pipe) /\ (Late(p)' \/ OnlyEarlier(x, p)')
  <2>1. p \in 1 .. Len(pipe)
    <3>1. n \in Nat /\ Len(pipe) <= n /\ n <= n
      BY <1>1
    <3>2. q.in \in {Tty} \cup {RdEnd(i) : i \in 1 .. Len(pipe)}
      BY <1>1, <3>1, ForkedEnds
    <3>3. QED
      BY <1>8, <3>2, Numbers
  <2>2. None(p) \/ Late(p)
    <3>1. CASE stage > 1
      <4>1. q.in = RdEnd(Len(pipe)) /\ p = Len(pipe)
        BY <1>1, <1>8, <3>1, Numbers DEF ForkedAs
      <4>2. QED
        BY <1>1, <3>1, <4>1 DEF TableInv, PrevOpen
    <3>2. CASE ~(stage > 1)
      <4>1. PICK h \in DueFor(arr, total) : q.in = RdEnd(arr[h].p)
        BY <1>1, <1>8, <3>2, Numbers DEF ForkedAs
      <4>2. arr[h].p = p
        BY <1>8, <4>1, Numbers
      <4>3. h \in DOMAIN arr /\ arr[h].dest = total
        BY DueOne
      <4>4. None(p) \/ F[arr[h].w] = WrEnd(p)
        BY <1>1, <4>2, <4>3 DEF TableInv, TableEnds
      <4>5. QED
        BY <1>1, <4>2, <4>3, <4>4 DEF Late
    <3>3. QED
      BY <3>1, <3>2
  <2>3. QED
    BY <1>3, <1>6, <1>7, <2>1, <2>2
<1>9. ASSUME NEW y \in DOMAIN procs, NEW p, procs[y].in = RdEnd(p)
      PROVE  p \in 1 .. Len(pipe) /\ (Late(p)' \/ OnlyEarlier(y, p)')
  <2>1. p \in 1 .. Len(pipe)
    BY <1>9, Numbers DEF ProgramInv, ProgramEnds
  <2>2. Late(p) \/ OnlyEarlier(y, p)
    BY <1>1, <1>9, <2>1 DEF Waiting
  <2>3. OnlyEarlier(y, p) => OnlyEarlier(y, p)'
    BY <1>7, <2>1 DEF OnlyEarlier
  <2>4. QED
    BY <1>6, <2>1, <2>2, <2>3
<1>10. ASSUME NEW y \in DOMAIN procs', NEW p, procs'[y].in = RdEnd(p)
       PROVE  Late(p)' \/ OnlyEarlier(y, p)'
  <2>1. CASE y = x
    BY <1>2, <1>8, <1>10, <2>1
  <2>2. CASE y \in DOMAIN procs
    BY <1>2, <1>9, <1>10, <2>2
  <2>3. QED
    BY <1>2, <2>1, <2>2
<1>11. QED
  BY <1>10 DEF Waiting

LEMMA WaitingNext ==
  ASSUME TableInv, ProgramInv, Waiting, [Next]_vars
  PROVE  Waiting'
BY NextIs, ForkWaits, ReadLineWaits, ProgramWaits, QuietWaits

THEOREM WaitingInvariant == Spec => []Waiting
<1>1. Init => Waiting
  BY DEF Init, Waiting
<1>2. QED
  BY <1>1, TableInvariant, ProgramInvariant, WaitingNext, PTL DEF Spec

(* The first of the programs: the others were started later. *)
LEMMA FirstProgram ==
  ASSUME TableInv, ProgramInv, NEW S \in SUBSET DOMAIN procs, S # {}
  PROVE  \E x \in S : \A y \in S : ~Before(y, x)
<1> DEFINE Lines == {x[1] : x \in S}
           a == Least(Lines)
           Places == {x[2] : x \in {y \in S : y[1] = a}}
           b == Least(Places)
<1>1. \A x \in S : x[1] \in Nat /\ x[2] \in Nat
  BY PidsAre DEF ProgramInv
<1>2. a \in Lines /\ \A c \in Lines : a <= c
  <2>1. Lines \in SUBSET Nat /\ Lines # {}
    BY <1>1
  <2> HIDE DEF Lines
  <2>2. QED
    BY <2>1, LeastIn
<1> HIDE DEF a
<1>3. b \in Places /\ \A c \in Places : b <= c
  <2>1. Places \in SUBSET Nat /\ Places # {}
    BY <1>1, <1>2
  <2> HIDE DEF Places
  <2>2. QED
    BY <2>1, LeastIn
<1> HIDE DEF b
<1>4. PICK x \in S : x[1] = a /\ x[2] = b
  BY <1>3
<1>5. ASSUME NEW y \in S
      PROVE  ~Before(y, x)
  <2>1. a <= y[1] /\ (y[1] = a => b <= y[2])
    BY <1>2, <1>3
  <2>2. a \in Nat /\ b \in Nat /\ y[1] \in Nat /\ y[2] \in Nat
    BY <1>1, <1>4
  <2>3. QED
    BY <1>4, <2>1, <2>2 DEF Before
<1>6. QED
  BY <1>4, <1>5

(* The shell waits for ever only if a program has filled a pipe that nobody
   empties, or the shell itself holds the write end of a pipe that was due: the
   programs cannot wait for each other's data in a circle. *)
THEOREM Explained == Spec => []HangIsExplained
<1>1. ASSUME TableInv, ProgramInv, Waiting
      PROVE  HangIsExplained
  <2> SUFFICES ASSUME Hung, \A x \in DOMAIN procs : ~Full(procs[x].out), \A p : ~Late(p)
               PROVE  FALSE
    BY DEF HangIsExplained, Late
  <2>1. DOMAIN procs # {} /\ pc # "dead" /\ \A x \in DOMAIN procs : Blocked(procs[x])
    BY DEF Hung
  <2>2. PICK x \in DOMAIN procs : \A y \in DOMAIN procs : ~Before(y, x)
    BY <1>1, <2>1, FirstProgram
  <2> DEFINE q == procs[x]
  <2>3. /\ q.in \in {Tty} \cup {RdEnd(p) : p \in 1 .. Len(pipe)} /\ (q.filter => q.in # Tty)
        /\ Blocked(q) /\ ~Full(q.out)
    BY <1>1, <2>1 DEF ProgramInv, ProgramEnds
  <2> HIDE DEF q
  <2>4. q.filter /\ ~AtEnd(q.in) /\ ~Available(q.in)
    BY <2>3 DEF Blocked
  <2>5. PICK p \in 1 .. Len(pipe) : q.in = RdEnd(p)
    BY <2>3, <2>4
  <2>6. OnlyEarlier(x, p)
    BY <1>1, <2>1, <2>5 DEF Waiting, q
  <2>7. ~IsOpen(WrEnd(p))
    BY <2>2, <2>6 DEF IsOpen, OnlyEarlier
  <2>8. Piped(q.in) /\ q.in[1] = p
    BY <2>5, Numbers DEF Piped
  <2>9. QED
    BY <2>4, <2>7, <2>8 DEF AtEnd, Available
<1>2. QED
  BY <1>1, TableInvariant, ProgramInvariant, WaitingInvariant, PTL

-----------------------------------------------------------------------------
(* Whose data a pipe carries. *)

\* Each pipe carries what one program reads, at address own[p], and no other
\* pipe does: those who wait for it, what is in it, the program that reads it
\* and those that write to it agree on that address.  A pipe for the first
\* program of a line is a numbered one; others are for programs of lines that
\* have been obeyed so far.
Reached(a) ==
    IF a[2] = 1 THEN \E h \in DOMAIN arr : arr[h].dest = a[1]
    ELSE a[1] < total \/ (a[1] = total /\ (pc = "obey" => a[2] <= stage))
Owns(own) ==
    /\ own \in [1 .. Len(pipe) -> Nat \X Nat]
    /\ \A p, r \in 1 .. Len(pipe) : own[p] = own[r] => p = r
    /\ \A p \in 1 .. Len(pipe) : Reached(own[p])
    /\ \A h \in DOMAIN arr : own[arr[h].p] = <<arr[h].dest, 1>>
    /\ pc = "obey" /\ stage > 1 => own[Len(pipe)] = <<total, stage>>
    /\ \A p \in 1 .. Len(pipe) : \A i \in DOMAIN pipe[p] : pipe[p][i] = own[p][1]
    /\ \A x \in DOMAIN procs, p \in 1 .. Len(pipe) :
        /\ procs[x].in = RdEnd(p) => own[p] = x
        /\ procs[x].out = WrEnd(p) => own[p] = Recipient(x)
Owned == \E own : Owns(own)

\* The owners when a pipe for address a has been made.
OwnsOne(own, a, new) ==
    /\ new \in [1 .. Len(pipe') -> Nat \X Nat] /\ new[Len(pipe) + 1] = a
    /\ \A p \in 1 .. Len(pipe) : new[p] = own[p]
    /\ \A p, r \in 1 .. Len(pipe') : new[p] = new[r] => p = r
    /\ \A p \in 1 .. Len(pipe') : \A i \in DOMAIN pipe'[p] : pipe'[p][i] = new[p][1]

LEMMA NewOwner ==
  ASSUME TableInv, Filled, NEW own, Owns(own), NEW a \in Nat \X Nat,
         \A p \in 1 .. Len(pipe) : own[p] # a, pipe' = Append(pipe, <<>>)
  PROVE  \E new : OwnsOne(own, a, new)
<1>1. /\ Len(pipe') = Len(pipe) + 1 /\ Len(pipe) \in Nat
      /\ pipe'[Len(pipe) + 1] = <<>> /\ \A p \in 1 .. Len(pipe) : pipe'[p] = pipe[p]
  BY EmptyAppended
<1>2. PICK new : new = [p \in 1 .. Len(pipe') |-> IF p = Len(pipe) + 1 THEN a ELSE own[p]]
  OBVIOUS
<1>3. \A p \in 1 .. Len(pipe') : p = Len(pipe) + 1 \/ (p \in 1 .. Len(pipe) /\ p # Len(pipe) + 1)
  BY <1>1
<1>4. \A p \in 1 .. Len(pipe) : p \in 1 .. Len(pipe') /\ p # Len(pipe) + 1
  BY <1>1
<1>5. Len(pipe) + 1 \in 1 .. Len(pipe')
  BY <1>1
<1>6. /\ own \in [1 .. Len(pipe) -> Nat \X Nat]
      /\ \A p, r \in 1 .. Len(pipe) : own[p] = own[r] => p = r
  BY DEF Owns
<1>7. new \in [1 .. Len(pipe') -> Nat \X Nat]
  BY <1>2, <1>3, <1>6
<1>8. new[Len(pipe) + 1] = a /\ \A p \in 1 .. Len(pipe) : new[p] = own[p]
  BY <1>2, <1>4, <1>5
<1>9. \A p \in 1 .. Len(pipe') : \A i \in DOMAIN pipe'[p] : pipe'[p][i] = new[p][1]
  BY <1>1, <1>3, <1>8 DEF Owns
<1>10. \A p, r \in 1 .. Len(pipe') : new[p] = new[r] => p = r
  BY <1>3, <1>6, <1>8
<1>11. QED
  BY <1>7, <1>8, <1>9, <1>10 DEF OwnsOne

LEMMA ForkOwned ==
  ASSUME TableInv, ProgramInv, Owned, NEW q, ShellForks(q)
  PROVE  Owned'
<1> PICK x, a : x = <<total, stage>> /\ a = <<total, stage + 1>>
  OBVIOUS
<1>1. /\ pc = "obey" /\ ForkedAs(q) /\ UNCHANGED <<total, arr>> /\ Filled
      /\ Len(pipe) \in Nat /\ total \in Nat /\ stage \in Nat \ {0}
      /\ x[1] = total /\ x[2] = stage /\ a[1] = total /\ a[2] = stage + 1
      /\ a \in Nat \X Nat
  BY CmdIs DEF ShellForks, TableInv, Typed, ProgramInv
<1>2. /\ DOMAIN procs' = DOMAIN procs \cup {x} /\ procs'[x] = q
      /\ x \notin DOMAIN procs /\ \A y \in DOMAIN procs : procs'[y] = procs[y]
  <2>1. x \notin DOMAIN procs
    BY <1>1, PidsAre DEF ProgramInv
  <2>2. QED
    BY <1>1, <2>1, StartTyped
<1>3. PICK own : Owns(own)
  BY DEF Owned
<1>4. PICK new : /\ new \in [1 .. Len(pipe') -> Nat \X Nat]
                 /\ \A p \in 1 .. Len(pipe) : new[p] = own[p]
                 /\ \A p, r \in 1 .. Len(pipe') : new[p] = new[r] => p = r
                 /\ \A p \in 1 .. Len(pipe') :
                        \A i \in DOMAIN pipe'[p] : pipe'[p][i] = new[p][1]
                 /\ pipe' = Append(pipe, <<>>) => new[Len(pipe) + 1] = a
  <2>1. CASE pipe' = Append(pipe, <<>>)
    <3>1. ASSUME NEW p \in 1 .. Len(pipe), own[p] = a
          PROVE  FALSE
      <4>1. Reached(a)
        BY <1>3, <3>1 DEF Owns
      <4>2. QED
        BY <1>1, <4>1 DEF Reached
    <3>2. \E new : OwnsOne(own, a, new)
      BY <1>1, <1>3, <2>1, <3>1, NewOwner
    <3>3. QED
      BY <3>2 DEF OwnsOne
  <2>2. CASE pipe' # Append(pipe, <<>>)
    <3>1. pipe' = pipe
      BY <2>2 DEF ShellForks
    <3>2. QED
      BY <1>3, <2>2, <3>1 DEF Owns
  <2>3. QED
    BY <2>1, <2>2
<1>5. /\ Len(pipe') \in Nat /\ Len(pipe) <= Len(pipe')
      /\ pipe' = Append(pipe, <<>>) => Len(pipe') = Len(pipe) + 1
      /\ pipe' # Append(pipe, <<>>) => Len(pipe') = Len(pipe)
  <2>1. CASE pipe' = Append(pipe, <<>>)
    BY <1>1, <2>1, EmptyAppended
  <2>2. CASE pipe' # Append(pipe, <<>>)
    <3>1. pipe' = pipe
      BY <2>2 DEF ShellForks
    <3>2. QED
      BY <1>1, <2>2, <3>1
  <2>3. QED
    BY <2>1, <2>2
<1>6. \A h \in DOMAIN arr : arr[h].p \in 1 .. Len(pipe) /\ new[arr[h].p] = <<arr[h].dest, 1>>
  BY <1>3, <1>4 DEF TableInv, PipesApart, Owns
<1>7. \A h \in DOMAIN arr' : new[arr'[h].p] = <<arr'[h].dest, 1>>
  BY <1>1, <1>6
<1>8. pc' = "obey" /\ stage' > 1 => new[Len(pipe')] = <<total', stage'>>
  BY <1>1, <1>4, <1>5 DEF ShellForks
<1>9. \A d : \A h \in DueFor(arr, d) : h \in DOMAIN arr /\ arr[h].dest = d
  BY DueOne
<1>10. ASSUME NEW p, q.in = RdEnd(p)
       PROVE  new[p] = x
  <2>1. CASE stage > 1
    <3>1. p = Len(pipe) /\ Len(pipe) > 0
      BY <1>1, <1>10, <2>1, Numbers DEF ForkedAs, TableInv, PrevOpen
    <3>2. Len(pipe) \in 1 .. Len(pipe) /\ own[Len(pipe)] = x
      BY <1>1, <1>3, <2>1, <3>1 DEF Owns
    <3>3. QED
      BY <1>4, <3>1, <3>2
  <2>2. CASE ~(stage > 1)
    <3>1. PICK h \in DueFor(arr, total) : q.in = RdEnd(arr[h].p)
      BY <1>1, <1>10, <2>2, Numbers DEF ForkedAs
    <3>2. arr[h].p = p
      BY <1>10, <3>1, Numbers
    <3>3. stage = 1
      BY <1>1, <2>2
    <3>4. new[p] = <<arr[h].dest, 1>> /\ arr[h].dest = total
      BY <1>6, <1>9, <3>2
    <3>5. QED
      BY <3>3, <3>4
  <2>3. QED
    BY <2>1, <2>2
<1>11. ASSUME NEW p, q.out = WrEnd(p)
       PROVE  new[p] = Recipient(x)'
  <2> PICK r : r = Recipient(x)'
    OBVIOUS
  <2>1. r = IF q.for = total THEN a ELSE <<q.for, 1>>
    BY <1>1, <1>2, <1>11, Numbers DEF Recipient
  <2>2. CASE q.out = WrEnd(Len(pipe) + 1) /\ q.for = total /\ pipe' = Append(pipe, <<>>)
    <3>1. p = Len(pipe) + 1
      BY <1>11, <2>2, Numbers
    <3>2. QED
      BY <1>4, <2>1, <2>2, <3>1
  <2>3. ASSUME NEW h \in DueFor(arr, total + cmd.num), q.out = WrEnd(arr[h].p),
               q.for = total + cmd.num, cmd.num > 0
        PROVE  new[p] = r
    <3>1. arr[h].p = p
      BY <1>11, <2>3, Numbers
    <3>2. q.for # total
      BY <1>1, <2>3, CmdIs
    <3>3. r = <<q.for, 1>>
      BY <2>1, <3>2
    <3>4. new[p] = <<arr[h].dest, 1>> /\ arr[h].dest = q.for
      BY <1>6, <1>9, <2>3, <3>1
    <3>5. QED
      BY <3>3, <3>4
  <2>4. QED
    BY <1>1, <1>11, <2>2, <2>3, Numbers DEF ForkedAs
<1>12. ASSUME NEW y \in DOMAIN procs', NEW p \in 1 .. Len(pipe')
       PROVE  /\ procs'[y].in = RdEnd(p) => new[p] = y
              /\ procs'[y].out = WrEnd(p) => new[p] = Recipient(y)'
  <2>1. CASE y = x
    BY <1>1, <1>2, <1>10, <1>11, <2>1
  <2>2. CASE y \in DOMAIN procs
    <3>1. procs'[y] = procs[y] /\ Recipient(y)' = Recipient(y)
      BY <1>2, <2>2 DEF Recipient
    <3>2. procs[y].in = RdEnd(p) \/ procs[y].out = WrEnd(p) => p \in 1 .. Len(pipe)
      BY <2>2, Numbers DEF ProgramInv, ProgramEnds
    <3>3. p \in 1 .. Len(pipe) => /\ procs[y].in = RdEnd(p) => own[p] = y
                                  /\ procs[y].out = WrEnd(p) => own[p] = Recipient(y)
      BY <1>3, <2>2 DEF Owns
    <3>4. QED
      BY <1>4, <3>1, <3>2, <3>3
  <2>3. QED
    BY <1>2, <2>1, <2>2
<1>13. ASSUME NEW p \in 1 .. Len(pipe')
       PROVE  Reached(new[p])'
  <2>1. CASE p \in 1 .. Len(pipe)
    <3> PICK b : b = new[p]
      OBVIOUS
    <3>1. Reached(b)
      BY <1>3, <1>4, <2>1 DEF Owns
    <3>2. pc' = "obey" => stage' = stage + 1
      BY DEF ShellForks
    <3>3. b[2] \in Nat
      BY <1>4
    <3>4. pc' = "obey" /\ b[2] <= stage => b[2] <= stage'
      BY <1>1, <3>2, <3>3
    <3>5. Reached(b)'
      BY <1>1, <3>1, <3>4 DEF Reached
    <3>6. QED
      BY <3>5
  <2>2. CASE p \notin 1 .. Len(pipe)
    <3>1. p = Len(pipe) + 1 /\ pipe' = Append(pipe, <<>>)
      BY <1>1, <1>5, <2>2
    <3>2. new[p] = a /\ a[1] = total' /\ a[2] # 1 /\ (pc' = "obey" => a[2] <= stage')
      BY <1>1, <1>4, <3>1 DEF ShellForks
    <3>3. QED
      BY <3>2 DEF Reached
  <2>3. QED
    BY <2>1, <2>2
<1>14. Owns(new)'
  BY <1>4, <1>7, <1>8, <1>12, <1>13 DEF Owns
<1>15. QED
  BY <1>14 DEF Owned

LEMMA ReadLineOwned ==
  ASSUME TableInv, ProgramInv, Owned, NEW c \in Commands, ReadLine(c)
  PROVE  Owned'
<1>1. PICK own : Owns(own)
  BY DEF Owned
<1>2. /\ total' = total + 1 /\ procs' = procs /\ total \in Nat /\ Len(pipe) \in Nat
      /\ stage' = 1 /\ Filled /\ arr \in Seq([dest : Nat, r : FD, w : FD, p : Nat])
  BY DEF ReadLine, TableInv, Typed, ProgramInv
<1>3. \A x : Recipient(x)' = Recipient(x)
  BY <1>2 DEF Recipient
<1>4. /\ own \in [1 .. Len(pipe) -> Nat \X Nat] /\ ~(stage' > 1)
      /\ \A p \in 1 .. Len(pipe) : own[p][1] \in Nat /\ Reached(own[p])
  <2>1. own \in [1 .. Len(pipe) -> Nat \X Nat] /\ ~(stage' > 1)
    BY <1>1, <1>2 DEF Owns
  <2>2. \A p \in 1 .. Len(pipe) : own[p] \in Nat \X Nat
    BY <2>1
  <2>3. \A p \in 1 .. Len(pipe) : own[p][1] \in Nat
    BY <2>2
  <2>4. \A p \in 1 .. Len(pipe) : Reached(own[p])
    BY <1>1 DEF Owns
  <2>5. QED
    BY <2>1, <2>3, <2>4
<1>5. \A p \in 1 .. Len(pipe) : own[p][2] # 1 => own[p][1] < total'
  BY <1>2, <1>4 DEF Reached
<1>6. CASE arr' = arr /\ pipe' = pipe
  <2>1. \A p \in 1 .. Len(pipe) : Reached(own[p])'
    BY <1>4, <1>5, <1>6 DEF Reached
  <2>2. Owns(own)'
    BY <1>1, <1>2, <1>3, <1>4, <1>6, <2>1 DEF Owns
  <2>3. QED
    BY <2>2 DEF Owned
<1>7. CASE ~(arr' = arr /\ pipe' = pipe)
  <2> DEFINE d == total + 1 + c.num
  <2> PICK e, a : /\ e = [dest |-> d, r |-> NewEnds(F).r, w |-> NewEnds(F).w, p |-> Len(pipe) + 1]
                  /\ a = <<d, 1>>
    OBVIOUS
  <2>1. arr' = Append(arr, e) /\ pipe' = Append(pipe, <<>>) /\ DueFor(arr, d) = {}
    BY <1>7 DEF ReadLine, Joins
  <2>2. c.num \in Nat /\ d \in Nat
    BY <1>2, ShellAssumption
  <2> HIDE DEF d
  <2>3. \A h \in DOMAIN arr : arr[h].dest # d
    <3>1. DOMAIN arr = 1 .. Len(arr)
      BY <1>2
    <3>2. QED
      BY <2>1, <3>1 DEF DueFor
  <2>4. a[1] = d /\ a[2] = 1 /\ a \in Nat \X Nat /\ e.dest = d
    BY <2>2
  <2>5. \A p \in 1 .. Len(pipe) : own[p] # a
    BY <1>4, <2>3, <2>4 DEF Reached
  <2>6. PICK new : OwnsOne(own, a, new)
    <3>1. /\ TableInv /\ Owns(own) /\ Filled /\ pipe' = Append(pipe, <<>>)
          /\ a \in Nat \X Nat
      BY <1>1, <1>2, <2>1, <2>4
    <3>2. QED
      BY <2>5, <3>1, NewOwner
  <2>7. \A h \in DOMAIN arr : new[arr[h].p] = <<arr[h].dest, 1>>
    BY <1>1, <2>6 DEF TableInv, PipesApart, Owns, OwnsOne
  <2>8. new[e.p] = <<e.dest, 1>>
    BY <2>6, <2>4 DEF OwnsOne
  <2>9. \A h \in DOMAIN arr' : arr'[h] = e \/ (h \in DOMAIN arr /\ arr'[h] = arr[h])
    BY <1>2, <2>1
  <2>10. \A h \in DOMAIN arr' : new[arr'[h].p] = <<arr'[h].dest, 1>>
    BY <2>7, <2>8, <2>9
  <2>11. \A x \in DOMAIN procs', p \in 1 .. Len(pipe') :
            /\ procs'[x].in = RdEnd(p) => new[p] = x
            /\ procs'[x].out = WrEnd(p) => new[p] = Recipient(x)'
    <3> TAKE x \in DOMAIN procs', p \in 1 .. Len(pipe')
    <3>1. procs[x].in = RdEnd(p) \/ procs[x].out = WrEnd(p) => p \in 1 .. Len(pipe)
      BY <1>2, Numbers DEF ProgramInv, ProgramEnds
    <3>2. p \in 1 .. Len(pipe) => /\ procs[x].in = RdEnd(p) => own[p] = x
                                  /\ procs[x].out = WrEnd(p) => own[p] = Recipient(x)
      BY <1>1, <1>2 DEF Owns
    <3>3. QED
      BY <1>2, <1>3, <2>6, <3>1, <3>2 DEF OwnsOne
  <2>12. ASSUME NEW p \in 1 .. Len(pipe')
         PROVE  Reached(new[p])'
    <3> PICK b : b = new[p]
      OBVIOUS
    <3>1. /\ Len(arr) + 1 \in DOMAIN arr' /\ arr'[Len(arr) + 1] = e
          /\ \A h \in DOMAIN arr : h \in DOMAIN arr' /\ arr'[h] = arr[h]
      BY <1>2, <2>1
    <3>2. CASE p \in 1 .. Len(pipe)
      <4>1. Reached(b) /\ (b[2] # 1 => b[1] < total')
        BY <1>4, <1>5, <2>6, <3>2 DEF OwnsOne
      <4>2. QED
        BY <3>1, <4>1 DEF Reached
    <3>3. CASE p \notin 1 .. Len(pipe)
      <4>1. p = Len(pipe) + 1
        BY <1>1, <1>2, <2>1, <3>3, EmptyAppended
      <4>2. b = a
        BY <2>6, <4>1 DEF OwnsOne
      <4>3. QED
        BY <2>4, <3>1, <4>2 DEF Reached
    <3>4. QED
      BY <3>2, <3>3
  <2>13. Owns(new)'
    BY <1>4, <2>6, <2>10, <2>11, <2>12 DEF Owns, OwnsOne
  <2>14. QED
    BY <2>13 DEF Owned
<1>8. QED
  BY <1>6, <1>7

LEMMA ProgramOwned ==
  ASSUME TableInv, ProgramInv, Owned, ProgramStep
  PROVE  Owned'
<1>1. PICK own : Owns(own)
  BY DEF Owned
<1>2. /\ UNCHANGED <<pc, total, arr, stage>> /\ DOMAIN procs' \subseteq DOMAIN procs
      /\ Len(pipe') = Len(pipe) /\ Len(pipe) \in Nat /\ pipe \in Seq(Seq(Nat))
      /\ \A x \in DOMAIN procs' : /\ procs'[x].in = procs[x].in /\ procs'[x].out = procs[x].out
                                  /\ procs'[x].for = procs[x].for
  BY DEF ProgramStep, ShellIdle, TableInv, Typed
<1>3. \A p \in 1 .. Len(pipe) : \A i \in DOMAIN pipe'[p] : pipe'[p][i] = own[p][1]
  <2>1. CASE pipe' = pipe
    BY <1>1, <2>1 DEF Owns
  <2>2. ASSUME NEW x \in DOMAIN procs, NEW q \in Seq(Seq(Nat)),
               q = pipe \/ (Available(procs[x].in) /\ q = Take(pipe, procs[x].in)),
               pipe' = Put(q, procs[x].out, procs[x].for)
        PROVE  \A p \in 1 .. Len(pipe) : \A i \in DOMAIN pipe'[p] : pipe'[p][i] = own[p][1]
    <3> PICK e, d, unit : e = procs[x].out /\ d = procs[x].in /\ unit = procs[x].for
      OBVIOUS
    <3>1. procs[x] \in Programs /\ e \in AnyEnd /\ d \in AnyEnd /\ unit \in Nat
      BY DEF TableInv, Typed, Programs
    <3>2. Len(q) = Len(pipe) /\ \A p \in 1 .. Len(pipe) : \A i \in DOMAIN q[p] : q[p][i] = own[p][1]
      <4>1. CASE q = pipe
        BY <1>1, <4>1 DEF Owns
      <4>2. CASE Available(d) /\ q = Take(pipe, d)
        <5>1. pipe[d[1]] # <<>>
          BY <4>2 DEF Available
        <5> PICK t : t = Take(pipe, d)
          OBVIOUS
        <5>2. /\ Len(t) = Len(pipe)
              /\ \A p \in 1 .. Len(pipe) : t[p] = IF d[1] = p THEN Tail(pipe[p]) ELSE pipe[p]
          BY <1>2, <3>1, <5>1, Taken
        <5>3. t = q
          BY <4>2
        <5>4. ASSUME NEW p \in 1 .. Len(pipe), d[1] = p
              PROVE  \A i \in DOMAIN q[p] : q[p][i] = own[p][1]
          <6>1. q[p] = Tail(pipe[p]) /\ pipe[p] # <<>>
            BY <5>1, <5>2, <5>3, <5>4
          <6>2. pipe[p] \in Seq(Nat)
            BY <1>2
          <6>3. \A i \in DOMAIN Tail(pipe[p]) :
                    i + 1 \in DOMAIN pipe[p] /\ Tail(pipe[p])[i] = pipe[p][i + 1]
            BY <6>1, <6>2
          <6>4. \A i \in DOMAIN pipe[p] : pipe[p][i] = own[p][1]
            BY <1>1 DEF Owns
          <6>5. QED
            BY <6>1, <6>3, <6>4
        <5>5. \A p \in 1 .. Len(pipe) : d[1] # p => q[p] = pipe[p]
          BY <5>2, <5>3
        <5>6. \A p \in 1 .. Len(pipe) : \A i \in DOMAIN pipe[p] : pipe[p][i] = own[p][1]
          BY <1>1 DEF Owns
        <5>7. ASSUME NEW p \in 1 .. Len(pipe), d[1] # p
              PROVE  \A i \in DOMAIN q[p] : q[p][i] = own[p][1]
          BY <5>5, <5>6, <5>7
        <5>8. Len(q) = Len(pipe)
          BY <5>2, <5>3
        <5>9. QED
          BY <5>4, <5>7, <5>8
      <4>3. QED
        BY <2>2, <4>1, <4>2
    <3>3. \A p \in 1 .. Len(pipe) :
            pipe'[p] = IF Piped(e) /\ e[1] = p THEN Append(q[p], unit) ELSE q[p]
      <4> PICK u : u = Put(q, e, unit)
        OBVIOUS
      <4>1. \A p \in 1 .. Len(q) :
                u[p] = IF Piped(e) /\ e[1] = p THEN Append(q[p], unit) ELSE q[p]
        BY <3>1, Units
      <4>2. pipe' = u /\ Len(q) = Len(pipe)
        BY <2>2, <3>2
      <4>3. QED
        BY <4>1, <4>2
    <3>4. ASSUME NEW p \in 1 .. Len(pipe), Piped(e), e[1] = p
          PROVE  own[p][1] = unit
      <4>1. e = WrEnd(p)
        BY <3>4, Numbers DEF ProgramInv, ProgramEnds, Piped
      <4>2. own[p] = Recipient(x)
        BY <1>1, <4>1 DEF Owns
      <4>3. e # Tty
        BY <4>1, Numbers
      <4>4. QED
        BY <4>2, <4>3 DEF Recipient
    <3>5. ASSUME NEW p \in 1 .. Len(pipe), NEW i \in DOMAIN pipe'[p]
          PROVE  pipe'[p][i] = own[p][1]
      <4>1. CASE Piped(e) /\ e[1] = p
        <5>1. pipe'[p] = Append(q[p], unit) /\ own[p][1] = unit
          BY <3>3, <3>4, <4>1
        <5>2. q[p] \in Seq(Nat)
          BY <3>2
        <5>3. i \in DOMAIN q[p] \/ i = Len(q[p]) + 1
          BY <3>1, <3>5, <5>1, <5>2
        <5>4. i \in DOMAIN q[p] => pipe'[p][i] = q[p][i]
          BY <3>1, <5>1, <5>2
        <5>5. i = Len(q[p]) + 1 => pipe'[p][i] = unit
          BY <3>1, <5>1, <5>2
        <5>6. QED
          BY <3>2, <5>1, <5>3, <5>4, <5>5
      <4>2. CASE ~(Piped(e) /\ e[1] = p)
        BY <3>2, <3>3, <3>5, <4>2
      <4>3. QED
        BY <4>1, <4>2
    <3>6. QED
      BY <3>5
  <2>3. QED
    BY <2>1, <2>2 DEF ProgramStep
<1>4. \A x \in DOMAIN procs' : x \in DOMAIN procs /\ Recipient(x)' = Recipient(x)
  BY <1>2 DEF Recipient
<1>5. \A p \in 1 .. Len(pipe) : Reached(own[p])'
  BY <1>1, <1>2 DEF Owns, Reached
<1>6. \A x \in DOMAIN procs', p \in 1 .. Len(pipe') :
        /\ procs'[x].in = RdEnd(p) => own[p] = x
        /\ procs'[x].out = WrEnd(p) => own[p] = Recipient(x)'
  <2> TAKE x \in DOMAIN procs', p \in 1 .. Len(pipe')
  <2>1. /\ procs[x].in = RdEnd(p) => own[p] = x
        /\ procs[x].out = WrEnd(p) => own[p] = Recipient(x)
    BY <1>1, <1>2 DEF Owns
  <2>2. /\ procs'[x].in = procs[x].in /\ procs'[x].out = procs[x].out
        /\ Recipient(x)' = Recipient(x)
    BY <1>2, <1>4
  <2>3. QED
    BY <2>1, <2>2
<1>7. Owns(own)'
  BY <1>1, <1>2, <1>3, <1>5, <1>6 DEF Owns
<1>8. QED
  BY <1>7 DEF Owned

LEMMA OwnedNext ==
  ASSUME TableInv, ProgramInv, Owned, [Next]_vars
  PROVE  Owned'
<1>1. ASSUME QuietStep
      PROVE  Owned'
  <2>1. PICK own : Owns(own)
    BY DEF Owned
  <2>2. /\ UNCHANGED <<total, arr, stage, procs, pipe>> /\ (pc' = "obey" => pc = "obey")
        /\ \A x : Recipient(x)' = Recipient(x)
    BY <1>1 DEF QuietStep, Recipient
  <2>3. \A p \in 1 .. Len(pipe) : Reached(own[p])'
    BY <2>1, <2>2 DEF Owns, Reached
  <2>4. Owns(own)'
    BY <2>1, <2>2, <2>3 DEF Owns
  <2>5. QED
    BY <2>4 DEF Owned
<1>2. QED
  BY <1>1, NextIs, ForkOwned, ReadLineOwned, ProgramOwned

THEOREM OwnerInvariant == Spec => []Owned
<1>1. Init => Owned
  <2> SUFFICES ASSUME Init
               PROVE  Owned
    OBVIOUS
  <2>1. pipe = <<>> /\ arr = <<>> /\ procs = <<>> /\ pc = "prompt"
    BY DEF Init
  <2>2. Owns([p \in 1 .. 0 |-> <<0, 0>>])
    BY <2>1 DEF Owns
  <2>3. QED
    BY <2>2 DEF Owned
<1>2. QED
  BY <1>1, TableInvariant, ProgramInvariant, OwnedNext, PTL DEF Spec

(* What a line's output is promised to is all that this line's first program
   ever finds in its input, and what the first program writes is all that the
   others find: no two lines' data meet in a pipe. *)
THEOREM OwnData == Spec => []ReadsItsOwn
<1>1. ASSUME ProgramInv, Owned
      PROVE  ReadsItsOwn
  <2> SUFFICES ASSUME NEW x \in DOMAIN procs, procs[x].filter, Piped(procs[x].in)
               PROVE  \A n \in DOMAIN pipe[procs[x].in[1]] : pipe[procs[x].in[1]][n] = x[1]
    BY DEF ReadsItsOwn
  <2>1. PICK p \in 1 .. Len(pipe) : procs[x].in = RdEnd(p)
    BY <1>1 DEF ProgramInv, ProgramEnds, Piped
  <2>2. procs[x].in[1] = p
    BY <2>1, Numbers
  <2>3. QED
    BY <1>1, <2>1, <2>2 DEF Owned, Owns
<1>2. QED
  BY <1>1, ProgramInvariant, OwnerInvariant, PTL

-----------------------------------------------------------------------------
(* The shell as mail between programs: who can be read by whom. *)

\* The first programs of the lines after line n that a numbered pipe waits for.
Later(A, n) == {<<A[h].dest, 1>> : h \in {g \in DOMAIN A : A[g].dest > n}}

\* Expected, with the variables as parameters.
ExpectedAt(A, n, turn) ==
    {a \in {<<A[h].dest, 1>> : h \in DOMAIN A} : a[1] > n \/ a = turn}
        \cup {a \in {turn} : a[2] > 1}

LEMMA Expects ==
  ASSUME NEW A, NEW n \in Nat, \A h \in DOMAIN A : A[h].dest \in Nat
  PROVE  /\ ExpectedAt(A, n, <<n + 1, 1>>) = Later(A, n)
         /\ ExpectedAt(A, n, <<n, 1>>) = Later(A, n - 1)
         /\ \A i \in Nat : i > 1 => ExpectedAt(A, n, <<n, i>>) = Later(A, n) \cup {<<n, i>>}
<1>1. \A a, b, c, d : (<<a, b>> = <<c, d>> <=> a = c /\ b = d) /\ <<a, b>>[1] = a /\ <<a, b>>[2] = b
  OBVIOUS
<1>2. \A a : a \in Later(A, n) <=> \E h \in DOMAIN A : a = <<A[h].dest, 1>> /\ A[h].dest > n
  BY DEF Later
<1>3. \A a : a \in Later(A, n - 1) <=> \E h \in DOMAIN A : a = <<A[h].dest, 1>> /\ A[h].dest > n - 1
  BY DEF Later
<1>4. ASSUME NEW t, NEW a
      PROVE  a \in ExpectedAt(A, n, t) <=>
                \/ \E h \in DOMAIN A : a = <<A[h].dest, 1>> /\ (A[h].dest > n \/ a = t)
                \/ a = t /\ t[2] > 1
  BY <1>1 DEF ExpectedAt
<1>5. \A h \in DOMAIN A : /\ A[h].dest > n - 1 <=> (A[h].dest > n \/ A[h].dest = n)
                          /\ A[h].dest = n + 1 => A[h].dest > n
  OBVIOUS
<1>6. ExpectedAt(A, n, <<n + 1, 1>>) = Later(A, n)
  <2>1. \A a : a \in ExpectedAt(A, n, <<n + 1, 1>>) <=> a \in Later(A, n)
    BY <1>1, <1>2, <1>4, <1>5
  <2>2. QED
    BY <2>1
<1>7. ExpectedAt(A, n, <<n, 1>>) = Later(A, n - 1)
  <2>1. \A a : a \in ExpectedAt(A, n, <<n, 1>>) <=> a \in Later(A, n - 1)
    BY <1>1, <1>3, <1>4, <1>5
  <2>2. QED
    BY <2>1
<1>8. ASSUME NEW i \in Nat, i > 1
      PROVE  ExpectedAt(A, n, <<n, i>>) = Later(A, n) \cup {<<n, i>>}
  <2>1. \A h \in DOMAIN A : <<A[h].dest, 1>> # <<n, i>>
    BY <1>8
  <2>2. \A a : a \in ExpectedAt(A, n, <<n, i>>) <=> a \in Later(A, n) \/ a = <<n, i>>
    BY <1>1, <1>2, <1>4, <1>8, <2>1
  <2>3. QED
    BY <2>2
<1>9. QED
  BY <1>6, <1>7, <1>8

(* Whose turn it is, and what mail there may be, by where the shell is. *)
LEMMA BoxesAre ==
  ASSUME TableInv
  PROVE  /\ pc = "obey" => Turn = <<total, stage>>
         /\ pc # "obey" => Turn = <<total + 1, 1>> /\ Expected = Later(arr, total)
         /\ pc = "obey" /\ stage = 1 => Expected = Later(arr, total - 1)
         /\ pc = "obey" /\ stage > 1 => Expected = Later(arr, total) \cup {<<total, stage>>}
         /\ DOMAIN Unread = Readers \cup (IF pc = "dead" THEN {} ELSE Expected)
         /\ \A a \in DOMAIN Unread : Unread[a] = Len(pipe[Inbox(a)])
<1>1. total \in Nat /\ stage \in Nat /\ \A h \in DOMAIN arr : arr[h].dest \in Nat
  BY ArrIs, ShellAssumption DEF TableInv, Typed
<1>2. Expected = ExpectedAt(arr, total, Turn)
  BY DEF Expected, ExpectedAt
<1>3. pc = "obey" => Turn = <<total, stage>>
  BY DEF Turn
<1>4. pc # "obey" => Turn = <<total + 1, 1>>
  BY DEF Turn
<1>5. /\ DOMAIN Unread = Readers \cup (IF pc = "dead" THEN {} ELSE Expected)
      /\ \A a \in DOMAIN Unread : Unread[a] = Len(pipe[Inbox(a)])
  BY DEF Unread
<1>6. /\ ExpectedAt(arr, total, <<total + 1, 1>>) = Later(arr, total)
      /\ ExpectedAt(arr, total, <<total, 1>>) = Later(arr, total - 1)
      /\ \A i \in Nat : i > 1 =>
            ExpectedAt(arr, total, <<total, i>>) = Later(arr, total) \cup {<<total, i>>}
  BY <1>1, Expects
<1>7. pc # "obey" => Expected = Later(arr, total)
  BY <1>2, <1>4, <1>6
<1>8. pc = "obey" /\ stage = 1 => Expected = Later(arr, total - 1)
  BY <1>2, <1>3, <1>6
<1>9. pc = "obey" /\ stage > 1 => Expected = Later(arr, total) \cup {<<total, stage>>}
  BY <1>1, <1>2, <1>3, <1>6
<1>10. QED
  BY <1>3, <1>4, <1>5, <1>7, <1>8, <1>9

\* What the lemmas below assume of the state.
ShellInv == TableInv /\ ProgramInv

(* No program is started twice. *)
LEMMA ExpectedToStart ==
  ASSUME ShellInv, NEW a \in Expected
  PROVE  a \notin DOMAIN procs
<1>1. /\ TableInv /\ Numbering /\ total \in Nat /\ stage \in Nat
      /\ \A x \in DOMAIN procs : x[1] \in Nat /\ x[2] \in Nat
  BY PidsAre DEF ShellInv, ProgramInv
<1>2. a[1] > total \/ a = Turn
  BY DEF Expected
<1>3. \A x \in DOMAIN procs : ~(x[1] > total)
  BY <1>1 DEF Numbering
<1>4. CASE pc = "obey" /\ a = Turn
  <2>1. a[1] = total /\ a[2] = stage
    BY <1>4 DEF Turn
  <2>2. \A x \in DOMAIN procs : x[1] = total => x[2] < stage
    BY <1>1, <1>4 DEF Numbering
  <2>3. QED
    BY <1>1, <2>1, <2>2
<1>5. CASE pc # "obey" /\ a = Turn
  <2>1. a[1] = total + 1
    BY <1>5 DEF Turn
  <2>2. a[1] > total
    BY <1>1, <2>1
  <2>3. QED
    BY <1>3, <2>2
<1>6. QED
  BY <1>2, <1>3, <1>4, <1>5

(* Mail waits in the pipe of the one that it is for, and that can be read: by
   itself or, if it is still to be started, by the shell. *)
LEMMA InboxIs ==
  ASSUME ShellInv, NEW own, Owns(own), NEW a \in DOMAIN Unread
  PROVE  /\ Inbox(a) \in 1 .. Len(pipe) /\ own[Inbox(a)] = a /\ IsOpen(RdEnd(Inbox(a)))
         /\ a \in DOMAIN procs => procs[a].filter /\ procs[a].in = RdEnd(Inbox(a))
<1>1. TableInv /\ ProgramInv /\ Len(pipe) \in Nat /\ total \in Nat /\ stage \in Nat
  BY ShellAssumption DEF ShellInv, TableInv, Typed
<1>2. a \in Readers \/ (pc # "dead" /\ a \in Expected)
  BY <1>1, BoxesAre
<1>3. CASE a \in Readers
  <2>1. a \in DOMAIN procs /\ procs[a].filter
    BY <1>3 DEF Readers
  <2>2. PICK p \in 1 .. Len(pipe) : procs[a].in = RdEnd(p)
    BY <1>1, <2>1 DEF ProgramInv, ProgramEnds
  <2>3. Inbox(a) = p
    BY <2>1, <2>2, Numbers DEF Inbox
  <2>4. own[p] = a
    BY <2>1, <2>2 DEF Owns
  <2>5. IsOpen(RdEnd(p))
    BY <2>1, <2>2 DEF IsOpen, OpenAt
  <2>6. QED
    BY <2>1, <2>2, <2>3, <2>4, <2>5
<1>4. CASE pc # "dead" /\ a \in Expected
  <2>1. a \notin DOMAIN procs
    BY <1>4, ExpectedToStart
  <2>2. ASSUME NEW h \in DOMAIN arr, a = <<arr[h].dest, 1>>, a[1] > total \/ a = Turn
        PROVE  /\ Inbox(a) \in 1 .. Len(pipe) /\ own[Inbox(a)] = a
               /\ IsOpen(RdEnd(Inbox(a)))
    <3>1. a[1] = arr[h].dest /\ a[2] = 1
      BY <2>2
    <3>2. h \in DueFor(arr, a[1])
      BY <1>1, <3>1 DEF DueFor, TableInv, Typed
    <3>3. Least(DueFor(arr, a[1])) = h
      BY <1>1, <3>2, DueOne
    <3>4. Inbox(a) = arr[h].p
      BY <2>1, <3>1, <3>3 DEF Inbox
    <3>5. arr[h].p \in 1 .. Len(pipe) /\ own[arr[h].p] = a
      BY <1>1, <2>2 DEF TableInv, PipesApart, Owns
    <3>6. ReadOpen(arr[h].dest)
      <4>1. CASE a = Turn /\ pc = "obey"
        BY <3>1, <4>1 DEF Turn, ReadOpen
      <4>2. CASE a = Turn /\ pc # "obey"
        BY <1>1, <3>1, <4>2 DEF Turn, ReadOpen
      <4>3. QED
        BY <2>2, <3>1, <4>1, <4>2 DEF ReadOpen
    <3>7. F[arr[h].r] = RdEnd(arr[h].p) /\ arr[h].r \in FD
      BY <1>1, <1>4, <3>6, ArrIs DEF TableInv, Intact
    <3>8. QED
      BY <3>4, <3>5, <3>7 DEF IsOpen
  <2>3. ASSUME a = Turn, a[2] > 1
        PROVE  /\ Inbox(a) \in 1 .. Len(pipe) /\ own[Inbox(a)] = a
               /\ IsOpen(RdEnd(Inbox(a)))
    <3>1. pc = "obey"
      BY <2>3 DEF Turn
    <3>2. a = <<total, stage>> /\ stage > 1 /\ a[2] # 1
      BY <2>3, <3>1 DEF Turn
    <3>3. Inbox(a) = Len(pipe)
      BY <2>1, <3>2 DEF Inbox
    <3>4. own[Len(pipe)] = a
      BY <3>1, <3>2 DEF Owns
    <3>5. Len(pipe) \in 1 .. Len(pipe) /\ prev.r \in FD /\ F[prev.r] = RdEnd(Len(pipe))
      BY <1>1, <3>1, <3>2 DEF TableInv, PrevOpen
    <3>6. QED
      BY <3>3, <3>4, <3>5 DEF IsOpen
  <2>4. \/ \E h \in DOMAIN arr : a = <<arr[h].dest, 1>> /\ (a[1] > total \/ a = Turn)
        \/ a = Turn /\ a[2] > 1
    BY <1>4 DEF Expected
  <2>5. QED
    BY <2>1, <2>2, <2>3, <2>4
<1>5. QED
  BY <1>2, <1>3, <1>4

(* What a program writes goes to the one that it is for, and nowhere else. *)
LEMMA SentTo ==
  ASSUME ShellInv, NEW own, Owns(own), NEW x \in DOMAIN procs
  PROVE  /\ procs[x].out = Tty => Recipient(x) = Mail!Terminal
         /\ Mail!Terminal \notin DOMAIN Unread
         /\ procs[x].out # Tty => \E p \in 1 .. Len(pipe) :
                /\ procs[x].out = WrEnd(p) /\ Piped(procs[x].out)
                /\ Recipient(x) = own[p] /\ Recipient(x) # Mail!Terminal
                /\ \A a \in DOMAIN Unread : Inbox(a) = p <=> a = Recipient(x)
<1>1. TableInv /\ ProgramInv /\ Numbering /\ total \in Nat /\ stage \in Nat
  BY ShellAssumption DEF ShellInv, TableInv, Typed, ProgramInv
<1>2. \A y \in DOMAIN procs : y[1] > 0 /\ y[1] \in Nat /\ y[2] \in Nat
  BY <1>1 DEF Numbering, Pids
<1>3. Mail!Terminal = <<0, 0>> /\ Mail!Terminal[1] = 0 /\ Mail!Terminal[2] = 0
  BY DEF Mail!Terminal
<1>4. Mail!Terminal \notin DOMAIN Unread
  <2>1. Mail!Terminal \notin Readers
    BY <1>2, <1>3 DEF Readers
  <2>2. \A a \in Expected : a[2] # 0
    BY <1>1 DEF Expected
  <2>3. QED
    BY <1>1, <1>3, <2>1, <2>2, BoxesAre
<1>5. procs[x].out = Tty => Recipient(x) = Mail!Terminal
  BY <1>3 DEF Recipient
<1>6. ASSUME procs[x].out # Tty
      PROVE  \E p \in 1 .. Len(pipe) :
                /\ procs[x].out = WrEnd(p) /\ Piped(procs[x].out)
                /\ Recipient(x) = own[p] /\ Recipient(x) # Mail!Terminal
                /\ \A a \in DOMAIN Unread : Inbox(a) = p <=> a = Recipient(x)
  <2>1. PICK p \in 1 .. Len(pipe) : procs[x].out = WrEnd(p)
    BY <1>1, <1>6 DEF ProgramInv, ProgramEnds
  <2>2. Recipient(x) = own[p]
    BY <2>1 DEF Owns
  <2>3. Recipient(x)[2] # 0
    BY <1>2, <1>6 DEF Recipient
  <2>4. \A q, r \in 1 .. Len(pipe) : own[q] = own[r] => q = r
    BY DEF Owns
  <2>5. \A a \in DOMAIN Unread : Inbox(a) \in 1 .. Len(pipe) /\ own[Inbox(a)] = a
    BY InboxIs
  <2>6. \A a \in DOMAIN Unread : Inbox(a) = p <=> a = Recipient(x)
    BY <2>2, <2>4, <2>5
  <2>7. Piped(procs[x].out)
    BY <2>1, Numbers DEF Piped
  <2>8. QED
    BY <1>3, <2>1, <2>2, <2>3, <2>6, <2>7
<1>7. QED
  BY <1>4, <1>5, <1>6

-----------------------------------------------------------------------------
(* The steps of the programs. *)

\* A program's step that none ends with: the addresses stay.
SameShell ==
    /\ UNCHANGED <<pc, total, arr, stage>> /\ Len(pipe') = Len(pipe)
    /\ DOMAIN procs' = DOMAIN procs
    /\ \A y \in DOMAIN procs :
        /\ procs'[y].in = procs[y].in /\ procs'[y].out = procs[y].out
        /\ procs'[y].filter = procs[y].filter /\ procs'[y].for = procs[y].for

LEMMA SameBoxes ==
  ASSUME SameShell
  PROVE  /\ Turn' = Turn /\ \A a : Inbox(a)' = Inbox(a)
         /\ \A y \in DOMAIN procs : Recipient(y)' = Recipient(y)
         /\ Unread' = [a \in DOMAIN Unread |-> Len(pipe'[Inbox(a)])]
<1>1. Turn' = Turn /\ Expected' = Expected /\ Readers' = Readers
  BY DEF SameShell, Turn, Expected, Readers
<1>2. ASSUME NEW a
      PROVE  Inbox(a)' = Inbox(a)
  <2>1. CASE a \in DOMAIN procs
    BY <2>1 DEF SameShell, Inbox
  <2>2. CASE a \notin DOMAIN procs
    BY <2>2 DEF SameShell, Inbox
  <2>3. QED
    BY <2>1, <2>2
<1>3. \A y \in DOMAIN procs : Recipient(y)' = Recipient(y)
  BY DEF SameShell, Recipient
<1>4. Unread' = [a \in Readers' \cup (IF pc' = "dead" THEN {} ELSE Expected') |->
                    Len(pipe'[Inbox(a)'])]
  BY DEF Unread
<1>5. DOMAIN Unread = Readers \cup (IF pc = "dead" THEN {} ELSE Expected) /\ pc' = pc
  BY DEF Unread, SameShell
<1>6. Unread' = [a \in DOMAIN Unread |-> Len(pipe'[Inbox(a)])]
  BY <1>1, <1>2, <1>4, <1>5
<1>7. QED
  BY <1>1, <1>2, <1>3, <1>6

(* The types of what the steps use. *)
LEMMA StepTypes ==
  ASSUME ShellInv, NEW x \in DOMAIN procs
  PROVE  /\ procs \in [DOMAIN procs -> Programs] /\ procs[x] \in Programs
         /\ pipe \in Seq(Seq(Nat)) /\ Len(pipe) \in Nat
         /\ \A p \in 1 .. Len(pipe) : pipe[p] \in Seq(Nat) /\ Len(pipe[p]) \in Nat
         /\ procs[x].in \in AnyEnd /\ procs[x].out \in AnyEnd /\ procs[x].for \in Nat
         /\ procs[x].left \in Nat /\ procs[x].filter \in BOOLEAN
<1>1. procs \in [DOMAIN procs -> Programs] /\ pipe \in Seq(Seq(Nat))
  BY DEF ShellInv, TableInv, Typed
<1>2. procs[x] \in Programs
  BY <1>1
<1>3. \A p \in 1 .. Len(pipe) : pipe[p] \in Seq(Nat)
  BY <1>1
<1>4. QED
  BY <1>1, <1>2, <1>3 DEF Programs

LEMMA JobIs ==
  ASSUME NEW x \in DOMAIN procs
  PROVE  /\ x \in DOMAIN Jobs /\ DOMAIN Jobs = DOMAIN procs
         /\ Jobs[x].reads = procs[x].filter /\ Jobs[x].to = Recipient(x)
         /\ Jobs[x].left = procs[x].left
         /\ \A n : [Jobs[x] EXCEPT !.left = n] =
                    [reads |-> procs[x].filter, to |-> Recipient(x), left |-> n]
BY DEF Jobs

(* One more unit in the pipe that x writes to is one more in the box of the one
   that x sends to. *)
LEMMA PutDelivers ==
  ASSUME ShellInv, NEW own, Owns(own), NEW x \in DOMAIN procs, SameShell,
         NEW q \in Seq(Seq(Nat)), Len(q) = Len(pipe),
         pipe' = Put(q, procs[x].out, procs[x].for)
  PROVE  Unread' = Mail!Delivered([a \in DOMAIN Unread |-> Len(q[Inbox(a)])], Recipient(x))
<1> PICK m : m = [a \in DOMAIN Unread |-> Len(q[Inbox(a)])]
  OBVIOUS
<1> PICK e, unit, to : e = procs[x].out /\ unit = procs[x].for /\ to = Recipient(x)
  OBVIOUS
<1>1. /\ e \in AnyEnd /\ unit \in Nat
      /\ Unread' = [a \in DOMAIN Unread |-> Len(pipe'[Inbox(a)])]
      /\ \A a \in DOMAIN Unread : Inbox(a) \in 1 .. Len(pipe)
      /\ \A p \in 1 .. Len(pipe) : q[p] \in Seq(Nat)
  <2>1. e \in AnyEnd /\ unit \in Nat
    BY StepTypes
  <2>2. Unread' = [a \in DOMAIN Unread |-> Len(pipe'[Inbox(a)])]
    BY SameBoxes
  <2>3. \A a \in DOMAIN Unread : Inbox(a) \in 1 .. Len(pipe)
    BY InboxIs
  <2>4. \A p \in 1 .. Len(pipe) : q[p] \in Seq(Nat)
    OBVIOUS
  <2>5. QED
    BY <2>1, <2>2, <2>3, <2>4
<1>2. \A p \in 1 .. Len(pipe) :
        pipe'[p] = IF Piped(e) /\ e[1] = p THEN Append(q[p], unit) ELSE q[p]
  BY <1>1, Units
<1>3. CASE e = Tty
  <2>1. ~Piped(e) /\ to \notin DOMAIN Unread
    BY <1>3, SentTo DEF Piped
  <2>2. \A a \in DOMAIN Unread : pipe'[Inbox(a)] = q[Inbox(a)]
    BY <1>1, <1>2, <2>1
  <2>3. Unread' = m
    BY <1>1, <2>2
  <2>4. QED
    BY <2>1, <2>3 DEF Mail!Delivered
<1>4. CASE e # Tty
  <2>1. PICK p \in 1 .. Len(pipe) : /\ e = WrEnd(p) /\ Piped(e)
                                   /\ \A a \in DOMAIN Unread : Inbox(a) = p <=> a = to
    BY <1>4, SentTo
  <2>2. \A r \in 1 .. Len(pipe) : pipe'[r] = IF r = p THEN Append(q[r], unit) ELSE q[r]
    <3>1. e[1] = p
      BY <2>1, Numbers
    <3>2. QED
      BY <1>2, <2>1, <3>1
  <2>3. ASSUME NEW r \in 1 .. Len(pipe)
        PROVE  Len(pipe'[r]) = IF r = p THEN Len(q[r]) + 1 ELSE Len(q[r])
    <3> PICK s : s = q[r]
      OBVIOUS
    <3>1. s \in Seq(Nat) /\ unit \in Nat
      BY <1>1
    <3>2. Len(Append(s, unit)) = Len(s) + 1
      BY <3>1, AppendProperties
    <3>3. pipe'[r] = IF r = p THEN Append(s, unit) ELSE s
      BY <2>2
    <3>4. QED
      BY <3>2, <3>3
  <2>4. \A a \in DOMAIN Unread :
            Len(pipe'[Inbox(a)]) = IF a = to THEN m[a] + 1 ELSE m[a]
    BY <1>1, <2>1, <2>3
  <2>5. Unread' = [a \in DOMAIN Unread |-> IF a = to THEN m[a] + 1 ELSE m[a]]
    BY <1>1, <2>4
  <2>6. CASE to \in DOMAIN Unread
    <3>1. Unread' = [m EXCEPT ![to] = m[to] + 1]
      BY <2>5, <2>6
    <3>2. QED
      BY <2>6, <3>1 DEF Mail!Delivered
  <2>7. CASE to \notin DOMAIN Unread
    <3>1. Unread' = m
      BY <2>5, <2>7
    <3>2. QED
      BY <2>7, <3>1 DEF Mail!Delivered
  <2>8. QED
    BY <2>6, <2>7
<1>5. QED
  BY <1>3, <1>4

LEMMA Produces ==
  ASSUME ShellInv, Owned, NEW x \in DOMAIN procs, Produce(x)
  PROVE  Mail!Send(x)
<1>1. PICK own : Owns(own)
  BY DEF Owned
<1>2. /\ pipe' = Put(pipe, procs[x].out, procs[x].for) /\ ShellIdle
      /\ procs' = [procs EXCEPT ![x].left = @ - 1] /\ procs[x].left > 0 /\ ~procs[x].filter
  BY DEF Produce
<1>3. /\ DOMAIN procs' = DOMAIN procs
      /\ \A y \in DOMAIN procs :
            /\ procs'[y].in = procs[y].in /\ procs'[y].out = procs[y].out
            /\ procs'[y].filter = procs[y].filter /\ procs'[y].for = procs[y].for
            /\ procs'[y].left = IF y = x THEN procs[x].left - 1 ELSE procs[y].left
  <2>1. procs' = [procs EXCEPT ![x] = [procs[x] EXCEPT !.left = procs[x].left - 1]]
    BY <1>2
  <2>2. procs[x] \in Programs /\ procs \in [DOMAIN procs -> Programs]
    BY StepTypes
  <2>3. QED
    BY <2>1, <2>2 DEF Programs
<1>4. Len(pipe') = Len(pipe)
  BY <1>2, StepTypes, Units
<1>5. SameShell
  BY <1>2, <1>3, <1>4 DEF SameShell, ShellIdle
<1>6. Unread = [a \in DOMAIN Unread |-> Len(pipe[Inbox(a)])]
  BY DEF Unread
<1>7. Unread' = Mail!Delivered(Unread, Recipient(x))
  <2>1. Unread' = Mail!Delivered([a \in DOMAIN Unread |-> Len(pipe[Inbox(a)])], Recipient(x))
    BY <1>1, <1>2, <1>5, StepTypes, PutDelivers
  <2>2. QED
    BY <1>6, <2>1
<1>8. Jobs' = [Jobs EXCEPT ![x].left = @ - 1]
  <2>1. Jobs' = [y \in DOMAIN procs |->
            [reads |-> procs[y].filter, to |-> Recipient(y),
             left |-> IF y = x THEN procs[x].left - 1 ELSE procs[y].left]]
    BY <1>3, <1>5, SameBoxes DEF Jobs
  <2>2. [Jobs[x] EXCEPT !.left = Jobs[x].left - 1] =
            [reads |-> procs[x].filter, to |-> Recipient(x), left |-> procs[x].left - 1]
    BY JobIs
  <2>3. Jobs' = [Jobs EXCEPT ![x] = [Jobs[x] EXCEPT !.left = Jobs[x].left - 1]]
    BY <2>1, <2>2 DEF Jobs
  <2>4. QED
    BY <2>3
<1>9. Turn' = Turn
  BY <1>5, SameBoxes
<1>10. ~Jobs[x].reads /\ Jobs[x].left > 0 /\ Jobs[x].to = Recipient(x)
  BY <1>2, JobIs
<1>11. QED
  BY <1>7, <1>8, <1>9, <1>10 DEF Mail!Send

LEMMA Copies ==
  ASSUME ShellInv, Owned, NEW x \in DOMAIN procs, Copy(x)
  PROVE  Mail!PassOn(x)
<1>1. PICK own : Owns(own)
  BY DEF Owned
<1> PICK d, q : d = procs[x].in /\ q = Take(pipe, d)
  OBVIOUS
<1>2. /\ pipe' = Put(q, procs[x].out, procs[x].for) /\ ShellIdle /\ procs' = procs
      /\ Available(d) /\ procs[x].filter
  BY DEF Copy
<1>3. x \in DOMAIN Unread
  BY <1>2, BoxesAre DEF Readers, ShellInv
<1>4. Inbox(x) \in 1 .. Len(pipe) /\ d = RdEnd(Inbox(x)) /\ d \in AnyEnd
  BY <1>1, <1>3, InboxIs, StepTypes
<1>5. d[1] = Inbox(x) /\ pipe[d[1]] # <<>>
  BY <1>2, <1>4, Numbers DEF Available
<1>6. /\ q \in Seq(Seq(Nat)) /\ Len(q) = Len(pipe)
      /\ \A p \in 1 .. Len(pipe) : q[p] = IF p = Inbox(x) THEN Tail(pipe[p]) ELSE pipe[p]
  <2>1. pipe \in Seq(Seq(Nat)) /\ d \in AnyEnd /\ pipe[d[1]] # <<>>
    BY <1>4, <1>5, StepTypes
  <2> PICK t : t = Take(pipe, d)
    OBVIOUS
  <2>2. /\ t \in Seq(Seq(Nat)) /\ Len(t) = Len(pipe)
        /\ \A p \in 1 .. Len(pipe) : t[p] = IF d[1] = p THEN Tail(pipe[p]) ELSE pipe[p]
    BY <2>1, Taken
  <2>3. QED
    BY <1>5, <2>2
<1>7. Len(pipe') = Len(pipe)
  <2>1. procs[x].out \in AnyEnd /\ procs[x].for \in Nat
    BY StepTypes
  <2>2. QED
    BY <1>2, <1>6, <2>1, Units
<1>8. SameShell
  BY <1>2, <1>7 DEF SameShell, ShellIdle
<1>9. Unread' = Mail!Delivered([a \in DOMAIN Unread |-> Len(q[Inbox(a)])], Recipient(x))
  BY <1>1, <1>2, <1>6, <1>8, PutDelivers
<1>10. \A a \in DOMAIN Unread : Inbox(a) \in 1 .. Len(pipe) /\ own[Inbox(a)] = a
  BY <1>1, InboxIs
<1>11. pipe[Inbox(x)] \in Seq(Nat) /\ pipe[Inbox(x)] # <<>>
  BY <1>4, <1>5, StepTypes
<1>12. Len(Tail(pipe[Inbox(x)])) = Len(pipe[Inbox(x)]) - 1 /\ Len(pipe[Inbox(x)]) > 0
  BY <1>11
<1>13. \A a \in DOMAIN Unread :
            Len(q[Inbox(a)]) = IF a = x THEN Unread[x] - 1 ELSE Unread[a]
  <2>1. \A a \in DOMAIN Unread : Unread[a] = Len(pipe[Inbox(a)])
    BY DEF Unread
  <2>2. \A a \in DOMAIN Unread : Inbox(a) = Inbox(x) => a = x
    BY <1>3, <1>10
  <2>3. QED
    BY <1>3, <1>6, <1>10, <1>12, <2>1, <2>2
<1>14. [a \in DOMAIN Unread |-> Len(q[Inbox(a)])] = [Unread EXCEPT ![x] = @ - 1]
  <2>1. [a \in DOMAIN Unread |-> Len(q[Inbox(a)])] =
            [a \in DOMAIN Unread |-> IF a = x THEN Unread[x] - 1 ELSE Unread[a]]
    BY <1>13
  <2>2. QED
    BY <1>3, <2>1 DEF Unread
<1>15. Unread[x] > 0
  BY <1>3, <1>12 DEF Unread
<1>16. Turn' = Turn /\ Jobs' = Jobs
  BY <1>2, <1>8, SameBoxes DEF Jobs, Recipient
<1>17. Jobs[x].reads /\ Jobs[x].to = Recipient(x)
  BY <1>2, JobIs
<1>18. QED
  BY <1>9, <1>14, <1>15, <1>16, <1>17 DEF Mail!PassOn

(* A program that ends has read all there is, and nobody is left to send more;
   or it is cut off, and then the one that it sends to can read no more. *)
LEMMA Finishes ==
  ASSUME ShellInv, Owned, NEW x \in DOMAIN procs, Finish(x)
  PROVE  Mail!End(x)
<1>1. PICK own : Owns(own)
  BY DEF Owned
<1>2. /\ ShellIdle /\ pipe' = pipe /\ DOMAIN procs' = DOMAIN procs \ {x}
      /\ \A y \in DOMAIN procs' : procs'[y] = procs[y]
  BY DEF Finish, Ended
<1>3. ASSUME ~procs[x].filter, procs[x].left = 0
      PROVE  Mail!Done(x)
  BY <1>3, JobIs DEF Mail!Done
<1>4. ASSUME procs[x].filter, AtEnd(procs[x].in)
      PROVE  Mail!Done(x)
  <2>1. x \in DOMAIN Unread
    BY <1>4, BoxesAre DEF Readers, ShellInv
  <2>2. PICK p \in 1 .. Len(pipe) : p = Inbox(x) /\ procs[x].in = RdEnd(p) /\ own[p] = x
    BY <1>1, <2>1, InboxIs
  <2>3. pipe[p] = <<>> /\ ~IsOpen(WrEnd(p))
    BY <1>4, <2>2, Numbers DEF AtEnd
  <2>4. Unread[x] = 0
    BY <2>1, <2>2, <2>3 DEF Unread
  <2>5. ASSUME NEW y \in DOMAIN procs, Recipient(y) = x
        PROVE  FALSE
    <3>1. procs[y].out # Tty
      BY <1>1, <2>1, <2>5, SentTo
    <3>2. PICK r \in 1 .. Len(pipe) : procs[y].out = WrEnd(r) /\ own[r] = x
      BY <1>1, <2>5, <3>1, SentTo
    <3>3. r = p
      BY <1>1, <2>2, <3>2 DEF Owns
    <3>4. IsOpen(WrEnd(p))
      BY <3>2, <3>3 DEF IsOpen, OpenAt
    <3>5. QED
      BY <2>3, <3>4
  <2>6. \A y \in DOMAIN Jobs : Jobs[y].to # x
    BY <2>5, JobIs DEF Jobs
  <2>7. QED
    BY <1>4, <2>4, <2>6, JobIs DEF Mail!Done
<1>5. ASSUME Broken(procs[x].out)
      PROVE  Mail!Lost(x)
  <2>1. Piped(procs[x].out) /\ ~IsOpen(RdEnd(procs[x].out[1]))
    BY <1>5 DEF Broken
  <2>2. procs[x].out # Tty
    BY <2>1 DEF Piped
  <2>3. PICK p \in 1 .. Len(pipe) :
            /\ procs[x].out = WrEnd(p) /\ Recipient(x) # Mail!Terminal
            /\ \A a \in DOMAIN Unread : Inbox(a) = p <=> a = Recipient(x)
    BY <1>1, <2>2, SentTo
  <2>4. ~IsOpen(RdEnd(p))
    BY <2>1, <2>3, Numbers
  <2>5. \A a \in DOMAIN Unread : IsOpen(RdEnd(Inbox(a)))
    BY <1>1, InboxIs
  <2>6. Recipient(x) \notin DOMAIN Unread
    BY <2>3, <2>4, <2>5
  <2>7. QED
    BY <2>3, <2>6, JobIs DEF Mail!Lost
<1>6. Mail!Done(x) \/ Mail!Lost(x)
  BY <1>3, <1>4, <1>5 DEF Finish
<1>7. Turn' = Turn /\ Expected' = Expected /\ pc' = pc
  BY <1>2 DEF ShellIdle, Turn, Expected
<1>8. \A y \in DOMAIN procs' : Recipient(y)' = Recipient(y)
  BY <1>2 DEF Recipient
<1>9. Jobs' = [y \in DOMAIN Jobs \ {x} |-> Jobs[y]]
  BY <1>2, <1>8 DEF Jobs
<1>10. x \notin Expected
  BY ExpectedToStart
<1>11. Readers' = Readers \ {x}
  BY <1>2 DEF Readers
<1>12. /\ DOMAIN Unread' = Readers' \cup (IF pc' = "dead" THEN {} ELSE Expected')
       /\ DOMAIN Unread = Readers \cup (IF pc = "dead" THEN {} ELSE Expected)
       /\ \A a \in DOMAIN Unread : Unread[a] = Len(pipe[Inbox(a)])
       /\ Unread' = [a \in DOMAIN Unread' |-> Len(pipe'[Inbox(a)'])]
  BY DEF Unread
<1>13. DOMAIN Unread' = DOMAIN Unread \ {x}
  BY <1>7, <1>10, <1>11, <1>12
<1>14. \A a \in DOMAIN Unread \ {x} : Inbox(a)' = Inbox(a)
  BY <1>2 DEF Inbox, ShellIdle
<1>15. Mail!Boxes(DOMAIN Unread \ {x})
  BY <1>2, <1>12, <1>13, <1>14 DEF Mail!Boxes
<1>16. QED
  BY <1>6, <1>7, <1>9, <1>15 DEF Mail!End

-----------------------------------------------------------------------------
(* The steps of the shell. *)

(* Boxes, from what is in the pipes that they stand for. *)
LEMMA BoxesFrom ==
  ASSUME NEW S, DOMAIN Unread' = S,
         \A a \in S : Len(pipe'[Inbox(a)']) = IF a \in DOMAIN Unread THEN Unread[a] ELSE 0
  PROVE  Mail!Boxes(S)
<1>1. Unread' = [a \in DOMAIN Unread' |-> Len(pipe'[Inbox(a)'])]
  BY DEF Unread
<1>2. QED
  BY <1>1 DEF Mail!Boxes

(* The shell ends, or a line ends in which nothing more is started. *)
LEMMA QuietMail ==
  ASSUME ShellInv, QuietStep
  PROVE  Mail!Skip \/ Mail!Exit \/ UNCHANGED <<Turn, Jobs, Unread>>
<1>1. /\ UNCHANGED <<total, arr, stage, procs, pipe>> /\ pc' \in {pc, "prompt", "wild", "dead"}
      /\ pc' = "dead" => pc \in {"obey", "dead"}
      /\ pc = "dead" => pc' = "dead"
  BY DEF QuietStep
<1>2. /\ TableInv /\ total \in Nat /\ stage \in Nat /\ Jobs' = Jobs /\ Readers' = Readers
      /\ \A a : Inbox(a)' = Inbox(a)
  BY <1>1, ShellAssumption DEF ShellInv, TableInv, Typed, Jobs, Recipient, Readers, Inbox
<1>3. /\ DOMAIN Unread' = Readers' \cup (IF pc' = "dead" THEN {} ELSE Expected')
      /\ DOMAIN Unread = Readers \cup (IF pc = "dead" THEN {} ELSE Expected)
      /\ \A a \in DOMAIN Unread : Unread[a] = Len(pipe[Inbox(a)])
      /\ Unread' = [a \in DOMAIN Unread' |-> Len(pipe'[Inbox(a)'])]
      /\ Unread = [a \in DOMAIN Unread |-> Len(pipe[Inbox(a)])]
  BY DEF Unread
<1>4. CASE pc' = pc \/ (pc # "obey" /\ pc' # "obey")
  <2>1. Turn' = Turn
    BY <1>1, <1>4 DEF Turn
  <2>2. Expected' = Expected /\ (pc' = "dead" <=> pc = "dead")
    BY <1>1, <1>4, <2>1 DEF Expected
  <2>3. DOMAIN Unread' = DOMAIN Unread
    BY <1>2, <1>3, <2>2
  <2>4. Unread' = Unread
    BY <1>1, <1>2, <1>3, <2>3
  <2>5. QED
    BY <1>2, <2>1, <2>4
<1>5. CASE pc = "obey" /\ pc' # "obey"
  <2> PICK x : x = <<total, stage>>
    OBVIOUS
  <2>1. /\ Turn = x /\ x[1] = total /\ x[2] = stage /\ stage \in Nat \ {0}
        /\ x \notin DOMAIN procs
    BY <1>2, <1>5, CmdIs, PidsAre DEF Turn, ShellInv, ProgramInv
  <2>2. Turn' = Mail!NextLine
    BY <1>1, <1>5, <2>1 DEF Turn, Mail!NextLine
  <2>3. Expected' = Later(arr, total)
    <3>1. Expected' = ExpectedAt(arr, total, <<total + 1, 1>>)
      BY <1>1, <1>5 DEF Expected, ExpectedAt, Turn
    <3>2. \A h \in DOMAIN arr : arr[h].dest \in Nat
      BY <1>2, ArrIs
    <3>3. QED
      BY <1>2, <3>1, <3>2, Expects
  <2>4. Later(arr, total) = Expected \ {x} /\ Readers = Readers \ {x}
    <3>1. x \notin Later(arr, total)
      BY <1>2, <2>1 DEF Later
    <3>2. x \notin Readers
      BY <2>1 DEF Readers
    <3>3. CASE stage > 1
      BY <1>2, <1>5, <3>1, <3>2, <3>3, BoxesAre
    <3>4. CASE stage = 1
      <4>1. Expected = Later(arr, total - 1)
        BY <1>2, <1>5, <3>4, BoxesAre
      <4>2. \A h \in DOMAIN arr : arr[h].dest \in Nat
        BY <1>2, ArrIs
      <4>3. \A h \in DOMAIN arr : arr[h].dest > total - 1 <=> (arr[h].dest > total \/ arr[h].dest = total)
        BY <1>2, <4>2
      <4>4. \A h \in DOMAIN arr : (<<arr[h].dest, 1>> = x <=> arr[h].dest = total)
        BY <3>4
      <4>5. \A a : a \in Later(arr, total - 1) <=> (a \in Later(arr, total) \/
                                                     (a = x /\ \E h \in DOMAIN arr : arr[h].dest = total))
        BY <4>3, <4>4 DEF Later
      <4>6. QED
        BY <3>1, <3>2, <4>1, <4>5
    <3>5. QED
      BY <2>1, <3>3, <3>4
  <2>5. CASE pc' # "dead"
    <3>1. DOMAIN Unread' = DOMAIN Unread \ {x}
      BY <1>2, <1>3, <1>5, <2>3, <2>4, <2>5
    <3>2. Mail!Boxes(DOMAIN Unread \ {x})
      BY <1>1, <1>2, <1>3, <3>1 DEF Mail!Boxes
    <3>3. QED
      BY <1>2, <2>1, <2>2, <3>2 DEF Mail!Skip
  <2>6. CASE pc' = "dead"
    <3>1. DOMAIN Jobs = DOMAIN procs /\ Readers \subseteq DOMAIN procs
      BY DEF Jobs, Readers
    <3>2. Expected \cap DOMAIN procs = {}
      BY ExpectedToStart
    <3>3. DOMAIN Unread' = DOMAIN Unread \cap DOMAIN Jobs
      BY <1>2, <1>3, <1>5, <2>6, <3>1, <3>2
    <3>4. Mail!Boxes(DOMAIN Unread \cap DOMAIN Jobs)
      BY <1>1, <1>2, <1>3, <3>3 DEF Mail!Boxes
    <3>5. QED
      BY <1>2, <2>2, <3>4 DEF Mail!Exit
  <2>7. QED
    BY <2>5, <2>6
<1>6. QED
  BY <1>1, <1>4, <1>5

(* A line is read: it may promise its output to a later line, the first to. *)
LEMMA ReadLineMail ==
  ASSUME ShellInv, Owned, NEW c \in Commands, ReadLine(c)
  PROVE  \/ \E line \in {l + d.num : l \in 1 .. MaxLines, d \in Commands} : Mail!Promise(line)
         \/ Mail!Skip
         \/ UNCHANGED <<Turn, Jobs, Unread>>
<1>1. PICK own : Owns(own)
  BY DEF Owned
<1>2. /\ pc = "prompt" /\ total' = total + 1 /\ stage' = 1 /\ UNCHANGED procs
      /\ total < MaxLines
  BY DEF ReadLine
<1>3. /\ TableInv /\ Filled /\ total \in Nat /\ total + 1 \in 1 .. MaxLines
      /\ arr \in Seq([dest : Nat, r : FD, w : FD, p : Nat]) /\ DOMAIN arr = 1 .. Len(arr)
      /\ \A h \in DOMAIN arr : arr[h].dest \in Nat
      /\ c.num \in Nat
  <2>1. TableInv /\ Filled /\ arr \in Seq([dest : Nat, r : FD, w : FD, p : Nat])
    BY DEF ShellInv, ProgramInv, TableInv, Typed
  <2>2. total \in Nat /\ MaxLines \in Nat
    BY ShellAssumption DEF ShellInv, TableInv, Typed
  <2>3. total + 1 \in 1 .. MaxLines
    BY <1>2, <2>2
  <2>4. DOMAIN arr = 1 .. Len(arr)
    BY <2>1
  <2>5. \A h \in DOMAIN arr : arr[h].dest \in Nat
    BY <2>1, ArrIs
  <2>6. c.num \in Nat
    <3>1. c \in [kind : {"simple", "pipeline", "builtin", "redirect", "exit"},
                 num : Nat, stages : Nat \ {0}, filter : BOOLEAN, out : Nat]
      BY ShellAssumption
    <3>2. QED
      BY <3>1
  <2>7. QED
    BY <2>1, <2>2, <2>3, <2>4, <2>5, <2>6
<1>4. /\ Turn = <<total + 1, 1>> /\ Expected = Later(arr, total)
      /\ DOMAIN Unread = Readers \cup Later(arr, total)
      /\ \A a \in DOMAIN Unread : Unread[a] = Len(pipe[Inbox(a)]) /\ Inbox(a) \in 1 .. Len(pipe)
      /\ Unread = [a \in DOMAIN Unread |-> Len(pipe[Inbox(a)])]
  <2>1. /\ Turn = <<total + 1, 1>> /\ Expected = Later(arr, total)
        /\ DOMAIN Unread = Readers \cup Later(arr, total)
        /\ \A a \in DOMAIN Unread : Unread[a] = Len(pipe[Inbox(a)])
    BY <1>2, <1>3, BoxesAre
  <2>2. \A a \in DOMAIN Unread : Inbox(a) \in 1 .. Len(pipe)
    BY <1>1, InboxIs
  <2>3. QED
    BY <2>1, <2>2 DEF Unread
<1>5. Jobs' = Jobs /\ Readers' = Readers
  BY <1>2 DEF Jobs, Recipient, Readers
<1>6. /\ DOMAIN Unread' = Readers' \cup (IF pc' = "dead" THEN {} ELSE Expected')
      /\ Unread' = [a \in DOMAIN Unread' |-> Len(pipe'[Inbox(a)'])]
      /\ pc' \in {"obey", "wild"}
  BY DEF Unread, ReadLine
<1>7. \A a \in Later(arr, total) : a[1] \in Nat /\ a[1] > total /\ a[2] = 1 /\ a \notin DOMAIN procs
  <2>1. \A a \in Later(arr, total) : a[1] \in Nat /\ a[1] > total /\ a[2] = 1
    BY <1>3 DEF Later
  <2>2. \A a \in Later(arr, total) : a \notin DOMAIN procs
    BY <1>4, ExpectedToStart
  <2>3. QED
    BY <2>1, <2>2
<1>8. CASE arr' = arr /\ pipe' = pipe /\ pc' = "obey"
  <2>1. Turn' = <<total', 1>> /\ Turn' = Turn
    BY <1>2, <1>4, <1>8 DEF Turn
  <2>2. Expected' = ExpectedAt(arr, total', <<total', 1>>)
    BY <1>8, <2>1 DEF Expected, ExpectedAt
  <2>3. Expected' = Later(arr, total)
    <3>1. total' \in Nat /\ total' - 1 = total
      BY <1>2, <1>3
    <3>2. ExpectedAt(arr, total', <<total', 1>>) = Later(arr, total' - 1)
      BY <1>3, <3>1, Expects
    <3>3. QED
      BY <2>2, <3>1, <3>2
  <2>4. DOMAIN Unread' = DOMAIN Unread
    BY <1>4, <1>5, <1>6, <1>8, <2>3
  <2>5. \A a : Inbox(a)' = Inbox(a)
    BY <1>2, <1>8 DEF Inbox
  <2>6. Unread' = Unread
    BY <1>4, <1>6, <1>8, <2>4, <2>5
  <2>7. QED
    BY <1>5, <2>1, <2>6
<1>9. CASE arr' = arr /\ pipe' = pipe /\ pc' = "wild"
  <2>1. Turn' = <<total' + 1, 1>> /\ Turn' = Mail!NextLine
    BY <1>2, <1>4, <1>9 DEF Turn, Mail!NextLine
  <2>2. Expected' = ExpectedAt(arr, total', <<total' + 1, 1>>)
    BY <1>9, <2>1 DEF Expected, ExpectedAt
  <2>3. Expected' = Later(arr, total + 1)
    <3>1. total' \in Nat
      BY <1>2, <1>3
    <3>2. ExpectedAt(arr, total', <<total' + 1, 1>>) = Later(arr, total')
      BY <1>3, <3>1, Expects
    <3>3. QED
      BY <1>2, <2>2, <3>2
  <2>4. \A h \in DOMAIN arr : arr[h].dest > total + 1 <=> (arr[h].dest > total /\ arr[h].dest # total + 1)
    BY <1>3
  <2>5. \A h \in DOMAIN arr : <<arr[h].dest, 1>> = Turn <=> arr[h].dest = total + 1
    BY <1>4
  <2>6. Later(arr, total + 1) = Later(arr, total) \ {Turn}
    BY <2>4, <2>5 DEF Later
  <2>7. Turn \notin Readers
    <3>1. Turn[1] = total + 1
      BY <1>4
    <3>2. \A x \in DOMAIN procs : x[1] \in Nat /\ x[1] <= total
      BY <1>3, PidsAre DEF ShellInv, ProgramInv, Numbering
    <3>3. QED
      BY <1>3, <3>1, <3>2 DEF Readers
  <2>8. DOMAIN Unread' = DOMAIN Unread \ {Turn}
    BY <1>4, <1>5, <1>6, <1>9, <2>3, <2>6, <2>7
  <2>9. \A a : Inbox(a)' = Inbox(a)
    BY <1>2, <1>9 DEF Inbox
  <2>10. Mail!Boxes(DOMAIN Unread \ {Turn})
    BY <1>4, <1>6, <1>9, <2>8, <2>9 DEF Mail!Boxes
  <2>11. QED
    BY <1>5, <2>1, <2>10 DEF Mail!Skip
<1>10. CASE ~(arr' = arr /\ pipe' = pipe)
  <2> DEFINE d == total + 1 + c.num
  <2> PICK e, new : /\ e = [dest |-> d, r |-> NewEnds(F).r, w |-> NewEnds(F).w, p |-> Len(pipe) + 1]
                    /\ new = <<d, 1>>
    OBVIOUS
  <2>1. /\ arr' = Append(arr, e) /\ pipe' = Append(pipe, <<>>) /\ DueFor(arr, d) = {}
        /\ pc' = "obey" /\ c.num > 0
    BY <1>10 DEF ReadLine, Joins
  <2>2. d \in Nat /\ d > total + 1 /\ d \in {l + x.num : l \in 1 .. MaxLines, x \in Commands}
    <3>1. d = (total + 1) + c.num
      OBVIOUS
    <3>2. QED
      BY <1>3, <2>1, <3>1
  <2> HIDE DEF d
  <2>3. new[1] = d /\ new[2] = 1 /\ e.dest = d /\ e.p = Len(pipe) + 1
    OBVIOUS
  <2>4. \A h \in DOMAIN arr : arr[h].dest # d
    BY <1>3, <2>1 DEF DueFor
  <2>5. /\ DOMAIN arr' = DOMAIN arr \cup {Len(arr) + 1} /\ arr'[Len(arr) + 1] = e
        /\ \A h \in DOMAIN arr : arr'[h] = arr[h]
        /\ DOMAIN arr' = 1 .. Len(arr') /\ Len(arr) \in Nat
    BY <1>3, <2>1
  <2>6. Turn' = <<total', 1>> /\ Turn' = Turn
    BY <1>2, <1>4, <2>1 DEF Turn
  <2>7. Expected' = Later(arr', total)
    <3>1. Expected' = ExpectedAt(arr', total', <<total', 1>>)
      BY <2>6 DEF Expected, ExpectedAt
    <3>2. \A h \in DOMAIN arr' : arr'[h].dest \in Nat
      BY <1>3, <2>2, <2>3, <2>5
    <3>3. total' \in Nat /\ total' - 1 = total
      BY <1>2, <1>3
    <3>4. ExpectedAt(arr', total', <<total', 1>>) = Later(arr', total' - 1)
      BY <3>2, <3>3, Expects
    <3>5. QED
      BY <3>1, <3>3, <3>4
  <2>8. Later(arr', total) = Later(arr, total) \cup {new}
    <3>1. d > total
      BY <1>3, <2>2
    <3>2. \A a : a \in Later(arr', total) <=>
                \E h \in DOMAIN arr' : a = <<arr'[h].dest, 1>> /\ arr'[h].dest > total
      BY DEF Later
    <3>3. \A a : a \in Later(arr, total) <=>
                \E h \in DOMAIN arr : a = <<arr[h].dest, 1>> /\ arr[h].dest > total
      BY DEF Later
    <3>4. \A a : a \in Later(arr', total) <=> a \in Later(arr, total) \/ a = new
      BY <2>3, <2>5, <3>1, <3>2, <3>3
    <3>5. QED
      BY <3>4
  <2>9. DOMAIN Unread' = DOMAIN Unread \cup {new}
    BY <1>4, <1>5, <1>6, <2>1, <2>7, <2>8
  <2>10. new \notin DOMAIN Unread /\ new \notin DOMAIN procs
    <3>1. new \notin Later(arr, total)
      BY <2>3, <2>4 DEF Later
    <3>2. \A x \in DOMAIN procs : x[1] \in Nat /\ x[1] <= total
      BY <1>3, PidsAre DEF ShellInv, ProgramInv, Numbering
    <3>3. new \notin DOMAIN procs
      BY <1>3, <2>2, <2>3, <3>2
    <3>4. QED
      BY <1>4, <3>1, <3>3 DEF Readers
  <2>11. /\ pipe'[Len(pipe) + 1] = <<>>
         /\ \A p \in 1 .. Len(pipe) : pipe'[p] = pipe[p]
    BY <1>3, <2>1, EmptyAppended
  <2>12. \A a \in DOMAIN Unread : Inbox(a)' = Inbox(a)
    <3> TAKE a \in DOMAIN Unread
    <3>1. CASE a \in DOMAIN procs
      BY <1>2, <3>1 DEF Inbox
    <3>2. CASE a \notin DOMAIN procs
      <4>1. a \in Later(arr, total)
        BY <1>4, <3>2 DEF Readers
      <4>2. PICK h \in DOMAIN arr : a = <<arr[h].dest, 1>>
        BY <4>1 DEF Later
      <4>3. a[1] = arr[h].dest /\ a[2] = 1 /\ a[1] # d
        BY <2>4, <4>2
      <4>4. DueFor(arr, a[1]) = {h} /\ Least(DueFor(arr, a[1])) = h
        <5>1. h \in DueFor(arr, a[1])
          BY <1>3, <4>3 DEF DueFor
        <5>2. QED
          BY <1>3, <5>1, DueOne
      <4>5. DueFor(arr', a[1]) = {h}
        BY <1>3, <2>3, <2>5, <4>3, <4>4 DEF DueFor
      <4>6. Inbox(a)' = arr'[h].p
        BY <1>2, <3>2, <4>3, <4>4, <4>5 DEF Inbox
      <4>7. Inbox(a) = arr[h].p
        BY <3>2, <4>3, <4>4 DEF Inbox
      <4>8. QED
        BY <2>5, <4>6, <4>7
    <3>3. QED
      BY <3>1, <3>2
  <2>13. Inbox(new)' = Len(pipe) + 1
    <3>1. DueFor(arr', d) = {Len(arr) + 1}
      BY <1>3, <2>3, <2>4, <2>5 DEF DueFor
    <3>2. Least({Len(arr) + 1}) = Len(arr) + 1
      <4>1. {Len(arr) + 1} \in SUBSET Nat /\ {Len(arr) + 1} # {}
        BY <2>5
      <4>2. QED
        BY <4>1, LeastIn
    <3>3. QED
      BY <1>2, <2>3, <2>5, <2>10, <3>1, <3>2 DEF Inbox
  <2>14. \A a \in DOMAIN Unread : Len(pipe'[Inbox(a)']) = Unread[a]
    BY <1>4, <2>11, <2>12
  <2>15. Len(pipe'[Inbox(new)']) = 0
    BY <2>11, <2>13
  <2>16. Mail!Boxes(DOMAIN Unread \cup {new})
    BY <2>9, <2>10, <2>14, <2>15, BoxesFrom
  <2>17. Turn[1] = total + 1 /\ Turn[2] = 1
    BY <1>4
  <2>18. Mail!Promise(d)
    BY <1>5, <2>2, <2>6, <2>10, <2>16, <2>17 DEF Mail!Promise
  <2>19. QED
    BY <2>2, <2>18
<1>11. QED
  BY <1>6, <1>8, <1>9, <1>10 DEF ReadLine

\* What a program that the shell starts is to do.
JobOf(q, to) == [reads |-> q.filter, to |-> to, left |-> q.left]

(* Before a program is started there is a box for what it is to read, and none
   yet for what it writes to the next of its line. *)
LEMMA BeforeFork ==
  ASSUME ShellInv, pc = "obey", NEW x, x = <<total, stage>>
  PROVE  /\ Turn = x /\ Mail!NextPlace = <<total, stage + 1>> /\ Mail!NextLine = <<total + 1, 1>>
         /\ total \in Nat /\ stage \in Nat \ {0} /\ x[1] = total /\ x[2] = stage
         /\ x \notin DOMAIN procs /\ x \notin Readers /\ x \notin Later(arr, total)
         /\ Mail!NextPlace \notin DOMAIN procs
         /\ \A a \in Later(arr, total) :
                a[1] > total /\ a[2] = 1 /\ a \notin DOMAIN procs /\ a # Mail!NextPlace
         /\ DOMAIN Unread \ {x} = Readers \cup Later(arr, total)
         /\ (stage > 1 \/ DueFor(arr, total) # {}) => x \in DOMAIN Unread
<1>1. /\ TableInv /\ Numbering /\ total \in Nat /\ stage \in Nat \ {0}
      /\ x[1] = total /\ x[2] = stage
  BY CmdIs DEF ShellInv, ProgramInv
<1>2. Turn = x /\ Mail!NextPlace = <<total, stage + 1>> /\ Mail!NextLine = <<total + 1, 1>>
  BY <1>1 DEF Turn, Mail!NextPlace, Mail!NextLine
<1>3. x \notin DOMAIN procs /\ x \notin Readers
  BY <1>1, PidsAre DEF Readers
<1>4. \A h \in DOMAIN arr : arr[h].dest \in Nat
  BY <1>1, ArrIs
<1>5. \A a \in Later(arr, total) : a[1] > total /\ a[2] = 1
  BY DEF Later
<1>6. x \notin Later(arr, total)
  BY <1>1, <1>5
<1>7. Mail!NextPlace \notin DOMAIN procs
  <2>1. \A y \in DOMAIN procs : y[1] = total => y[2] < stage
    BY <1>1 DEF Numbering
  <2>2. ~(stage + 1 < stage)
    BY <1>1
  <2>3. Mail!NextPlace[1] = total /\ Mail!NextPlace[2] = stage + 1
    BY <1>2
  <2>4. QED
    BY <2>1, <2>2, <2>3
<1>8. \A a \in Later(arr, total) : a \notin DOMAIN procs
  <2>1. \A y \in DOMAIN procs : y[1] \in Nat /\ y[1] <= total
    BY <1>1, PidsAre DEF Numbering
  <2>2. QED
    BY <1>1, <1>5, <2>1
<1>9. \A a \in Later(arr, total) : a # Mail!NextPlace
  <2>1. Mail!NextPlace[2] # 1
    BY <1>1, <1>2
  <2>2. QED
    BY <1>5, <2>1
<1>10. DOMAIN Unread = Readers \cup Expected
  BY <1>1, BoxesAre
<1>11. CASE stage > 1
  <2>1. Expected = Later(arr, total) \cup {x}
    BY <1>1, <1>11, BoxesAre
  <2>2. QED
    BY <1>1, <1>2, <1>3, <1>5, <1>6, <1>7, <1>8, <1>9, <1>10, <2>1
<1>12. CASE stage = 1
  <2>1. Expected = Later(arr, total - 1)
    BY <1>1, <1>12, BoxesAre
  <2>2. \A h \in DOMAIN arr :
            arr[h].dest > total - 1 <=> (arr[h].dest > total \/ arr[h].dest = total)
    BY <1>1, <1>4
  <2>3. \A h \in DOMAIN arr : <<arr[h].dest, 1>> = x <=> arr[h].dest = total
    BY <1>12
  <2>4. \A a : a \in Later(arr, total - 1) <=>
            (a \in Later(arr, total) \/ (a = x /\ \E h \in DOMAIN arr : arr[h].dest = total))
    BY <2>2, <2>3 DEF Later
  <2>5. DueFor(arr, total) # {} => \E h \in DOMAIN arr : arr[h].dest = total
    BY <1>1, DueOne
  <2>6. DOMAIN Unread \ {x} = Readers \cup Later(arr, total)
    BY <1>3, <1>6, <1>10, <2>1, <2>4
  <2>7. DueFor(arr, total) # {} => x \in DOMAIN Unread
    BY <1>10, <2>1, <2>4, <2>5
  <2>8. QED
    BY <1>1, <1>2, <1>3, <1>5, <1>6, <1>7, <1>8, <1>9, <1>12, <2>6, <2>7
<1>13. QED
  BY <1>1, <1>11, <1>12

(* A program is started: the pipe that it is given to read is the box at its
   address, and it may send to the next of its line, to a line that its output
   was promised to, or to the terminal. *)
LEMMA ForkMail ==
  ASSUME ShellInv, Owned, NEW q, ShellForks(q)
  PROVE  \E r \in [reads : BOOLEAN, to : DOMAIN Unread \cup {Mail!Terminal, Mail!NextPlace},
                  left : {c.out : c \in Commands} \cup {0}] : Mail!Start(r)
<1> PICK x, to, next, P : /\ x = <<total, stage>> /\ to = Recipient(x)'
                          /\ next = Mail!NextPlace /\ P = Later(arr, total)
  OBVIOUS
<1>1. PICK own : Owns(own)
  BY DEF Owned
<1>2. /\ pc = "obey" /\ ForkedAs(q) /\ UNCHANGED <<total, arr>> /\ pc' # "dead"
      /\ TableInv /\ Filled /\ pipe' \in {pipe, Append(pipe, <<>>)}
      /\ pc' = "obey" => stage' = stage + 1 /\ pipe' = Append(pipe, <<>>)
  BY DEF ShellForks, ShellInv, ProgramInv
<1>3. /\ Turn = x /\ Mail!NextPlace = <<total, stage + 1>> /\ Mail!NextLine = <<total + 1, 1>>
      /\ total \in Nat /\ stage \in Nat \ {0} /\ x[1] = total /\ x[2] = stage
      /\ x \notin DOMAIN procs /\ x \notin Readers /\ x \notin P
      /\ Mail!NextPlace \notin DOMAIN procs
      /\ \A a \in P : a[1] > total /\ a[2] = 1 /\ a \notin DOMAIN procs /\ a # Mail!NextPlace
      /\ DOMAIN Unread \ {x} = Readers \cup P
      /\ (stage > 1 \/ DueFor(arr, total) # {}) => x \in DOMAIN Unread
  BY <1>2, BeforeFork
<1>4. /\ DOMAIN procs' = DOMAIN procs \cup {x} /\ procs'[x] = q
      /\ \A y \in DOMAIN procs : procs'[y] = procs[y]
  BY <1>2, <1>3, StartTyped DEF ForkedAs
<1>5. q \in Programs /\ q.filter \in BOOLEAN /\ q.left \in {c.out : c \in Commands} \cup {0}
  <2>1. q \in Programs /\ q.left \in {cmd.out, 0} /\ cmd \in Commands
    BY <1>2 DEF ForkedAs, TableInv, Obeyed
  <2>2. QED
    BY <2>1 DEF Programs
<1>6. Turn' = IF pc' = "obey" THEN Mail!NextPlace ELSE Mail!NextLine
  BY <1>2, <1>3 DEF Turn
<1>7. Jobs' = [a \in DOMAIN Jobs \cup {Turn} |-> IF a = Turn THEN JobOf(q, to) ELSE Jobs[a]]
  <2>1. \A y \in DOMAIN procs : y # x /\ Recipient(y)' = Recipient(y)
    BY <1>3, <1>4 DEF Recipient
  <2>2. QED
    BY <1>3, <1>4, <2>1 DEF Jobs, JobOf
<1>8. /\ to \in {Mail!Terminal, Mail!NextPlace} \cup {a \in DOMAIN Unread : a[1] > Turn[1]}
      /\ pc' # "obey" => to # Mail!NextPlace
  <2>1. to = IF q.out = Tty THEN <<0, 0>>
             ELSE IF q.for = total THEN Mail!NextPlace ELSE <<q.for, 1>>
    BY <1>3, <1>4 DEF Recipient
  <2>2. CASE q.out = Tty
    <3>1. to = Mail!Terminal
      BY <2>1, <2>2 DEF Mail!Terminal
    <3>2. <<0, 0>> # <<total, stage + 1>>
      BY <1>3
    <3>3. QED
      BY <1>3, <3>1, <3>2 DEF Mail!Terminal
  <2>3. CASE q.out = WrEnd(Len(pipe) + 1) /\ q.for = total /\ pc' = pc
    BY <1>2, <2>1, <2>3, Numbers
  <2>4. ASSUME q.out # Tty, cmd.num > 0, q.for = total + cmd.num,
               NEW h \in DueFor(arr, total + cmd.num)
        PROVE  /\ to \in {a \in DOMAIN Unread : a[1] > Turn[1]}
               /\ to # Mail!NextPlace
    <3>1. q.for # total /\ q.for > total
      BY <1>2, <1>3, <2>4, CmdIs
    <3>2. to = <<q.for, 1>>
      BY <2>1, <2>4, <3>1
    <3>3. h \in DOMAIN arr /\ arr[h].dest = q.for
      BY <1>2, <2>4, DueOne
    <3>4. to \in P
      BY <3>1, <3>2, <3>3 DEF Later
    <3>5. QED
      BY <1>3, <3>4
  <2>5. \/ q.out = Tty
        \/ q.out = WrEnd(Len(pipe) + 1) /\ q.for = total /\ pc' = pc
        \/ q.out # Tty /\ cmd.num > 0 /\ q.for = total + cmd.num
             /\ \E h \in DueFor(arr, total + cmd.num) : TRUE
    BY <1>2 DEF ForkedAs
  <2>6. QED
    BY <1>2, <2>2, <2>3, <2>4, <2>5
<1>9. ASSUME q.filter
      PROVE  x \in DOMAIN Unread /\ q.in[1] = Inbox(x)
  <2>1. CASE stage > 1
    <3>1. q.in = RdEnd(Len(pipe)) /\ x \in DOMAIN Unread
      BY <1>2, <1>3, <2>1 DEF ForkedAs
    <3>2. Inbox(x) = Len(pipe)
      BY <1>3, <2>1 DEF Inbox
    <3>3. QED
      BY <3>1, <3>2, Numbers
  <2>2. CASE stage = 1
    <3>1. PICK h \in DueFor(arr, total) : q.in = RdEnd(arr[h].p)
      BY <1>2, <1>9, <2>2 DEF ForkedAs
    <3>2. Least(DueFor(arr, total)) = h
      BY <1>2, DueOne
    <3>3. Inbox(x) = arr[h].p
      BY <1>3, <2>2, <3>2 DEF Inbox
    <3>4. QED
      BY <1>3, <3>1, <3>3, Numbers
  <2>3. QED
    BY <1>3, <2>1, <2>2
<1> DEFINE kept == IF q.filter THEN DOMAIN Unread ELSE DOMAIN Unread \ {x}
<1>10. kept = Readers \cup P \cup (IF q.filter THEN {x} ELSE {})
  BY <1>3, <1>9
<1>11. DOMAIN Unread' = kept \cup (IF pc' = "obey" THEN {Mail!NextPlace} ELSE {})
  <2>1. Readers' = Readers \cup (IF q.filter THEN {x} ELSE {})
    BY <1>3, <1>4 DEF Readers
  <2>2. Expected' = ExpectedAt(arr, total, Turn')
    BY <1>2 DEF Expected, ExpectedAt
  <2>3. \A h \in DOMAIN arr : arr[h].dest \in Nat
    BY <1>2, ArrIs
  <2>4. Expected' = P \cup (IF pc' = "obey" THEN {Mail!NextPlace} ELSE {})
    <3>1. CASE pc' = "obey"
      <4>1. stage + 1 \in Nat /\ stage + 1 > 1
        BY <1>3
      <4> PICK i : i = stage + 1
        OBVIOUS
      <4>2. ExpectedAt(arr, total, <<total, i>>) = Later(arr, total) \cup {<<total, i>>}
        <5>1. \A j \in Nat : j > 1 =>
                ExpectedAt(arr, total, <<total, j>>) = Later(arr, total) \cup {<<total, j>>}
          BY <1>3, <2>3, Expects
        <5>2. QED
          BY <4>1, <5>1
      <4>3. QED
        BY <1>3, <1>6, <2>2, <3>1, <4>2
    <3>2. CASE pc' # "obey"
      <4>1. ExpectedAt(arr, total, <<total + 1, 1>>) = Later(arr, total)
        BY <1>3, <2>3, Expects
      <4>2. QED
        BY <1>3, <1>6, <2>2, <3>2, <4>1
    <3>3. QED
      BY <3>1, <3>2
  <2>5. DOMAIN Unread' = Readers' \cup Expected'
    BY <1>2 DEF Unread
  <2>6. QED
    BY <1>10, <2>1, <2>4, <2>5
<1> HIDE DEF kept
<1>12. /\ Len(pipe) \in Nat /\ \A p \in 1 .. Len(pipe) : pipe'[p] = pipe[p]
       /\ pc' = "obey" => pipe'[Len(pipe')] = <<>>
  <2>1. CASE pipe' = pipe
    BY <1>2, <2>1 DEF TableInv, Typed
  <2>2. CASE pipe' = Append(pipe, <<>>)
    BY <1>2, <2>2, EmptyAppended
  <2>3. QED
    BY <1>2, <2>1, <2>2
<1>13. ASSUME NEW a \in kept
       PROVE  a \in DOMAIN Unread /\ Len(pipe'[Inbox(a)']) = Unread[a]
  <2>1. a \in DOMAIN Unread
    BY <1>13 DEF kept
  <2>2. Inbox(a)' = Inbox(a)
    <3>1. CASE a \in Readers
      BY <1>4, <3>1 DEF Readers, Inbox
    <3>2. CASE a \in P
      <4>1. a \notin DOMAIN procs /\ a \notin DOMAIN procs' /\ a[2] = 1
        BY <1>3, <1>4, <3>2
      <4>2. QED
        BY <1>2, <4>1 DEF Inbox
    <3>3. CASE a = x /\ q.filter
      <4>1. Inbox(a)' = q.in[1]
        BY <1>4, <3>3 DEF Inbox
      <4>2. QED
        BY <1>9, <3>3, <4>1
    <3>4. QED
      BY <1>10, <1>13, <3>1, <3>2, <3>3
  <2>3. Inbox(a) \in 1 .. Len(pipe)
    BY <1>1, <2>1, InboxIs
  <2>4. Unread[a] = Len(pipe[Inbox(a)])
    BY <1>2, <2>1, BoxesAre
  <2>5. QED
    BY <1>12, <2>1, <2>2, <2>3, <2>4
<1>14. ASSUME pc' = "obey"
       PROVE  next \notin DOMAIN Unread /\ Len(pipe'[Inbox(next)']) = 0
  <2>1. next[2] = stage + 1 /\ next # x /\ next[2] # 1
    BY <1>3
  <2>2. next \notin DOMAIN procs' /\ next \notin Readers /\ next \notin P
    BY <1>3, <1>4, <2>1 DEF Readers
  <2>3. next \notin DOMAIN Unread
    BY <1>3, <2>1, <2>2
  <2>4. Inbox(next)' = Len(pipe')
    BY <2>1, <2>2 DEF Inbox
  <2>5. Len(pipe'[Len(pipe')]) = 0
    BY <1>12, <1>14
  <2>6. QED
    BY <2>3, <2>4, <2>5
<1>15. Mail!Boxes(DOMAIN Unread')
  <2>1. \A a \in DOMAIN Unread' : a \in kept \/ (a = next /\ pc' = "obey")
    BY <1>11
  <2>2. \A a \in DOMAIN Unread' :
            Len(pipe'[Inbox(a)']) = IF a \in DOMAIN Unread THEN Unread[a] ELSE 0
    BY <1>13, <1>14, <2>1
  <2>3. QED
    BY <2>2, BoxesFrom
<1>16. q.filter => Turn \in DOMAIN Unread
  BY <1>3, <1>9
<1>17. \/ Turn' = Mail!NextPlace /\ Mail!Boxes(kept \cup {Mail!NextPlace})
       \/ Turn' = Mail!NextLine /\ to # Mail!NextPlace /\ Mail!Boxes(kept)
  <2>1. CASE pc' = "obey"
    <3>1. DOMAIN Unread' = kept \cup {Mail!NextPlace}
      BY <1>11, <2>1
    <3>2. QED
      BY <1>6, <1>15, <2>1, <3>1
  <2>2. CASE pc' # "obey"
    <3>1. DOMAIN Unread' = kept
      BY <1>11, <2>2
    <3>2. QED
      BY <1>6, <1>8, <1>15, <2>2, <3>1
  <2>3. QED
    BY <2>1, <2>2
<1>18. JobOf(q, to).reads = q.filter /\ JobOf(q, to).to = to
  BY DEF JobOf
<1>19. kept = IF q.filter THEN DOMAIN Unread ELSE DOMAIN Unread \ {Turn}
  BY <1>3 DEF kept
<1>20. Mail!Start(JobOf(q, to))
  BY <1>7, <1>8, <1>16, <1>17, <1>18, <1>19 DEF Mail!Start
<1>21. JobOf(q, to) \in [reads : BOOLEAN, to : DOMAIN Unread \cup {Mail!Terminal, Mail!NextPlace},
                         left : {c.out : c \in Commands} \cup {0}]
  BY <1>5, <1>8 DEF JobOf
<1>22. QED
  BY <1>20, <1>21

(* The shell implements what the user is promised: each program reads what was
   sent to it, from its own line or an earlier one, all of it and nothing else,
   and is cut off only if the one that it writes to has ended, was not started
   or does not read. *)
THEOREM MailImplemented == Spec => ImplementsMail
<1>1. Init => Mail!Init
  <2> SUFFICES ASSUME Init
               PROVE  Mail!Init
    OBVIOUS
  <2>1. pc = "prompt" /\ total = 0 /\ arr = <<>> /\ procs = <<>>
    BY DEF Init
  <2>2. Turn = <<1, 1>> /\ Jobs = <<>>
    BY <2>1 DEF Turn, Jobs
  <2>3. Readers = {} /\ Expected = {}
    BY <2>1, <2>2 DEF Readers, Expected
  <2>4. Unread = <<>>
    BY <2>1, <2>3 DEF Unread
  <2>5. QED
    BY <2>2, <2>4 DEF Mail!Init
<1>2. ASSUME TableInv, ProgramInv, Owned, [Next]_vars
      PROVE  [Mail!Next]_<<Turn, Jobs, Unread>>
  <2>1. ShellInv
    BY <1>2 DEF ShellInv
  <2>2. ASSUME NEW q, ShellForks(q)
        PROVE  Mail!Next
    BY <1>2, <2>1, <2>2, ForkMail DEF Mail!Next
  <2>3. ASSUME NEW c \in Commands, ReadLine(c)
        PROVE  Mail!Next \/ UNCHANGED <<Turn, Jobs, Unread>>
    BY <1>2, <2>1, <2>3, ReadLineMail DEF Mail!Next
  <2>4. ASSUME NEW x \in DOMAIN procs, Program(x)
        PROVE  Mail!Next
    <3>1. x \in DOMAIN Jobs
      BY JobIs
    <3>2. Mail!Send(x) \/ Mail!PassOn(x) \/ Mail!End(x)
      BY <1>2, <2>1, <2>4, Produces, Copies, Finishes DEF Program
    <3>3. QED
      BY <3>1, <3>2 DEF Mail!Next
  <2>5. QuietStep => Mail!Next \/ UNCHANGED <<Turn, Jobs, Unread>>
    BY <2>1, QuietMail DEF Mail!Next
  <2>6. QED
    BY <1>2, <2>2, <2>3, <2>4, <2>5, NextSplit
<1>3. QED
  BY <1>1, <1>2, TableInvariant, ProgramInvariant, OwnerInvariant, PTL DEF Spec, ImplementsMail, Mail!Spec

=============================================================================
