-------------------------------- MODULE Mail --------------------------------
(***************************************************************************)
(* What a shell with pipes promises its user, with no descriptors in it.   *)
(* The i-th program of line l has the address <<l, i>>, and a box of mail  *)
(* at that address for as long as it can read, which may begin many lines  *)
(* before l is typed.  A program takes the mail at its own address and at  *)
(* no other.  It ends when it has taken all there is and nobody is left to *)
(* send more, or when what it sends can no longer be read.                 *)
(***************************************************************************)
EXTENDS Integers

CONSTANTS
    Lines,   \* the lines that output may be promised to
    Amounts  \* how much a program that does not read may have to send

VARIABLES
    turn,  \* the address of the program that is started next
    runs,  \* by address, the programs that run: do they read, where to do
           \* they send, and how much has one that does not read left to send
    mail   \* mail[a]: how much waits at address a

Terminal == <<0, 0>>
NextPlace == <<turn[1], turn[2] + 1>>
NextLine == <<turn[1] + 1, 1>>

Init == turn = <<1, 1>> /\ runs = <<>> /\ mail = <<>>

\* The addresses of S have a box now: one that is new is empty.
Boxes(S) == mail' = [a \in S |-> IF a \in DOMAIN mail THEN mail[a] ELSE 0]

\* The line whose turn it is promises its output to a later one, the first to.
Promise(line) ==
    /\ turn[2] = 1 /\ line > turn[1] /\ <<line, 1>> \notin DOMAIN mail
    /\ Boxes(DOMAIN mail \cup {<<line, 1>>})
    /\ UNCHANGED <<turn, runs>>

\* Program r is started: it reads if it has mail to expect, and sends to the
\* terminal, to the next program of its line or to a line that was promised to.
Start(r) ==
    /\ r.reads => turn \in DOMAIN mail
    /\ r.to \in {Terminal, NextPlace} \cup {a \in DOMAIN mail : a[1] > turn[1]}
    /\ runs' = [a \in DOMAIN runs \cup {turn} |-> IF a = turn THEN r ELSE runs[a]]
    /\ LET kept == IF r.reads THEN DOMAIN mail ELSE DOMAIN mail \ {turn} IN
       \/ turn' = NextPlace /\ Boxes(kept \cup {NextPlace})
       \/ turn' = NextLine /\ r.to # NextPlace /\ Boxes(kept)

\* The rest of a line is not obeyed: it was no program, or the shell is out of
\* descriptors.
Skip ==
    /\ turn' = NextLine /\ Boxes(DOMAIN mail \ {turn})
    /\ UNCHANGED runs

\* The shell ends, and the programs that run go on.
Exit ==
    /\ turn' = NextLine /\ Boxes(DOMAIN mail \cap DOMAIN runs)
    /\ UNCHANGED runs

\* A unit is sent.  Where nobody reads any more, it is lost.
Delivered(m, a) == IF a \in DOMAIN m THEN [m EXCEPT ![a] = @ + 1] ELSE m

Send(x) ==
    /\ ~runs[x].reads /\ runs[x].left > 0
    /\ runs' = [runs EXCEPT ![x].left = @ - 1]
    /\ mail' = Delivered(mail, runs[x].to)
    /\ UNCHANGED turn

PassOn(x) ==
    /\ runs[x].reads /\ mail[x] > 0
    /\ mail' = Delivered([mail EXCEPT ![x] = @ - 1], runs[x].to)
    /\ UNCHANGED <<turn, runs>>

Done(x) ==
    IF runs[x].reads THEN mail[x] = 0 /\ \A y \in DOMAIN runs : runs[y].to # x
    ELSE runs[x].left = 0
Lost(x) == runs[x].to # Terminal /\ runs[x].to \notin DOMAIN mail

End(x) ==
    /\ Done(x) \/ Lost(x)
    /\ runs' = [y \in DOMAIN runs \ {x} |-> runs[y]]
    /\ Boxes(DOMAIN mail \ {x})
    /\ UNCHANGED turn

Next ==
    \/ \E line \in Lines : Promise(line)
    \/ \E r \in [reads : BOOLEAN, to : DOMAIN mail \cup {Terminal, NextPlace},
                left : Amounts] : Start(r)
    \/ Skip \/ Exit
    \/ \E x \in DOMAIN runs : Send(x) \/ PassOn(x) \/ End(x)

Spec == Init /\ [][Next]_<<turn, runs, mail>>
=============================================================================
