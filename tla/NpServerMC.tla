----------------------------- MODULE NpServerMC -----------------------------
(* Instances of NpServer for TLC: command alphabets and symmetry. *)
EXTENDS NpServer, TLC

Line(from, to, num, stages, reads) ==
    [from |-> from, to |-> to, num |-> num, stages |-> stages, reads |-> reads]

\* Nobody runs shell commands.
NoCommands == [i \in Users |-> {}]

\* Three users: 1 pipes to 2 and 3, and 2 to 1; all may receive from 1, and 1
\* from 2; 3 may pass on to 2 what he receives.
TrioCommands ==
    1 :> {Line(0, 2, 0, 1, FALSE), Line(0, 3, 0, 2, FALSE),
          Line(2, 0, 0, 1, TRUE)}
    @@ 2 :> {Line(0, 1, 0, 1, FALSE), Line(1, 0, 0, 2, TRUE)}
    @@ 3 :> {Line(1, 0, 0, 1, TRUE), Line(1, 2, 0, 1, TRUE)}

\* Four users: 1 pipes to 2, who may receive it.
PairCommands ==
    1 :> {Line(0, 2, 0, 1, FALSE)} @@ 2 :> {Line(1, 0, 0, 1, TRUE)}
    @@ 3 :> {} @@ 4 :> {}

\* ls |n, cat, and the pipelines ls | cat | cat and cat | cat |n.
NumberCommands ==
    [i \in Users |->
        {Line(0, 0, n, 1, FALSE) : n \in 1 .. MaxNum}
        \cup {Line(0, 0, n, 2, TRUE) : n \in 1 .. MaxNum}
        \cup {Line(0, 0, 0, 1, TRUE), Line(0, 0, 0, 3, FALSE)}]

\* Two users: a user pipe to the other and one to oneself, a numbered pipe,
\* and the commands that read them.
MixedCommands ==
    1 :> {Line(0, 2, 0, 1, FALSE), Line(0, 0, 1, 1, FALSE)}
    @@ 2 :> {Line(1, 0, 0, 1, TRUE), Line(0, 0, 0, 1, TRUE),
             Line(0, 2, 0, 1, FALSE), Line(2, 0, 0, 1, TRUE)}

\* The clients that may drop their connection are told apart from the others.
Perms == Permutations(Clients \ Droppers)
=============================================================================
