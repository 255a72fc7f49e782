----------------------------- MODULE NpShellMC ------------------------------
(* Instances of NpShell for TLC: command lines. *)
EXTENDS NpShell

Cmd(kind, num, stages, filter, out) ==
    [kind |-> kind, num |-> num, stages |-> stages, filter |-> filter,
     out |-> out]

\* ls |n, also of an empty directory, cat, cat |1, pipelines of two and three,
\* with and without |1, printenv, ls > file, exit.
Lines ==
    {Cmd("simple", n, 1, FALSE, 1) : n \in 0 .. 3}
    \cup {Cmd("simple", 3, 1, FALSE, 0)}
    \cup {Cmd("simple", n, 1, TRUE, 0) : n \in 0 .. 1}
    \cup {Cmd("pipeline", n, 2, TRUE, 0) : n \in 0 .. 1}
    \cup {Cmd("pipeline", n, 3, FALSE, 2) : n \in 0 .. 1}
    \cup {Cmd("builtin", 0, 1, FALSE, 0), Cmd("redirect", 0, 1, FALSE, 0),
          NoCmd}

\* ls | cat | cat |1 and cat | cat.
PipelineLines ==
    {Cmd("pipeline", 1, 3, FALSE, 2), Cmd("pipeline", 0, 2, TRUE, 0)}
=============================================================================
