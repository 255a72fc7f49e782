----------------------------- MODULE WebConsole -----------------------------
(***************************************************************************)
(* The web server with the console that it runs.  http_server executes     *)
(* console.cgi in a child, whose sessions end with the process and whose   *)
(* process ends with its sessions; cgi_server has the sessions inside, and *)
(* they share the browser's connection.                                    *)
(***************************************************************************)
EXTENDS HttpServer, Console, Html

vars == <<hvars, cvars>>

\* One browser asks for the console: the sessions of two have nothing in common.
ASSUME OneConsole ==
    \A r \in Requests, a, b \in Browsers :
        r[a] = "console" /\ r[b] = "console" => a = b

Init == ConsoleInit /\ HttpInit /\ inside = (program = "cgi_server")

-----------------------------------------------------------------------------

Browse(b) == (Connect(b) \/ Request(b) \/ Leave(b)) /\ UNCHANGED cvars

Takes(p, b) == (Accept(p, b) \/ ReadFailed(p, b)) /\ UNCHANGED cvars

\* A request for the console starts it; the others do not concern it.
Runs(p, b, q) ==
    /\ Execute(p, b, q)
    /\ IF target[b] = "console" THEN Start ELSE UNCHANGED cvars

RunsInside(p, b) == ConsoleInside(p, b) /\ Start

\* cgi_server ends, with the sessions of its console.
ServerEnds(p, b) == EndsOnBare(p, b) /\ Stop

Answers(p, b) ==
    /\ \/ \E q \in Procs : ExecFails(p, b, q)
       \/ ForkFails(p, b) \/ AnswerInside(p, b)
    /\ UNCHANGED cvars

\* A program other than the console ends when it has written its page.
PageEnds(q) == kind[q] = "program" /\ ProgramEnds(q) /\ UNCHANGED cvars

\* io_context::run() returns when no session has anything left to wait for.
ConsoleEnds(q) == kind[q] = "console" /\ Over /\ ProgramEnds(q) /\ UNCHANGED cvars

\* The console writes to a browser that is not there, and SIGPIPE ends it.
ConsoleKilled(q) ==
    /\ kind[q] = "console"
    /\ \E b \in Browsers : target[b] = "console" /\ conn[b] = "gone"
    /\ \E s \in Sessions : phase[s] = "talk" /\ down[s] # <<>>
    /\ ProgramEnds(q) /\ Stop

\* The last session of cgi_server that holds the connection is gone.
LastSession(p, b) ==
    target[b] = "console" /\ Over /\ PageCloses(p, b) /\ UNCHANGED cvars

Dialogue(s) == Session(s) /\ UNCHANGED hvars
Elsewhere(s) == Remote(s) /\ UNCHANGED hvars

ServerActs(p) ==
    \E b \in Browsers :
        \/ Takes(p, b) \/ RunsInside(p, b) \/ ServerEnds(p, b) \/ Answers(p, b)
        \/ LastSession(p, b) \/ \E q \in Procs : Runs(p, b, q)
Ends(q) == PageEnds(q) \/ ConsoleEnds(q)

Next ==
    \/ \E b \in Browsers : Browse(b)
    \/ \E p \in Procs : ServerActs(p) \/ Ends(p) \/ ConsoleKilled(p)
    \/ \E s \in Sessions : Dialogue(s) \/ Elsewhere(s)

\* A process has one thread, whose handlers run in the order of their events; a
\* program ends; a shell executes what it reads, and the SOCKS server answers.
\* Browsers need not ask, nor leave; nor need a shell close by itself.
Fairness ==
    /\ \A p \in Procs : WF_vars(ServerActs(p) \/ Ends(p))
    /\ \A s \in Sessions :
        /\ WF_vars(Dialogue(s))
        /\ WF_vars((SocksAnswers(s) \/ ShellAnswers(s)) /\ UNCHANGED hvars)

Spec == Init /\ [][Next]_vars
FairSpec == Spec /\ Fairness

-----------------------------------------------------------------------------
(* Properties, with HeldByPrograms, PageInOrder and WaitsOnlyIfCut. *)

TypeOK == HttpTypeOK /\ ConsoleTypeOK

\* Text is escaped character by character, in texts that look like entities too
\* (console.cpp replace): a fact about every text that a page may come to show,
\* looked at before there is one.
ReplacesEachOnce ==
    (\A b \in Browsers : conn[b] = "out") => EachItsEntity

\* Reasons for a connection to stay: some exec() failed, or a console that has
\* it open has a dialogue without an end.
Excused(b) ==
    \/ \E p \in Procs : Stray(p)
    \/ /\ \E p \in Procs : b \in holds[p] /\ (kind[p] = "console" \/ inside)
       /\ \E s \in Sessions : Endless(s)

\* A browser that asks gets an end of its page, whatever is forked meanwhile
\* and holds a copy of its connection, and whatever the shells write.
EveryPageEnds ==
    \A b \in Browsers :
        asked[b] = "sent" ~>
            (asked[b] = "read" /\ ~Held(b)) \/ Excused(b) \/ kind[0] = "ended"

\* A session plays its file to the end: it ends, unless a prompt was cut or the
\* file has no "exit".
FilePlayed ==
    \A s \in Sessions : phase[s] = "resolve" ~> (phase[s] = "over" \/ Endless(s))
=============================================================================
