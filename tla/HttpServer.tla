----------------------------- MODULE HttpServer -----------------------------
(***************************************************************************)
(* The web servers of project 3.  http_server.cpp forks for each request   *)
(* and executes a CGI program in the child; cgi_server.cpp (inside) does   *)
(* everything in one process.                                              *)
(*                                                                         *)
(* A fork() copies every socket the server has open, for none of them is   *)
(* closed on exec, and the reads it has under way, which the child gives   *)
(* up only if its exec() succeeds.  A browser knows the end of its page by *)
(* the end of the connection, which comes when no process has it open.     *)
(***************************************************************************)
EXTENDS Naturals, FiniteSets

CONSTANTS
    Browsers,  \* each makes one connection
    Hasty,     \* those that may leave before the end of their page
    Requests   \* what they may ask for, functions from Browsers to
               \*   "page": a CGI program that writes a page and ends
               \*   "console": the console, for some hosts
               \*   "bare": the console, without a query
               \*   "missing": a file that is not there

VARIABLES
    inside,   \* the server is cgi_server
    target,   \* target[b]: what b asks for
    conn,     \* conn[b]: not there yet, in the backlog, open, gone
    asked,    \* asked[b]: the request: not sent, sent, read by the server
    kind,     \* kind[p]: what process p is
    holds,    \* holds[p]: the connections that p has open
    reading   \* reading[p]: those on which a read of the request is pending

hvars == <<inside, target, conn, asked, kind, holds, reading>>

\* The server, and a child per request at most.
Procs == 0 .. Cardinality(Browsers)
Kinds == {"unborn", "server", "program", "console", "ended"}
Targets == {"page", "console", "bare", "missing"}

ASSUME HttpAssumption ==
    IsFiniteSet(Browsers) /\ Requests \subseteq [Browsers -> Targets]

HttpInit ==
    /\ inside \in BOOLEAN /\ target \in Requests
    /\ conn = [b \in Browsers |-> "out"]
    /\ asked = [b \in Browsers |-> "no"]
    /\ kind = [p \in Procs |-> IF p = 0 THEN "server" ELSE "unborn"]
    /\ holds = [p \in Procs |-> {}]
    /\ reading = [p \in Procs |-> {}]

-----------------------------------------------------------------------------
(* Browsers. *)

Connect(b) ==
    /\ conn[b] = "out" /\ conn' = [conn EXCEPT ![b] = "backlog"]
    /\ UNCHANGED <<inside, target, asked, kind, holds, reading>>

\* The request arrives, in one piece.
Request(b) ==
    /\ conn[b] \in {"backlog", "open"} /\ asked[b] = "no"
    /\ asked' = [asked EXCEPT ![b] = "sent"]
    /\ UNCHANGED <<inside, target, conn, kind, holds, reading>>

\* The browser closes its end, before or after it has got its page.
Leave(b) ==
    /\ b \in Hasty /\ conn[b] = "open"
    /\ conn' = [conn EXCEPT ![b] = "gone"]
    /\ UNCHANGED <<inside, target, asked, kind, holds, reading>>

-----------------------------------------------------------------------------
(* Servers: the one that was started, and any child whose exec() failed. *)

\* do_accept's handler, session::start, do_read.
Accept(p, b) ==
    /\ kind[p] = "server" /\ conn[b] = "backlog"
    /\ conn' = [conn EXCEPT ![b] = "open"]
    /\ holds' = [holds EXCEPT ![p] = @ \cup {b}]
    /\ reading' = [reading EXCEPT ![p] = @ \cup {b}]
    /\ UNCHANGED <<inside, target, asked, kind>>

\* do_read's handler when the browser has gone without a request, or another
\* process has read it: the session is dropped.
ReadFailed(p, b) ==
    /\ b \in reading[p] /\ conn[b] = "gone" /\ asked[b] # "sent"
    /\ holds' = [holds EXCEPT ![p] = @ \ {b}]
    /\ reading' = [reading EXCEPT ![p] = @ \ {b}]
    /\ UNCHANGED <<inside, target, conn, asked, kind>>

\* do_read's handler has the request.
TakesRequest(p, b) ==
    /\ b \in reading[p] /\ asked[b] = "sent"
    /\ asked' = [asked EXCEPT ![b] = "read"]
    /\ UNCHANGED <<inside, target, conn>>

\* The next process to be born.  There is one: a request is read once.
Child(q) == kind[q] = "unborn" /\ \A r \in Procs : kind[r] = "unborn" => q <= r

Program(b) == IF target[b] = "console" THEN "console" ELSE "program"

\* Mutant: the server leaves the connection to its child, but does not close it.
KeepsAfterFork(p, b) == holds[p]
\* What the server has open after the fork: socket_.close().
OpenAfterFork(p, b) == holds[p] \ {b}

\* do_write: the child q has a copy of every session that p has open, executes
\* the program on b's connection, which takes the place of p's standard
\* streams, and leaves the rest open to it.
Execute(p, b, q) ==
    /\ TakesRequest(p, b) /\ ~inside /\ target[b] # "missing" /\ Child(q)
    /\ kind' = [kind EXCEPT ![q] = Program(b)]
    /\ holds' = [holds EXCEPT ![q] = reading[p], ![p] = OpenAfterFork(p, b)]
    /\ reading' = [reading EXCEPT ![p] = @ \ {b}]

\* exec() fails: the handler returns, and the child goes on as a second
\* server, reads and all.  Its standard streams keep b's connection.
ExecFails(p, b, q) ==
    /\ TakesRequest(p, b) /\ ~inside /\ target[b] = "missing" /\ Child(q)
    /\ kind' = [kind EXCEPT ![q] = "server"]
    /\ holds' = [holds EXCEPT ![q] = reading[p], ![p] = OpenAfterFork(p, b)]
    /\ reading' = [reading EXCEPT ![q] = reading[p] \ {b}, ![p] = @ \ {b}]

\* fork() fails: socket_.close() all the same.
ForkFails(p, b) ==
    /\ TakesRequest(p, b) /\ ~inside
    /\ holds' = [holds EXCEPT ![p] = @ \ {b}]
    /\ reading' = [reading EXCEPT ![p] = @ \ {b}]
    /\ UNCHANGED kind

\* cgi_server: the panel is sent, anything unknown is not answered, and the
\* session and its socket are gone.
AnswerInside(p, b) ==
    /\ TakesRequest(p, b) /\ inside /\ target[b] \in {"page", "missing"}
    /\ holds' = [holds EXCEPT ![p] = @ \ {b}]
    /\ reading' = [reading EXCEPT ![p] = @ \ {b}]
    /\ UNCHANGED kind

\* cgi_server: the socket is moved to the sessions of the console.
ConsoleInside(p, b) ==
    /\ TakesRequest(p, b) /\ inside /\ target[b] = "console"
    /\ reading' = [reading EXCEPT ![p] = @ \ {b}]
    /\ UNCHANGED <<kind, holds>>

\* cgi_server: set_structure throws on a query without fields; nothing catches
\* it before main(), and the server ends.
EndsOnBare(p, b) ==
    /\ TakesRequest(p, b) /\ inside /\ target[b] = "bare"
    /\ kind' = [kind EXCEPT ![p] = "ended"]
    /\ holds' = [holds EXCEPT ![p] = {}]
    /\ reading' = [reading EXCEPT ![p] = {}]

Handle(p, b) ==
    \/ \E q \in Procs : Execute(p, b, q) \/ ExecFails(p, b, q)
    \/ ForkFails(p, b) \/ AnswerInside(p, b) \/ ConsoleInside(p, b)
    \/ EndsOnBare(p, b)

-----------------------------------------------------------------------------
(* Programs. *)

\* A CGI program ends, and all that it had open is closed.
ProgramEnds(q) ==
    /\ kind[q] \in {"program", "console"}
    /\ kind' = [kind EXCEPT ![q] = "ended"]
    /\ holds' = [holds EXCEPT ![q] = {}]
    /\ UNCHANGED <<inside, target, conn, asked, reading>>

\* The last session of cgi_server's console that holds b's socket is gone.
PageCloses(p, b) ==
    /\ inside /\ kind[p] = "server" /\ b \in holds[p] /\ asked[b] = "read"
    /\ holds' = [holds EXCEPT ![p] = @ \ {b}]
    /\ UNCHANGED <<inside, target, conn, asked, kind, reading>>

Server(p) == \E b \in Browsers : Accept(p, b) \/ ReadFailed(p, b) \/ Handle(p, b)

HttpNext ==
    \/ \E b \in Browsers : Connect(b) \/ Request(b) \/ Leave(b)
    \/ \E p \in Procs : Server(p) \/ ProgramEnds(p)
    \/ \E p \in Procs, b \in Browsers : PageCloses(p, b)

HttpSpec == HttpInit /\ [][HttpNext]_hvars

-----------------------------------------------------------------------------
(* Properties. *)

HttpTypeOK ==
    /\ inside \in BOOLEAN /\ target \in Requests
    /\ conn \in [Browsers -> {"out", "backlog", "open", "gone"}]
    /\ asked \in [Browsers -> {"no", "sent", "read"}]
    /\ kind \in [Procs -> Kinds]
    /\ holds \in [Procs -> SUBSET Browsers]
    /\ reading \in [Procs -> SUBSET Browsers]

Held(b) == \E p \in Procs : b \in holds[p]

\* A child whose exec() failed.
Stray(p) == p # 0 /\ kind[p] = "server"

\* Once its request has been read, nobody but programs has a connection open,
\* neither the server nor a read that it has pending: so the connection ends
\* when the programs do.  The exceptions: some exec() has failed, and then two
\* servers share the reads; and the sessions of cgi_server's console, which
\* share the connection (http_server.cpp do_write, cgi_server.cpp do_write).
HeldByPrograms ==
    \A b \in Browsers, p \in Procs :
        asked[b] = "read" /\ b \in holds[p] =>
            \/ kind[p] \in {"program", "console"}
            \/ \E q \in Procs : Stray(q)
            \/ inside /\ target[b] = "console"
=============================================================================
