------------------------------- MODULE Console -------------------------------
(***************************************************************************)
(* The console: for each host of the query it connects to a remote shell,  *)
(* plays a file of commands to it, a line for each prompt "% " it reads,   *)
(* and shows both sides of the dialogue on a page.  Three programs do it:  *)
(* console.cpp of project 3, that of project 4, which may connect through  *)
(* a SOCKS server, and cgi_server.cpp, which does it in the server.        *)
(*                                                                         *)
(* TCP keeps the bytes of a connection in order and says nothing of their  *)
(* grouping: a read returns any number of those that are there, and the    *)
(* prompt is looked for in each read by itself.                            *)
(***************************************************************************)
EXTENDS Naturals, Sequences, FiniteSets

CONSTANTS
    Programs,  \* those of "console3", "console4", "cgi_server" to look at
    Sessions,  \* the indices of host[]
    Queries,   \* what a browser may ask for: sequences of fields,
               \*   [name, of, value]
    Lines,     \* Lines[f]: the number of lines of the file f; the last is "exit"
    Frail,     \* the sessions whose shell may close by itself
    Outputs,   \* what a command can write before the next prompt
    Cap,       \* bound: max_length, in bytes
    MaxLines   \* bound: the lines that a shell answers

VARIABLES
    program,   \* which of the three programs
    query,     \* QUERY_STRING
    phase,     \* phase[s]: how far the session is
    shell,     \* shell[s]: the remote shell: none, ready (it waits), gone
    sent,      \* sent[s]: lines written to the shell
    taken,     \* taken[s]: those it has executed
    down,      \* down[s]: the bytes on their way from the shell
    page       \* page[s]: the scripts written to the page, in order

cvars == <<program, query, phase, shell, sent, taken, down, page>>

Phases == {"idle", "resolve", "connect", "target", "reply", "talk", "over"}

\* The characters that matter, those of the prompt, and any other.
Chars == {"percent", "space", "other"}

ASSUME ConsoleAssumption ==
    /\ Programs \subseteq {"console3", "console4", "cgi_server"}
    /\ Outputs \subseteq Seq(Chars)
    /\ Cap \in Nat \ {0} /\ MaxLines \in Nat

\* A byte, and the number of the line that the shell was answering.
Byte(c, k) == [char |-> c, of |-> k]
\* The scripts of the page: what a read returned, and a command.
Shell(data) == [is |-> "shell", data |-> data]
Command(k) == [is |-> "command", line |-> k]

-----------------------------------------------------------------------------
(* The query. *)

\* The value of a field: the last one that is not empty.
Field(name, of) ==
    LET at == {i \in DOMAIN query : /\ query[i].name = name
                                    /\ query[i].of = of
                                    /\ query[i].value # ""}
    IN IF at = {} THEN ""
       ELSE query[CHOOSE i \in at : \A j \in at : j <= i].value

\* Hosts.usage().
Used(s) == Field("h", s) # ""

\* Project 4 goes through the SOCKS server when both its fields are there.
ThroughSocks ==
    program = "console4" /\ Field("s", "h") # "" /\ Field("s", "p") # ""

\* A file that cannot be opened has no lines, and no "exit".
FileLines(s) ==
    LET f == Field("f", s) IN IF f \in DOMAIN Lines THEN Lines[f] ELSE 0

ConsoleInit ==
    /\ program \in Programs /\ query \in Queries
    /\ phase = [s \in Sessions |-> "idle"]
    /\ shell = [s \in Sessions |-> "none"]
    /\ sent = [s \in Sessions |-> 0]
    /\ taken = [s \in Sessions |-> 0]
    /\ down = [s \in Sessions |-> <<>>]
    /\ page = [s \in Sessions |-> <<>>]

-----------------------------------------------------------------------------
(* Connecting. *)

\* main(), or cgi_server's do_write: a session for each host of the query.
Start ==
    /\ \A s \in Sessions : phase[s] = "idle"
    /\ phase' = [s \in Sessions |-> IF Used(s) THEN "resolve" ELSE "over"]
    /\ UNCHANGED <<program, query, shell, sent, taken, down, page>>

\* The prompt, "% ".
Prompt(k) == <<Byte("percent", k), Byte("space", k)>>

\* The shell writes, and prompts.
Prompted(s, k, out) ==
    down' = [down EXCEPT ![s] = @ \o [i \in DOMAIN out |-> Byte(out[i], k)]
                                 \o Prompt(k)]

\* resolve_handler, of the shell or of the SOCKS server.
Resolve(s) ==
    /\ phase[s] = "resolve" /\ phase' = [phase EXCEPT ![s] = "connect"]
    /\ UNCHANGED <<program, query, shell, sent, taken, down, page>>

\* connect_handler: the shell is connected, and read_handler() reads from it.
Connects(s) ==
    /\ phase[s] = "connect" /\ ~ThroughSocks
    /\ phase' = [phase EXCEPT ![s] = "talk"]
    /\ shell' = [shell EXCEPT ![s] = "ready"]
    /\ Prompted(s, 0, <<>>)
    /\ UNCHANGED <<program, query, sent, taken, page>>

\* do_connect: the SOCKS server is, and set_sock_server() resolves the host.
ConnectsSocks(s) ==
    /\ phase[s] = "connect" /\ ThroughSocks
    /\ phase' = [phase EXCEPT ![s] = "target"]
    /\ UNCHANGED <<program, query, shell, sent, taken, down, page>>

\* set_sock_server: the request is written, and the 8 bytes of the reply read.
Asks(s) ==
    /\ phase[s] = "target" /\ phase' = [phase EXCEPT ![s] = "reply"]
    /\ UNCHANGED <<program, query, shell, sent, taken, down, page>>

\* Mutant: it is tried again.
FailsAgain(s) ==
    /\ phase[s] \in {"resolve", "connect", "target"}
    /\ phase' = [phase EXCEPT ![s] = "resolve"]
    /\ UNCHANGED <<program, query, shell, sent, taken, down, page>>

\* No address, no connection: the handler returns, and the session is gone.
Fails(s) ==
    /\ phase[s] \in {"resolve", "connect", "target"}
    /\ phase' = [phase EXCEPT ![s] = "over"]
    /\ UNCHANGED <<program, query, shell, sent, taken, down, page>>

\* The SOCKS server grants the request, and the shell's prompt may be right
\* behind its reply; grants it and closes, as socks_server does when it cannot
\* connect; refuses it; or closes without a reply.
SocksAnswers(s) ==
    /\ phase[s] = "reply" /\ shell[s] = "none"
    /\ \/ /\ shell' = [shell EXCEPT ![s] = "ready"]
          /\ down' = [down EXCEPT ![s] = <<Byte("90", 0)>> \o Prompt(0)]
       \/ /\ shell' = [shell EXCEPT ![s] = "gone"]
          /\ \E reply \in {<<Byte("90", 0)>>, <<Byte("91", 0)>>, <<>>} :
                down' = [down EXCEPT ![s] = reply]
    /\ UNCHANGED <<program, query, phase, sent, taken, page>>

\* The reply's handler reads 8 bytes, and does not see an error: without a
\* reply it looks at a byte that nothing has set.
ReadsReply(s) ==
    /\ phase[s] = "reply" /\ shell[s] # "none"
    /\ IF down[s] = <<>>
       THEN /\ \E next \in {"talk", "over"} : phase' = [phase EXCEPT ![s] = next]
            /\ UNCHANGED down
       ELSE /\ phase' = [phase EXCEPT ![s] = IF Head(down[s]).char = "90"
                                             THEN "talk" ELSE "over"]
            /\ down' = [down EXCEPT ![s] = Tail(@)]
    /\ UNCHANGED <<program, query, shell, sent, taken, page>>

-----------------------------------------------------------------------------
(* The dialogue. *)

\* Mutant: only a read that is a prompt, and nothing else, is answered.
IsPrompt(data) == Len(data) = 2 /\ data[1].char = "percent" /\ data[2].char = "space"

\* data.find("% ").
HasPrompt(data) ==
    \E i \in 1 .. Len(data) - 1 :
        data[i].char = "percent" /\ data[i + 1].char = "space"

\* Mutant: a read of all that is there, whatever the buffer holds.
Unbounded(s) == 1 .. Len(down[s])
\* What one read can return: a part of what is there.
Readable(s) == 1 .. (IF Len(down[s]) < Cap THEN Len(down[s]) ELSE Cap)

\* Mutant: the command is shown first.
CommandFirst(data, k) == <<Command(k), Shell(data)>>
\* A read with a prompt is shown, then the command that answers it.
Exchange(data, k) == <<Shell(data), Command(k)>>

Shown(s) == {i \in DOMAIN page[s] : page[s][i].is = "command"}

\* cgi_server shows a command when it has been written, which fails when the
\* shell is gone, and from then on.  The handler of the write comes before
\* that of the next read, which was asked for after it.
MayFail(s) == program = "cgi_server" /\ shell[s] = "gone"
NoneFailed(s) == \A k \in 1 .. sent[s] : \E i \in Shown(s) : page[s][i].line = k

\* read_handler and write_handler: the next line of the file, or an empty one
\* after its end.
Read(s) ==
    /\ phase[s] = "talk"
    /\ \E n \in Readable(s) :
        LET data == SubSeq(down[s], 1, n) IN
        /\ down' = [down EXCEPT ![s] = SubSeq(@, n + 1, Len(@))]
        /\ \/ /\ ~HasPrompt(data)
              /\ page' = [page EXCEPT ![s] = Append(@, Shell(data))]
              /\ UNCHANGED sent
           \/ /\ HasPrompt(data)
              /\ sent' = [sent EXCEPT ![s] = @ + 1]
              /\ \/ /\ NoneFailed(s)
                    /\ page' = [page EXCEPT ![s] = @ \o Exchange(data, sent'[s])]
                 \/ /\ MayFail(s)
                    /\ page' = [page EXCEPT ![s] = Append(@, Shell(data))]
    /\ UNCHANGED <<program, query, phase, shell, taken>>

\* Mutant: an error is ignored, and the next read asked for.
ReadsOn == "talk"
\* read_handler's error: nothing reads any more, and the session is gone.
EndOfShell == "over"
ReadEnds(s) ==
    /\ phase[s] = "talk" /\ shell[s] = "gone" /\ down[s] = <<>>
    /\ phase' = [phase EXCEPT ![s] = EndOfShell]
    /\ UNCHANGED <<program, query, shell, sent, taken, down, page>>

\* A shell that closes with lines unread resets the connection, and what was
\* on its way may be lost.
Closes(s) ==
    /\ shell' = [shell EXCEPT ![s] = "gone"]
    /\ \E n \in 0 .. Len(down[s]) :
        /\ sent[s] = taken'[s] => n = Len(down[s])
        /\ down' = [down EXCEPT ![s] = SubSeq(@, 1, n)]

\* The shell executes a line, and prompts; after "exit" it closes.
ShellAnswers(s) ==
    /\ shell[s] = "ready" /\ taken[s] < sent[s] /\ taken[s] < MaxLines
    /\ taken' = [taken EXCEPT ![s] = @ + 1]
    /\ IF taken'[s] = FileLines(s)
       THEN Closes(s)
       ELSE /\ IF taken'[s] < FileLines(s)
               THEN \E out \in Outputs : Prompted(s, taken'[s], out)
               ELSE Prompted(s, taken'[s], <<>>)
            /\ UNCHANGED shell
    /\ UNCHANGED <<program, query, phase, sent, page>>

\* It is closed from elsewhere.
ShellFails(s) ==
    /\ s \in Frail /\ shell[s] = "ready"
    /\ UNCHANGED taken /\ Closes(s)
    /\ UNCHANGED <<program, query, phase, sent, page>>

\* The console's process ends: its connections close, and with them the shells.
Stop ==
    /\ phase' = [s \in Sessions |-> "over"]
    /\ shell' = [s \in Sessions |-> IF shell[s] = "none" THEN "none" ELSE "gone"]
    /\ UNCHANGED <<program, query, sent, taken, down, page>>

Session(s) ==
    \/ Resolve(s) \/ Connects(s) \/ ConnectsSocks(s) \/ Asks(s) \/ Fails(s)
    \/ ReadsReply(s) \/ Read(s) \/ ReadEnds(s)

Remote(s) == SocksAnswers(s) \/ ShellAnswers(s) \/ ShellFails(s)

ConsoleNext == Start \/ Stop \/ \E s \in Sessions : Session(s) \/ Remote(s)

ConsoleSpec == ConsoleInit /\ [][ConsoleNext]_cvars

Over == \A s \in Sessions : phase[s] = "over"

-----------------------------------------------------------------------------
(* Properties. *)

\* A byte's line is one that the shell can answer.
Bytes == [char : Chars \cup {"90", "91"}, of : 0 .. MaxLines]

\* A read never returns more than its buffer holds.
Entries == [is : {"shell"}, data : {d \in Seq(Bytes) : Len(d) \in 1 .. Cap}]
           \cup [is : {"command"}, line : Nat]

ConsoleTypeOK ==
    /\ program \in Programs /\ query \in Queries
    /\ phase \in [Sessions -> Phases]
    /\ shell \in [Sessions -> {"none", "ready", "gone"}]
    /\ sent \in [Sessions -> Nat]
    /\ taken \in [Sessions -> 0 .. MaxLines]
    /\ down \in [Sessions -> Seq(Bytes)]
    /\ page \in [Sessions -> Seq(Entries)]

\* The page tells the dialogue in its order: a command comes after as many
\* reads with a prompt as commands have been shown, and before anything that
\* the shell wrote about it.
PageInOrder ==
    \A s \in Sessions : \A i \in DOMAIN page[s] :
        LET entry == page[s][i]
            before == {j \in 1 .. i - 1 : page[s][j].is = "command"}
            prompts == {j \in 1 .. i - 1 : /\ page[s][j].is = "shell"
                                           /\ HasPrompt(page[s][j].data)}
        IN \/ /\ entry.is = "command"
              /\ entry.line <= Cardinality(prompts)
              /\ \A k \in 1 .. entry.line - 1 :
                    \E j \in before : page[s][j].line = k
           \/ /\ entry.is = "shell"
              /\ \A b \in DOMAIN entry.data : entry.data[b].of > 0 =>
                    \E j \in before : page[s][j].line = entry.data[b].of

\* The last of the reads is the end of a prompt that the one before it began.
Cut(s) ==
    LET n == Len(page[s]) IN
    /\ n > 1 /\ page[s][n].is = "shell" /\ page[s][n - 1].is = "shell"
    /\ Len(page[s][n].data) = 1 /\ page[s][n].data[1].char = "space"
    /\ page[s][n - 1].data[Len(page[s][n - 1].data)].char = "percent"

\* Both sides wait for the other.
BothWait(s) ==
    /\ phase[s] = "talk" /\ shell[s] = "ready"
    /\ sent[s] = taken[s] /\ down[s] = <<>>

\* The console and a shell never wait for each other, whatever the reads
\* return, two prompts at once included; unless the last prompt was cut in two
\* by the reads (console.cpp read_handler).
WaitsOnlyIfCut == \A s \in Sessions : BothWait(s) => Cut(s)

\* The dialogue does not end by itself: it waits for ever, or it has no "exit".
Endless(s) == BothWait(s) \/ (shell[s] = "ready" /\ taken[s] = MaxLines)
=============================================================================
