# Verification of NP-project

TLA+ models, TLC runs and TLAPS proofs for the four network-programming
projects of this repository: the multi-user shell server
`project2/np_single_proc.cpp`, the largest and most intricate program; the
single-user shell, as `project1/npshell.cpp` and as the `project2/shell1.h` that
`np_simple` runs; the SOCKS server `project4/socks_server.cpp`; and the web
servers of project 3 with the consoles of projects 3 and 4 that they run. The
plan at the end says what follows.

## 1. Inventory

| part | source | state it keeps | operations | what is hard |
|---|---|---|---|---|
| multi-user server: loop, users, chat | `project2/np_single_proc.cpp` | `user[31]`, `afds`, `rfds` | accept, read a line, who, name, tell, yell, setenv, printenv, exit | one thread for everybody; descriptor numbers are reused while `user[]`, `rfds` and `user_pipe` still hold them; dropped clients |
| multi-user server: npshell | same file, lines 54-656 | `user_pipe[31][31][2]`, per user `pipnum_arr`, `numpiper`, `total_n`, `line_n` | user pipes `<N` `>N`, numbered pipes `\|N` `!N`, ordinary pipelines, fork, wait | which end is closed when; pipes of users who left; waiting for a program that waits for the server |
| project 1 shell | `project1/npshell.cpp` | `pipnum_arr`, `numpiper`, `total`, `line` | the same without users | `wait(0)` after a command that fills a pipe; ends closed one command early or never |
| forking server | `project2/np_simple.cpp`, `shell1.h` | none shared | accept, fork, one shell each | as above, once per connection |
| filters | `project1/commands`, `project3/extra_files/command` | none | read lines, write lines | nothing for a model |
| HTTP server | `project3/http_server.cpp` | one session per connection | accept, read once, fork, exec | a fork copies every connection and every pending read; when a page ends |
| console | `project3/console.cpp`, `project4/console.cpp` | per host a socket and a file | resolve, connect, read, send a line per prompt | prompts split or joined by reads; buffers of asynchronous writes |
| CGI server (Windows) | `project3/cgi_server.cpp` | sessions and consoles in one process | HTTP server and console together | lifetime of the browser's socket shared by five consoles |
| SOCKS server | `project4/socks_server.cpp` | one session per child process | parse, firewall, CONNECT, BIND, two relays | request used before it has been read; both sockets closed when one direction ends |
| examples, test data, templates | `project3/extra_files` | - | - | not programs of this system |

How the parts meet: the server talks to its clients over TCP sockets only, and
to the programs it runs over pipes and their exit. Inside the server, user
table, pipes and select loop share the descriptor table of the process: a
`close()` in one of them frees a number the others may still hold. The console
is a client of the shell servers (directly or through the SOCKS server) and is
started by the HTTP server, or is part of the CGI server.

What makes the server correct: a line is obeyed as a command of the user who
typed it; what is piped to a user reaches that user and nobody else, at most
once, and never the next owner of the id; a numbered pipe is read by the
command it was made for; names are unique; nobody is disconnected by what
others do; the server does not wait for ever, and everyone's lines are read.

The hazards are listed with their lines in `PROJECT.json`.

What makes the consoles and their servers correct: a line of the file is sent
for each prompt, however TCP groups the bytes, and neither side waits for the
other; the page tells the dialogue in its order; a browser's page ends when the
program that writes it does, whatever else the server has forked or shares.

## 2. Modules

| module | contents |
|---|---|
| `FdTable` | the process's descriptor table: lowest free number, `pipe()`, `close()`, when a pipe ends |
| `ChatRoom` | abstract specification: who is in the room under which id and name, which user pipes wait, whose variables are whose |
| `NpServer` | the server: state, one action per step of `main()`/`npshell()`, clients, properties |
| `NpServerMC` | sets of commands for TLC, and the symmetry of the clients |
| `Relay` | abstract specification: two channels between a client and a destination |
| `SocksSession` | one connection of the SOCKS server, its client and its destination, properties |
| `SocksSessionMC` | rule files and requests for TLC |
| `Mail` | abstract specification: programs that send mail to programs of their own line, of later lines and to the terminal |
| `NpShell` | the single-user shell, the programs it starts and the data in their pipes, properties |
| `NpShellMC` | command lines for TLC |
| `HttpServer` | browsers, the servers of project 3 and the processes they fork: who holds which connection open |
| `Console` | the three consoles: a session per host, the bytes on their way, the page, and the shells; properties |
| `Html` | how text is escaped before it is put into the page |
| `WebConsole` | `HttpServer` and `Console` together; fairness and liveness |
| `WebConsoleMC` | requests, queries and files for TLC |
| `NpServerProofs` | lemmas about the operators of `FdTable`; the inductive invariant of the user table and the theorems that follow from it |
| `NpServerPipes` | the inductive invariant of the pipes and the theorems that follow from it |
| `NpServerRefinement` | `NpServer` implements `ChatRoom`; names stay unique |
| `SocksSessionProofs` | the session's inductive invariant; it implements `Relay`, loses nothing at its end, waits for nothing in vain, and decides by the rules as it reads them |
| `NpShellProofs` | the invariants of the shell's descriptors, of its programs, of who waits for whom and of whose data is where; it implements `Mail` |
| `ConsoleProofs` | the inductive invariants of the console |
| `HtmlProofs` | what escaping makes of a text of any length |
| `WebConsoleProofs` | the inductive invariant of the web server, and what follows for it with its console |

### State of NpServer and the code

| variable | code |
|---|---|
| `slot`, `ufd`, `name`, `ipset` | `user[i].usage`/`.id`, `.fd`, `.name`, whether `.ip` still holds the address |
| `vlist` | `user[i].Path` and `.variable_name`, without the `PATH` they start with |
| `nump` | `pipnum_arr`, `numpiper`, `total_n`: the pipe for the n-th next command |
| `upipe` | `user_pipe` |
| `F` | the kernel's descriptor table |
| `afds`, `todo` | `afds`; what is left of `rfds` in this round |
| `pc`, `job` | where the thread is; the locals of `npshell()` |
| `conn`, `line` | the clients and what they have sent (external) |
| `misclose` | history: some `close()` hit a number that had been reused |

`pc = "dead"` is the end of the process (`err_dump`, `exit`, SIGPIPE);
`pc = "wild"` a point from which the C++ has undefined or unmodelled behaviour:
a 31st user (`user[-1]`), pipes after a failed `pipe()`, commands read from a
pipe. The model stops there and claims nothing about what follows.

### Steps

The server is one thread, so a step is what it does between two points where it
may block or fork: `Select`; `Accept` (accept, `user_in`, `userin_init`,
`env_init`, the login message); one whole line of a built-in command
(`Chat`, `Rename`, `Setenv`, `Logout`, `BlankLine`, `ShellExit`); and, for a
command of `npshell()`, `Shell` up to the first fork, `Fork` or one of
`FirstStage`, `MiddleStage`, `LastStage` per program, and `Reap` or
`ReapPipeline` when the wait is over. Clients interleave with all of them. The
failures are actions too: `SelectFails` (EBADF), `AcceptFails`, `StageFails`
(EMFILE), `AcceptOverflows`, and every write to a dropped client may end the
server (`Outcomes`).

### Abstractions

- The descriptors 0-6 of the process never change hands; the model's f is
  descriptor 6+f. `<0` and `>0`, which reach `user_pipe[0][..]`, are left out:
  they can only close the standard input, which `recover()` puts back.
- A line is one of the commands in `Commands`, a record of its pipes, the number
  of programs and whether the first reads its input to the end; messages have no
  text. Redirection with `>` changes nothing in the server and is left out.
- `pipnum_arr` and `numpiper` are kept by commands left, not in order of
  creation: `total_n` only serves to compare with, and two pipes are never due
  at the same total. The arrays' limit of 5000 is therefore not modelled.
- `int line` (line 84) is uninitialised unless the command has `|N`: each such
  command either finds the pipe that is due or does not (`seen`). Values that
  run past the arrays, and so crash, are left out.
- Environment variables a user has not set have the server's own values
  (`Unset`).
- Programs in the background run to their end, so that a pipe nobody holds open
  ends; the capacity of pipes is not modelled.
- `fork()` succeeds (the code retries until it does), the listen queue is a set,
  a client connects once, at most `MaxUsers` are connected at a time (the
  specification's promise), and a client drops only after it was accepted.

### SocksSession

The server forks for every connection, and the processes share nothing but the
listening socket, so one connection is modelled: from `offered` (its client is
in the backlog) to `ended` (its process has exited). `phase` says where it is:
`waiting` for the request's bytes after `read_s4` has gone on without them,
`bound` in the blocking `accept()` of BIND, `relay`, or `closing`, when only
completions hold the session.

| variable | code |
|---|---|
| `conf` | `socks.conf` when the session reads it |
| `ask`, `arrived` | the client's request; whether it has reached the server |
| `open` | which of `socket_`, `dest_socket_` are open |
| `replies` | the second byte of each reply sent |
| `op`, `buf` | for each relay, the operation under way or completed, and `src_buf` or `des_buf` |
| `sent`, `wire`, `kern`, `got` | data on its way, in each direction: sent; not yet read by the session; written by it; received (external but for what the session reads and writes) |
| `peer` | the two ends: connected, half closed, gone (external) |

A completion handler is one step (`ReadDone`, `ReadFailed`, `WriteDone`,
`WriteFailed`); it includes what asio does at once for the operation it starts:
the receive of what has arrived (`Read`), the send of what fits (`Write`). An
operation that would block is completed later, by `Receive` or `Transmit`, and
its handler runs later still: the other relay may close both sockets in
between. `CloseBoth` aborts what is pending, and resets a connection with
unread data, by which data already written may be lost.

Data are numbered units in place of bytes; a read takes all that has arrived,
which is at most `Cap`, less than `MAXLAN`. Of a request, nothing has arrived
when `read_s4` reads `request[]`, or up to seven bytes, or the first eight and
not its end, or all of it (`Pieces`). `session` is too large for the heap's free
lists, so its `request[]` is fresh memory and reads as zero where nothing has
arrived: `cd` is 0 if nothing has, and an address may lack its last numbers
(`CutAfter`). From then on `ask` is what was read. The rest arrives later as the
unit 0 of the client's direction, which `read_src` relays. Apart from it nothing
can have been sent when the relay starts, since both ends wait for the reply.
Addresses are tuples of tokens, since the firewall compares tokens; a
SOCKS4A name stands for its address or does not resolve. `Data` is what an end
has received without the unit 0 of a late request, which can only be in front.

`socks.conf` is the user's own and none is in the repository, so `conf` is any
sequence of words, each with whether a line begins with it: the loop over
`fin >> p >> m >> ip` knows words only (`Rule`, `RulesRead`), the specification
lines (`Lists`).

### NpShell

`NpShell` is both shells of one user: `ClosesNumbered` is TRUE for
`npshell.cpp` and FALSE for `shell1.h`, which has dropped the loop of npshell's
lines 171-175. `np_simple` forks one `shell1.h` per connection with the socket
as its terminal; these processes share nothing, so one is modelled. Unlike
`NpServer`, this module has the programs and the data: the capacity of pipes
decides who waits for whom.

| variable | code |
|---|---|
| `pc`, `cmd` | where the shell is; the line it obeys |
| `total` | `total` |
| `arr` | `pipnum_arr` and `numpiper`, with the pipe each entry was made for |
| `F` | the shell's descriptor table |
| `stage`, `prev` | `i + 1` and `pipetest[i-1]` in the loop over a pipeline |
| `await` | the children that `wait(0)` or `waitpid()` is waiting for |
| `procs` | the running programs: standard input and output, the other ends they hold, whether they read, how much they still write (external) |
| `pipe` | what each pipe contains; a unit is marked with the line it is for (external) |

A line is `ReadLine` (with `numpipe_exist` and the new `pipe()`), then one of
`Builtin`, `Exit`, `Redirect`, `Simple`, or a stage per program of a pipeline,
and `Reap` with the `close()` calls that follow a simple command. A child's
table is computed from the `dup2()` and `close()` calls it makes before `exec`,
in their order, since what is closed before a `dup2()` is what goes wrong.
Programs take turns with the shell in any order (`Produce`, `Copy`, `Finish`).
With SIGCHLD ignored, `wait(0)` returns only when no child is left at all, so a
simple command waits for the background programs as well.

`Mail` is the same without descriptors: a program has an address, its line and
its place in the line, and from the moment on at which something may be written
for it a box at that address. A program that reads takes from its own box, ends
when that is empty and nobody is left who sends to it, and until then is cut off
only if the one it sends to has no box any more. The refinement mapping takes a
running filter's box to be its standard input, that of the next program of
a pipeline to be the last pipe, and that of a line to come to be the numbered
pipe in `arr` (`Inbox`); whom a program sends to is fixed by its command
(`Recipient`). `Mail` leaves open to which of the possible addresses a program
sends: that it is the next one in a pipeline is `StagesConnected`, which
`npshell.cpp` violates, while it implements `Mail` as `shell1.h` does.

The user types a program that reads its input only where a numbered pipe is due,
since one that reads the terminal takes lines from the shell. `pc = "wild"`
follows a failed `pipe()`. The end of the shell's own input, redirection at the
end of a pipeline and lines of blanks are left out.

### HttpServer

One module for `http_server` (`inside` FALSE) and for the server in `cgi_server`
(`inside` TRUE). Processes are numbered in the order of their forks; 0 is the
server.

| variable | code |
|---|---|
| `conn`, `asked`, `target` | the browsers: their connections and requests (external) |
| `kind` | what each process is: the server, the console, another CGI program, ended |
| `holds` | the sockets each process has open |
| `reading` | the sessions whose `async_read_some` is pending, in each process |

A handler of the server is one step: `Accept` (accept, `session`, `do_read`),
`ReadFailed`, and for a request that has been read `Execute`, `ExecFails`,
`ForkFails` in `http_server`, `AnswerInside`, `ConsoleInside`, `EndsOnBare` in
`cgi_server`. None of the sockets is closed on exec, and none is closed in the
child, so `Execute` gives the child every session's socket; `ExecFails` leaves it
the pending reads as well, since it goes on in its copy of the event loop.

What a browser asks for is one of four: another CGI program, the console for
some hosts, the console without a query, and a file that is not there. Without
a query `console.cgi` throws and ends at once, so it is a program that ends; in
`cgi_server` the exception leaves `context.run()`, and the server ends.
`setenv`, the text of the request and the status line are left out. The request
arrives in one piece and within the 1024 bytes of `data_`.

### Console

`program` says which of the three it is. Those of project 3 and 4 differ in the
SOCKS server, through which `connect_socks` goes; `cgi_server` in when a command
is shown.

| variable | code |
|---|---|
| `query` | `QUERY_STRING`, as fields: what `main` or `set_structure` puts into `host[]` |
| `phase` | which handler of the session (`User`, `connect_socks`) comes next |
| `sent` | lines read from `file` and written |
| `page` | what `output_shell` and `output_command` wrote for the session, in order |
| `shell`, `taken`, `down` | the remote shell, the lines it has executed, the bytes it has sent and the session has not read (external) |

A byte is one of the prompt's two characters or another one, with the number of
the line it answers. `Read` is `read_handler` with the `write_handler` it calls:
it takes any number of the bytes that are there, up to `Cap`, in place of 1024.
A read with a prompt, and not each prompt, is answered; after the end of the file
with an empty line. In `cgi_server` a command is shown by the handler of its
write (`MayFail`: not when the shell is gone). It runs before the handler of the
next read, because the event loop keeps their order, which is why it is the same
step. `Closes` is a shell's exit: when it leaves lines unread, TCP resets the
connection and what was on its way may be lost.

The shells are those of project 2 in outline: a prompt at first, a prompt after
each line, output of a command that may look like a prompt, the end after
"exit". No banner comes before the first prompt. The SOCKS server's reply
arrives as a unit (`ReadsReply`), and may be a grant followed by the end of the
connection, as `socks_server` answers when it cannot connect. A command is
written whole; a partial write would send bytes of a string that is gone.

`Html` is a pure module: `Replaced` is `replace()`, seven replacements one after
the other, against `Entity`, character by character (`EachItsEntity`, which
`WebConsole` states of its pages as `ReplacesEachOnce`).

### WebConsole

A request for the console starts its sessions (`Runs`, `RunsInside`). As a
process, the console ends when no session has anything to wait for
(`ConsoleEnds`), or by SIGPIPE when it writes to a browser that has left
(`ConsoleKilled`); inside, the browser's connection closes with the last of the
sessions that share it (`LastSession`), and all end with the server
(`ServerEnds`). At most one browser asks for the console (`OneConsole`): the
sessions of two share nothing but the server, whose part in them is already in
the other browser's request.

## 3. What is checked

Bounds: at most four users and five clients, six descriptors besides the fixed
ones, `|1` and `|2`, one setting of a variable. That the last setting of a
variable wins over earlier ones is left to the refinement theorem. Two users and
a third client reach every reuse of an id; six descriptors are enough for three
connections, a pipe and one number to spare, so that numbers are reused and also
run out; `|2` is the first numbered pipe that has to keep its turn; pipelines of
three programs have a first, a middle and a last one. Four users are what it
takes for sockets to get the numbers that a refused pipe left behind, and a
fifth client meets a full table (`np_reuse`). Clients are symmetric in
`np_pipes`, `np_reuse` (all but the one who drops) and `np_numbers`, which check
no liveness.

| run | instance | shows |
|---|---|---|
| `np_pipes` | 3 users, user pipes, a name, 6 descriptors | types; as long as no close hits a reused number: `PendingPipesIntactUnlessMisclosed`, `ReceivesFromSender`, `ServerNeverHangs`; `NamesUnique`; the chat room is implemented |
| `np_reuse` | 5 clients for 4 ids, one a dropper, one pair that pipes, 5 descriptors | `FdIdentifiesUser`, `AfdsMatchUsers`; `SocketsOpenUnlessMisclosed`, with sockets that take numbers pipes had |
| `np_numbers` | 2 users, `\|1` `\|2`, pipelines of 2 and 3 | `NumberedPipesIntactUnlessMisclosed`, `NumberedPipesKeepTurn` |
| `np_fair` | 2 users, one slow, one dropper, a variable | `LinesServed`, `ConnectionsAccepted`; the chat room again with variables and a client who drops |
| `socks_relay` | 4 rule files, the specification's example among them, CONNECT and BIND, 3 destinations, requests that are there when they are read, in part or not at all, 3 units in each direction, 2 in the network | `FirewallAsRead`; the relays implement `Relay`; `WaitsWhenPassedOn`, `NothingLostAtClose`, `SessionEnds`, `TrafficFlows` |
| `simple_lines` | `shell1.h`, 4 lines out of `ls \|n` (n up to 3), `cat`, `cat \|1`, pipelines of 2 and 3, built-in, redirection, exit; 8 descriptors, pipes of 1 unit | `PendingIntact`, `ReadsItsOwn`, `StagesConnected`, `HangIsExplained`; the shell implements `Mail` |
| `web_pages` | 2 browsers, 3 processes, 3 queries (one session of 2 lines, through SOCKS in project 4; two of 1 line; one without a file and with a shell that may close), each under the three programs; reads of up to 4 bytes | `PageInOrder`, `WaitsOnlyIfCut`, `ReplacesEachOnce` (texts up to 4 of 7 characters), `HeldByPrograms`; `EveryPageEnds`, `FilePlayed` |
| `np_stale_close` | expects a violation of `SocketsOpen` | a logout closes another user's connection |
| `np_dropped` | expects a violation of `DroppedUsersLeave` | a dropped user never leaves |
| `shell_closed` | expects a violation of `StagesConnected` | `npshell.cpp` closes a pipeline's own pipe |
| `socks_early` | expects a violation of `EndedAnswered` | a request that arrives late is never answered |
| `socks_rules` | expects a violation of `DecisionMatchesRules` | the specification's example of `socks.conf` denies what its second line permits |

In `socks_relay` a part of a request holds one number of the address at most
(`Cuts`), so that it is decided about and refused; the relay after a part with
the whole address is the same as after a part with less of it. `Cap = 2` and
three units are the least with which a write is cut short by a
receiver that is slow and its rest is sent later.

For the shell, four lines are the least with which a numbered pipe is made,
skipped by a line that uses another one, joined by a third line and read by a
fourth, and one command that writes nothing keeps two numbered pipes waiting at
once; a pipe of one unit is full after one write, so that a program with two
units to write has to wait. `shell_closed` needs only three lines, out of
`ls | cat | cat |1` and `cat | cat`.

`HangIsExplained` is a property of a shell that may hang. It names the two
reasons and says that there is no third: `wait(0)` after a command that fills a
numbered pipe, which only a later line would empty; and a numbered pipe whose
write end the shell still holds when its reader runs, because the line in between
was a built-in command or a redirection, after which nothing is closed.

In `web_pages`, reads of 4 bytes are the least that can return two prompts at
once, every other way to cut or join what is there happens too, and the five
bytes of a command that writes another character and something like a prompt
are more than a read returns. A file of
two lines has a line that is executed and an "exit"; the shell that has no file
is sent empty lines, two at most (`MaxLines`). The second browser asks for
something that is not there or for the console without a query, so that there
are a program of its own, a failed exec and an end of `cgi_server`; `page` is
left to the proofs, since without a query `console.cgi` is a program like any
other. Only the browser of the console may leave early (`Hasty`), since a program
that ends by itself ends with or without it.

`WaitsOnlyIfCut` and `FilePlayed` say what the search for the prompt in each
read by itself is worth. Both sides wait for ever when a read ends in "%" and
the next one is the blank alone, and in no other case; and a session ends unless
that happens or its file has no "exit". `PageInOrder` holds although output that
looks like a prompt puts the dialogue a line ahead of the shell: no command
is shown before the prompts that it answers, and nothing that the shell said of
a command before the command itself. `EveryPageEnds` has the exceptions that the
code has: a child whose exec failed (two servers then share the pending reads),
a dialogue that does not end in a process that holds the connection - of any
browser, since children keep copies of all of them - and the end of
`cgi_server`.

`misclose` is how the other properties are stated in spite of the first
finding: they hold until the first close of a reused number, and
`np_stale_close` shows that there is one. The violations are listed
under "findings" with the lines of the specification they contradict. Other
places where the code differs from the specification and no run says so:
a command for which a numbered pipe is due does not read it when the
uninitialised `line` (line 84) is too small a bound for the search, where the
specification's `|1` pipes to the next command (the runs follow both outcomes);
`printenv` shows the variables the server was started with (section 4.6 has
only `PATH`), a blank before `exit` ends the server instead of the session, and a
name of 20 characters, whose NUL falls on the address, loses it (`ipset`).
The single-user shell prompts for ever at the end of its input.
In the SOCKS server, a failed `connect()` is answered with 90, where the
specification of project 4 has 91 for failed requests. In the console, a
backslash in a shell's output is not escaped, though it is put into a string of
JavaScript.

The firewall has two properties. `FirewallAsRead` is what it promises with every
file: a request that a line lists is granted if its pattern has a `*` and the
words in front of the line are a multiple of three, whatever else is in the
file; and nothing else is granted but what three words in step permit up to
their first `*`. `DecisionMatchesRules` is what the specification says, granted
if and only if a line lists it, and `socks_rules` shows that it does not hold for
the specification's own example, whose comments have seven words. The other ways
to break it are a rule without any `*`, which permits nothing, and a number behind a
`*`, which is not looked at; `RuleFiles` has both, so `socks_relay` decides by them too.

Both are about the request as `read_s4` has read it. A request of which nothing,
or too little, is there to be decided about is the question of `socks_early`. In
a part that ends within the address the missing numbers are read as zero, and the
firewall decides about that address (`socks_relay` takes these steps); the rest
goes to the destination in front of the client's data, and `ImplementsRelay` is
about the data without it.

Fairness (`FairSpec`): the server takes a step whenever it can, `WF(Server)`:
it is one process that the operating system schedules. And a line that has
begun ends, `WF(FinishLine)`: nothing in the code gives that - `client_input()`
waits in `read()` for the newline - so the liveness properties are conditional
on clients that finish their lines. Both properties allow the server to be
`Stuck`: ended, or waiting for a foreground program, which may not end (a
program that reads the client's own socket, or a pipe the server holds open).

For the SOCKS session (`SocksSession!FairSpec`): the process runs, `WF(Session)`,
and both ends read what arrives, `WF(Consume)`. That is an assumption about
applications: an end that never reads stops the relay towards it, and with it
the process, for as long as it stays connected. Nobody is assumed to send, to
hang up or to connect. `SessionEnds` and `TrafficFlows` are about sessions that
relay: BIND's `accept()` has no limit.

For the web server and the console (`WebConsole!FairSpec`): every process runs
its handlers, `WF(ServerActs \/ Ends)`, and every session its own; both have one
thread whose event loop serves what is ready in the order it became so. A shell
executes the lines it has and the SOCKS server answers, and programs other than
the console end: assumptions about the environment. Browsers need not connect,
ask or leave, and a shell need not close by itself.

Deadlock is checked in every other run, but not in `web_pages`, where everything
may have ended: `Terminated` allows stuttering only when the
server has ended or hangs, or every client has gone; in `NpShell`, only when the shell has
ended, hangs, or the user has typed the last line.

Every property of a passing run has a mutant: a second version of one
definition, written beside it and marked as a mutant, with which TLC finds the
property violated.

## 4. What is proved

The theorems are checked by TLAPS for every value of the constants that
satisfies the assumptions of their module.

`NpServerProofs`, `NpServerPipes` and `NpServerRefinement`, from `FdAssumption`
and `ServerAssumption` (disjointness of the special values, naturals, and
commands that are well formed):

- `Invariant`: `IInv == TypeOK /\ Members /\ PipesBetweenOnline /\ JobOnline`
  is inductive. `FdIdentifiesUser` does not follow from itself: `accept()` may
  return a number that was closed under a user by mistake, and two users would
  then share it. `Members` adds why this cannot happen: at `pc = "accept"`
  every active descriptor is open, since the `select()` just before would have
  failed on a closed one, and nothing is closed in between. `JobOnline` says that
  the user a command runs for, and the one it receives from, are online while it
  runs; `PipesBetweenOnline` that user pipes join online users and have two
  descriptors or none, which lets `Logout` find them all by their read ends.
- `TypeCorrect`, `DescriptorsDistinct`, `ActiveDescriptors`: the consequences.
- `Refinement`: `Spec => ImplementsRoom`. The initial states map to initial
  states, and every action to one of the room's or to a stutter:
  `Accept` to `Join`, `Logout` to `Leave`, `Rename` to `Rename` or nothing,
  `Setenv` to `SetVar` (`GetenvAppend`: appending to the list sets the
  variable), `Shell` to `Pipe` or nothing, `Reap` and `FirstStage` to `Receive`
  or nothing.
- `NamesStayUnique`: from the refinement, because a step of the room keeps names
  unique; `rename()`'s comparison of descriptors is sound since they are distinct.
- `RoomKept`: user pipes wait only between online users, nobody has two ids.

`NpServerPipes`, from the same assumptions: `PipesInv` is inductive beside
`IInv`. Its parts hold each other up, which is why none is proved alone:

- What `npshell()` and `logout()` close are numbers that an entry remembers.
  `misclose` notes when such a number no longer is the entry's; so the parts in
  `Wired` are stated for `~misclose`, and have to say of each entry which of its
  ends is still open: both of a numbered pipe that waits
  (`NumberedPipesIntact`), the read end of a user pipe that waits
  (`PendingPipesIntact`), the read end of the pipe the running command was due to
  read (`DueOpen`) and of the last pipe of a pipeline that is being started
  (`LastOpen`).
- Numbers remembered in two places would be closed twice. `NumberedApart` says
  that a user's commands have different pipes, `DueOpen` and `LastOpen` that
  no later command has the one in use; entries of different users differ because
  an end knows who made it (`EndsNamed`: an end in the table knows both numbers of
  its pipe, so two pipes with a number in common are one).
- `FilledClosed`: the server has closed the write end of every user pipe except
  while the command that fills it is being started, or the user pipes to himself.
  With `DueOpen` it gives `HeldExplained`: the input of a started program is held
  by the server only in the cases that `ServerNeverHangs` names.
- `FromPending` and `StagesCounted`: a pipe announced as received is still there
  when its reader is started, and where the loop over a pipeline stands.

The consequences are `SocketsStayOpen`, `UserPipesStayIntact`,
`NumberedPipesStayIntact`, `NeverHangs` and `ReadsSender`. `TurnKept` is an action
property: no step but a command of its user moves a numbered pipe, and no
command replaces one (`numpipe_exist`).

`SocksSessionProofs`, from `SocksAssumption` (the capacities are natural numbers,
requests are records, and a rule file is a sequence of words):

- `Refinement`: `Spec => ImplementsRelay`. The invariant's heart is `Streams`: in
  each direction what was received, what is on its way to the receiver, what is in
  the session's buffer and what is on its way to the session are consecutive parts
  (`Run`) of one stream, which the unit 0 of a late request may begin. Whether it
  does is the existential `z`, the same for all four. Then an end can only receive
  the next unit, which is the abstract step; everything else is a stutter.
- `NothingLost`: `NothingLostAtClose`. `Ends` says when a relay may have stopped
  while the sockets are open: it has met the end of a stream of which nothing is
  left, or its receiver is not there. So when the session closes, what the
  one direction has not passed on is nothing.
- `NeverWaitsInVain`: `WaitsWhenPassedOn`, from `Ends` and `Streams`. A relay that
  is over has no receiver, one that waits for room has filled the network, and one
  that waits for data has an empty buffer: then the stream has no other place for a
  unit than the receiver's side (`AllPassedOn`). The other direction does not occur
  in it, which is the safety part of `TrafficFlows`, for every amount of data.
- `Starting`, `Answers` and `InPart` say what the phases before the relay have
  not done yet: nothing has been passed before the request is granted.
- `Decision`: `FirewallAsRead`, for every rule file. `GrantsAtFirstStar` is what the
  loop over the tokens computes: it stops at the first `*` it reaches, so that what
  is behind it does not matter. `InStep` is about the loop over the words: a line
  with a multiple of three words in front of it begins one of its rules. `DecidedAsRead` says it of every decision, with the
  request that has been read, which does not change after it.
- `TypeCorrect`: types, and that nothing holds more than `Cap`.

`NpShellProofs`, from `ShellAssumption` (what a line is; only a pipeline has
several stages), for any number of descriptors and lines, any commands and any
capacity of pipes:

- `PipesStayIntact`, from `TableInv`. `PendingIntact` is about the lines to come;
  to be inductive it needs how long the ends that the present line uses stay open
  (`Intact`, with `ReadOpen` and `WriteOpen`), that a numbered pipe's write end has
  no second number (`TableEnds`), that two entries are two pipes (`PipesApart`) and
  that the read end of a pipeline's last pipe is open, its write end closed
  (`PrevOpen`).
- `Connected`: if `ClosesNumbered` is FALSE, `StagesConnected`. The theorem has this
  hypothesis because `npshell.cpp` violates the property (`shell_closed`).
- `Explained`: `HangIsExplained`. `Waiting` says that the write end of a program's
  input is held only by programs started before it, or the pipe is late: its write
  end is still the shell's. Programs are ordered by line and stage, so
  among those that still run there is a first; it can go on unless what it writes
  to is full or its pipe is late. So no circle of programs waits for itself.
- `OwnData`: `ReadsItsOwn`. The invariant (`Owned`) gives every pipe the address of
  one program, and no two pipes the same: who waits for the pipe, what is in it,
  who reads it and who writes to it agree on that address, joined pipes (`|N` on
  an entry that exists) included. `Reached` says which addresses can have a pipe
  so far, so that a new pipe's is new.
- `MailImplemented`: `Spec => ImplementsMail`, from `TableInv`, `ProgramInv` and
  `Owned`, for both shells. `InboxIs` says that a box is a pipe whose read end is
  open, `SentTo` that what a program writes to is the box of its recipient or no
  box, both because pipe and address determine each other. Then a unit that is
  written or read is one that is sent or taken (`PutDelivers`), end-of-file is that
  nobody is left to send (`Finishes`: an open write end belongs to a program whose
  recipient has that pipe), SIGPIPE is that the recipient has no box, and `pipe()`
  and `fork()` give addresses their boxes when they need them (`ReadLineMail`,
  `ForkMail`). `Skip` and `Exit` are the lines that start nothing more (`QuietMail`).
- `TypeCorrect`: types, that no pipe is overfull and no line has two pipes.

`ConsoleProofs`, for any files, outputs, queries and sizes:

- `NoMutualWait`: `ConsoleInv` is inductive. Its heart is `PromptOnTheWay`: when
  the shell has no line to execute, what is on its way ends in a prompt, or in
  the blank of one whose "%" has been read, or nothing is and the last two reads
  have cut the prompt. `ReadLeaves` goes through the places where a read can end;
  `PromptBehind` carries the prompt over the SOCKS server's reply, and
  `NothingSent` says that no line is sent before the dialogue begins.
- `PagesInOrder`: `PageInOrder`, from `OrderInv`. A page has as many reads with a
  prompt as lines were sent, so that the next command has its prompt; it has the
  command of every line that the shell has executed, and as long as the shell is
  there of all that were sent; and what is on its way is about lines that the
  shell has executed. The second part is why the order of two handlers in
  `cgi_server` matters: a shell that is ready can execute only lines whose write
  has succeeded, and these have been shown.

`HtmlProofs`, for any alphabet and any length of the text:

- `EntityForEach`: `EachItsEntity`. The property is about `FlattenSeq`, a
  recursive function of the library, and about text of any length; the library's
  induction theorems cannot be used here, so both inductions are taken from the
  least number at which they would fail (`Induction`). The first shows that the
  function which `FlattenSeq` chooses exists (`JoinExists`); from it,
  one part more is one part more of the result (`FlattenNext`). The second is over
  the text: what has none of a character passes a replacement unchanged, whatever
  stands before it (`ReplaceTail`), so a character that is put behind a text goes
  through the seven replacements on its own (`Stage`): it stays until its own turn
  comes, and its entity is made of `Letters`, which no later replacement looks
  for (`SpecialChars`). With `&` replaced later than the others, as in the mutant
  `ReplacedLate`, this is where the proof would end.

`WebConsoleProofs`, for any finite set of browsers and any requests:

- `PagesEndWithPrograms`: `HttpInv` is inductive. Beside the types it has
  `AcceptedFirst` (only what has been accepted is read from) and `Living`
  (who is not yet born or has ended holds nothing, reads are pending in servers
  only, and `cgi_server` has no child). Then a connection whose
  request has been read is not in the server: the process that read it has closed
  its own copy in the same step, and a copy in another server is a child's whose
  exec failed.
- A step of the whole is a step of each part or leaves it alone (`StepOfServer`,
  `StepOfConsole`), so the invariants of server and console hold together:
  `WholeTypeOK`, `PagesEndWithTheirPrograms`, `NoMutualWaitInServer`,
  `PagesInOrderInServer`.
- `EachReplacedOnce`: `ReplacesEachOnce`, from `EntityForEach`.

With these, every safety property and every refinement that a passing run
checks is a theorem. The liveness properties (`LinesServed`,
`ConnectionsAccepted`, `SessionEnds`, `TrafficFlows`, `EveryPageEnds`,
`FilePlayed`) stay with TLC. So does the existence of states in which a
theorem's condition holds: that `misclose` can happen, and that a shell can hang,
is shown by the runs, not by the theorems.

## 5. Plan

1. Done: `FdTable`, `ChatRoom`, `NpServer` with their runs, the inductive
   invariant, the refinement.
2. Done: `Mail` and `NpShell` with their runs and proofs, the refinement included.
3. Done: `Relay` and `SocksSession` with their runs and proofs.
4. Done: `HttpServer`, `Console`, `Html`, `WebConsole` with their run and
   proofs. Next for them: an abstract page, to which `HeldByPrograms` would be a
   consequence.
5. Done: the pipes of `NpServer` (`NpServerPipes`). Next: what holds of the
   user pipes after a `misclose`, so that the damage of one wrong `close()` is
   bounded as well as excluded before it.

## 6. Not modelled

Filter programs, the frame of the HTML pages, message texts, the templates and
test data (no state); the boost echo server (an example of the library's). Of
`cgi_server`, the writes that a slow browser would cut (`async_write_some`, with
the bytes of a local string) and the differences of Windows sockets; of the
consoles, hosts whose first address is of IPv6, at which project 4 throws.
