-------------------------- MODULE WebConsoleProofs --------------------------
(***************************************************************************)
(* What the web server keeps for any number of browsers, whatever they ask *)
(* for; and that what the server and the console promise alone, they       *)
(* promise together: a step of the whole is a step of each part or leaves  *)
(* it alone, and so keeps the invariants of both.                          *)
(***************************************************************************)
EXTENDS WebConsole, ConsoleProofs, HtmlProofs

-----------------------------------------------------------------------------
(* The server alone: a connection that has been read from is kept by programs
   alone. *)

(* The servers start with their types. *)
LEMMA HttpInitTypes == ASSUME HttpAssumption, HttpInit PROVE HttpTypeOK
BY DEF HttpAssumption, HttpInit, HttpTypeOK, Targets, Kinds

(* What a browser does is of the type. *)
LEMMA BrowserTypes ==
  ASSUME HttpTypeOK, NEW b \in Browsers, Connect(b) \/ Request(b) \/ Leave(b)
  PROVE  HttpTypeOK'
<1>1. CASE Connect(b)
  BY <1>1 DEF Connect, HttpTypeOK
<1>2. CASE Request(b)
  BY <1>2 DEF Request, HttpTypeOK
<1>3. CASE Leave(b)
  BY <1>3 DEF Leave, HttpTypeOK
<1>4. QED
  BY <1>1, <1>2, <1>3

(* What a server does with a request is of the type. *)
LEMMA HandleTypes ==
  ASSUME HttpTypeOK, NEW p \in Procs, NEW b \in Browsers, Handle(p, b)
  PROVE  HttpTypeOK'
<1> USE DEF TakesRequest, HttpTypeOK
<1>1. ASSUME NEW q \in Procs, Execute(p, b, q) PROVE HttpTypeOK'
  <2>1. Program(b) \in Kinds
    BY DEF Program, Kinds
  <2>2. OpenAfterFork(p, b) \in SUBSET Browsers
    BY DEF OpenAfterFork
  <2>3. QED
    BY <1>1, <2>1, <2>2 DEF Execute
<1>2. ASSUME NEW q \in Procs, ExecFails(p, b, q) PROVE HttpTypeOK'
  <2>1. OpenAfterFork(p, b) \in SUBSET Browsers
    BY DEF OpenAfterFork
  <2>2. QED
    BY <1>2, <2>1 DEF ExecFails, Kinds
<1>3. CASE ForkFails(p, b)
  BY <1>3 DEF ForkFails
<1>4. CASE AnswerInside(p, b)
  BY <1>4 DEF AnswerInside
<1>5. CASE ConsoleInside(p, b)
  BY <1>5 DEF ConsoleInside
<1>6. CASE EndsOnBare(p, b)
  BY <1>6 DEF EndsOnBare, Kinds
<1>7. QED
  BY <1>1, <1>2, <1>3, <1>4, <1>5, <1>6 DEF Handle

(* Every step keeps the types. *)
LEMMA HttpNextTypes == ASSUME HttpTypeOK, [HttpNext]_hvars PROVE HttpTypeOK'
<1>1. CASE UNCHANGED hvars
  BY <1>1 DEF hvars, HttpTypeOK
<1>2. ASSUME NEW b \in Browsers, Connect(b) \/ Request(b) \/ Leave(b)
      PROVE  HttpTypeOK'
  BY <1>2, BrowserTypes
<1>3. ASSUME NEW p \in Procs, NEW b \in Browsers, Accept(p, b) PROVE HttpTypeOK'
  BY <1>3 DEF Accept, HttpTypeOK
<1>4. ASSUME NEW p \in Procs, NEW b \in Browsers, ReadFailed(p, b) PROVE HttpTypeOK'
  BY <1>4 DEF ReadFailed, HttpTypeOK
<1>5. ASSUME NEW p \in Procs, NEW b \in Browsers, Handle(p, b) PROVE HttpTypeOK'
  BY <1>5, HandleTypes
<1>6. ASSUME NEW q \in Procs, ProgramEnds(q) PROVE HttpTypeOK'
  BY <1>6 DEF ProgramEnds, HttpTypeOK, Kinds
<1>7. ASSUME NEW p \in Procs, NEW b \in Browsers, PageCloses(p, b) PROVE HttpTypeOK'
  BY <1>7 DEF PageCloses, HttpTypeOK
<1>8. QED
  BY <1>1, <1>2, <1>3, <1>4, <1>5, <1>6, <1>7 DEF HttpNext, Server

-----------------------------------------------------------------------------

(* The server was there from the start; what has anything open has been born
   and has not ended; reads are pending in servers, for a program has given
   them up; cgi_server never forks, so it has no failed exec(). *)
Living ==
    /\ kind[0] # "unborn"
    /\ \A p \in Procs : holds[p] # {} => kind[p] \in {"server", "program", "console"}
    /\ \A p \in Procs : reading[p] # {} => kind[p] = "server"
    /\ inside => \A p \in Procs : ~Stray(p)

(* Only what has been accepted is read from. *)
AcceptedFirst ==
    \A b \in Browsers : conn[b] \in {"out", "backlog"} =>
        asked[b] # "read" /\ \A p \in Procs : b \notin reading[p]

HttpInv == HttpTypeOK /\ AcceptedFirst /\ Living /\ HeldByPrograms

(* There is a first process. *)
LEMMA FirstProcess == 0 \in Procs
<1>1. Cardinality(Browsers) \in Nat
  BY HttpAssumption, FS_CardinalityType DEF HttpAssumption
<1>2. QED
  BY <1>1 DEF Procs

(* Of two servers one is a stray. *)
LEMMA TwoServers ==
  ASSUME NEW p \in Procs, NEW r \in Procs, p # r,
         kind[p] = "server", kind[r] = "server"
  PROVE  \E q \in Procs : Stray(q)
BY DEF Stray

(* A server that has just started satisfies the invariant. *)
LEMMA HttpInitHolds == ASSUME HttpAssumption, HttpInit PROVE HttpInv
<1>1. HttpTypeOK
  BY HttpInitTypes
<1>2. AcceptedFirst
  BY DEF AcceptedFirst, HttpInit
<1>3. Living
  BY FirstProcess DEF Living, HttpInit, Stray
<1>4. HeldByPrograms
  BY DEF HeldByPrograms, HttpInit
<1>5. QED
  BY <1>1, <1>2, <1>3, <1>4 DEF HttpInv

(* Every step keeps the order of accepting and reading. *)
LEMMA NextAcceptedFirst ==
  ASSUME HttpTypeOK, AcceptedFirst, [HttpNext]_hvars
  PROVE  AcceptedFirst'
<1> USE DEF AcceptedFirst, HttpTypeOK
<1>1. CASE UNCHANGED hvars
  BY <1>1 DEF hvars
<1>2. ASSUME NEW b \in Browsers, Connect(b) \/ Request(b) \/ Leave(b)
      PROVE  AcceptedFirst'
  BY <1>2 DEF Connect, Request, Leave
<1>3. ASSUME NEW p \in Procs, NEW b \in Browsers, Accept(p, b)
      PROVE  AcceptedFirst'
  BY <1>3 DEF Accept
<1>4. ASSUME NEW p \in Procs, NEW b \in Browsers,
             ReadFailed(p, b) \/ PageCloses(p, b)
      PROVE  AcceptedFirst'
  BY <1>4 DEF ReadFailed, PageCloses
<1>5. ASSUME NEW q \in Procs, ProgramEnds(q) PROVE AcceptedFirst'
  BY <1>5 DEF ProgramEnds
<1>6. ASSUME NEW p \in Procs, NEW b \in Browsers, Handle(p, b)
      PROVE  AcceptedFirst'
  <2>1. /\ b \in reading[p] /\ asked' = [asked EXCEPT ![b] = "read"]
        /\ UNCHANGED conn
    BY <1>6 DEF Handle, TakesRequest, Execute, ExecFails, ForkFails,
                AnswerInside, ConsoleInside, EndsOnBare
  <2>2. \A r \in Procs : \A c \in reading'[r] : \E o \in Procs : c \in reading[o]
    BY <1>6 DEF Handle, Execute, ExecFails, ForkFails,
                AnswerInside, ConsoleInside, EndsOnBare
  <2>3. QED
    BY <2>1, <2>2
<1>7. QED
  BY <1>1, <1>2, <1>3, <1>4, <1>5, <1>6 DEF HttpNext, Server

(* After a fork the child has its own connection and copies of the others; the
   parent has given its connection up. *)
LEMMA ForkHolds ==
  ASSUME HttpInv, NEW p \in Procs, NEW b \in Browsers, NEW q \in Procs,
         kind[p] = "server", ~inside, kind[q] = "unborn",
         asked' = [asked EXCEPT ![b] = "read"], UNCHANGED inside,
         UNCHANGED target,
         NEW k \in {"server", "program", "console"}, NEW R,
         kind' = [kind EXCEPT ![q] = k],
         \/ k = "server" /\ reading' = [reading EXCEPT ![q] = R, ![p] = @ \ {b}]
         \/ reading' = [reading EXCEPT ![p] = @ \ {b}],
         holds' = [holds EXCEPT ![q] = reading[p], ![p] = holds[p] \ {b}]
  PROVE  Living' /\ HeldByPrograms'
<1> USE DEF HttpInv, HttpTypeOK
<1>1. q # 0 /\ q # p
  BY DEF Living
<1>2. \A r \in Procs : Stray(r) => Stray(r)'
  BY DEF Stray
<1>3. k = "server" => Stray(q)'
  BY <1>1 DEF Stray
<1>4. Living'
  <2>1. \A r \in Procs : reading'[r] # {} => kind'[r] = "server"
    BY <1>1 DEF Living
  <2>2. QED
    BY <1>1, <2>1 DEF Living, Stray
<1>5. ASSUME NEW c \in Browsers, NEW r \in Procs, asked'[c] = "read", c \in holds'[r]
      PROVE  \/ kind'[r] \in {"program", "console"}
             \/ \E s \in Procs : Stray(s)'
  <2>1. CASE r = q
    BY <2>1, <1>3
  <2>2. CASE r # q /\ c # b
    <3>1. asked[c] = "read" /\ c \in holds[r] /\ kind'[r] = kind[r]
      BY <2>2, <1>5
    <3>2. QED
      BY <3>1, <1>2 DEF HeldByPrograms
  <2>3. CASE r # q /\ c = b
    <3>1. r # p /\ c \in holds[r] /\ kind'[r] = kind[r]
      BY <2>3, <1>5
    <3>2. kind[r] \in {"server", "program", "console"}
      BY <3>1 DEF Living
    <3>3. QED
      BY <3>1, <3>2, <1>2, TwoServers
  <2>4. QED
    BY <2>1, <2>2, <2>3
<1>6. HeldByPrograms'
  BY <1>5 DEF HeldByPrograms
<1>7. QED
  BY <1>4, <1>6

(* A server that has read a request and gives the connection up, unless it is
   the console's in cgi_server. *)
LEMMA ServerGivesUp ==
  ASSUME HttpInv, NEW p \in Procs, NEW b \in Browsers,
         kind[p] = "server", UNCHANGED <<inside, target, kind>>,
         asked' = [asked EXCEPT ![b] = "read"],
         reading' = [reading EXCEPT ![p] = @ \ {b}],
         \/ holds' = [holds EXCEPT ![p] = @ \ {b}]
         \/ UNCHANGED holds /\ inside /\ target[b] = "console"
  PROVE  Living' /\ HeldByPrograms'
<1> USE DEF HttpInv, HttpTypeOK
<1>1. \A r \in Procs : Stray(r)' <=> Stray(r)
  BY DEF Stray
<1>2. Living'
  BY <1>1 DEF Living
<1>3. ASSUME NEW c \in Browsers, NEW r \in Procs, asked'[c] = "read", c \in holds'[r]
      PROVE  \/ kind[r] \in {"program", "console"}
             \/ \E s \in Procs : Stray(s)
             \/ inside /\ target[c] = "console"
  <2>1. c \in holds[r]
    BY <1>3
  <2>2. CASE c # b
    BY <2>1, <2>2, <1>3 DEF HeldByPrograms
  <2>3. CASE c = b /\ r = p
    BY <2>3, <1>3
  <2>4. CASE c = b /\ r # p
    <3>1. kind[r] \in {"server", "program", "console"}
      BY <2>1 DEF Living
    <3>2. QED
      BY <2>4, <3>1, TwoServers
  <2>5. QED
    BY <2>2, <2>3, <2>4
<1>4. QED
  BY <1>1, <1>2, <1>3 DEF HeldByPrograms

(* What a server does with a request keeps the invariant. *)
LEMMA HandleHolds ==
  ASSUME HttpInv, NEW p \in Procs, NEW b \in Browsers, Handle(p, b)
  PROVE  Living' /\ HeldByPrograms'
<1> USE DEF TakesRequest
<1>0. b \in reading[p]
  BY DEF Handle, Execute, ExecFails, ForkFails, AnswerInside, ConsoleInside, EndsOnBare
<1>s. kind[p] = "server"
  BY <1>0 DEF HttpInv, Living
<1>1. ASSUME NEW q \in Procs, Execute(p, b, q) PROVE Living' /\ HeldByPrograms'
  <2>1. Program(b) \in {"server", "program", "console"}
    BY DEF Program
  <2>2. kind[q] = "unborn"
    BY <1>1 DEF Execute, Child
  <2>3. QED
    BY <1>s, <1>1, <2>1, <2>2, ForkHolds DEF Execute, OpenAfterFork
<1>2. ASSUME NEW q \in Procs, ExecFails(p, b, q) PROVE Living' /\ HeldByPrograms'
  <2>1. kind[q] = "unborn"
    BY <1>2 DEF ExecFails, Child
  <2>2. QED
    BY <1>s, <1>2, <2>1, ForkHolds DEF ExecFails, OpenAfterFork
<1>3. CASE ForkFails(p, b)
  BY <1>s, <1>3, ServerGivesUp DEF ForkFails
<1>4. CASE AnswerInside(p, b)
  BY <1>s, <1>4, ServerGivesUp DEF AnswerInside
<1>5. CASE ConsoleInside(p, b)
  BY <1>s, <1>5, ServerGivesUp DEF ConsoleInside
<1>6. CASE EndsOnBare(p, b)
  <2> USE DEF EndsOnBare, HttpInv, HttpTypeOK
  <2>1. \A r \in Procs \ {p} :
            kind'[r] = kind[r] /\ holds'[r] = holds[r] /\ reading'[r] = reading[r]
    BY <1>6
  <2>2. kind'[p] = "ended" /\ holds'[p] = {} /\ reading'[p] = {}
    BY <1>6
  <2>3. \A r \in Procs : ~Stray(r) /\ ~Stray(r)'
    BY <1>6, <2>1, <2>2 DEF Living, Stray
  <2>4. Living'
    <3>1. kind'[0] # "unborn"
      BY <1>6 DEF Living
    <3>2. QED
      BY <3>1, <2>1, <2>2, <2>3 DEF Living
  <2>5. ASSUME NEW c \in Browsers, NEW r \in Procs, c \in holds'[r]
        PROVE  kind'[r] \in {"program", "console"}
    <3>1. r # p /\ kind[r] \in {"server", "program", "console"}
      BY <2>1, <2>2, <2>5 DEF Living
    <3>2. kind[r] # "server"
      BY <3>1, <1>s, <2>3, TwoServers
    <3>3. QED
      BY <2>1, <3>1, <3>2
  <2>6. QED
    BY <2>4, <2>5 DEF HeldByPrograms
<1>7. QED
  BY <1>1, <1>2, <1>3, <1>4, <1>5, <1>6 DEF Handle

(* A step after which less is open, and that reads no request, keeps it. *)
LEMMA LessOpen ==
  ASSUME HttpInv, NEW p \in Procs, UNCHANGED <<inside, target, asked>>,
         \A r \in Procs :
            /\ holds'[r] \subseteq holds[r] /\ reading'[r] \subseteq reading[r]
            /\ \/ kind'[r] = kind[r]
               \/ /\ kind[r] \in {"program", "console"}
                  /\ kind'[r] = "ended" /\ holds'[r] = {}
  PROVE  Living' /\ HeldByPrograms'
<1>1. \A r \in Procs : Stray(r)' <=> Stray(r)
  BY DEF Stray
<1>2. Living'
  <2>1. kind'[0] # "unborn"
    BY FirstProcess DEF HttpInv, Living
  <2>2. QED
    BY <1>1, <2>1 DEF HttpInv, Living
<1>3. QED
  BY <1>1, <1>2 DEF HttpInv, HeldByPrograms

(* Every step keeps the invariant. *)
LEMMA HttpNextHolds == ASSUME HttpInv, [HttpNext]_hvars PROVE HttpInv'
<1> USE DEF HttpInv
<1>1. HttpTypeOK' /\ AcceptedFirst'
  BY HttpNextTypes, NextAcceptedFirst
<1>2. Living' /\ HeldByPrograms'
  <2>1. CASE UNCHANGED hvars
    BY <2>1 DEF hvars, Living, HeldByPrograms, Stray
  <2>2. ASSUME NEW b \in Browsers, Connect(b) \/ Request(b) \/ Leave(b)
        PROVE  Living' /\ HeldByPrograms'
    <3>1. \A c \in Browsers : asked'[c] = "read" => asked[c] = "read"
      BY <2>2 DEF Connect, Request, Leave, HttpTypeOK
    <3>2. UNCHANGED <<inside, target, kind, holds, reading>>
      BY <2>2 DEF Connect, Request, Leave
    <3>3. QED
      BY <3>1, <3>2 DEF Living, HeldByPrograms, Stray
  <2>3. ASSUME NEW p \in Procs, NEW b \in Browsers, Accept(p, b)
        PROVE  Living' /\ HeldByPrograms'
    <3> USE DEF HttpTypeOK
    <3>1. /\ UNCHANGED <<inside, target, asked, kind>> /\ asked[b] # "read"
          /\ kind[p] = "server"
      BY <2>3 DEF Accept, AcceptedFirst
    <3>2. \A r \in Procs : Stray(r)' <=> Stray(r)
      BY <3>1 DEF Stray
    <3>3. \A r \in Procs :
            /\ r # p => holds'[r] = holds[r] /\ reading'[r] = reading[r]
            /\ \A c \in Browsers \ {b} : c \in holds'[r] => c \in holds[r]
      BY <2>3 DEF Accept
    <3>4. Living'
      BY <3>1, <3>2, <3>3 DEF Living
    <3>5. ASSUME NEW c \in Browsers, NEW r \in Procs,
                 asked'[c] = "read", c \in holds'[r]
          PROVE  \/ kind[r] \in {"program", "console"}
                 \/ \E q \in Procs : Stray(q)
                 \/ inside /\ target[c] = "console"
      <4>1. c # b /\ asked[c] = "read"
        BY <3>1, <3>5
      <4>2. c \in holds[r]
        BY <3>3, <3>5, <4>1
      <4>3. QED
        BY <4>1, <4>2 DEF HeldByPrograms
    <3>6. HeldByPrograms'
      BY <3>1, <3>2, <3>5 DEF HeldByPrograms
    <3>7. QED
      BY <3>4, <3>6
  <2>4. ASSUME NEW p \in Procs, NEW b \in Browsers, ReadFailed(p, b)
        PROVE  Living' /\ HeldByPrograms'
    BY <2>4, LessOpen DEF ReadFailed, HttpTypeOK
  <2>5. ASSUME NEW p \in Procs, NEW b \in Browsers, Handle(p, b)
        PROVE  Living' /\ HeldByPrograms'
    BY <2>5, HandleHolds
  <2>6. ASSUME NEW q \in Procs, ProgramEnds(q) PROVE Living' /\ HeldByPrograms'
    BY <2>6, LessOpen DEF ProgramEnds, HttpTypeOK
  <2>7. ASSUME NEW p \in Procs, NEW b \in Browsers, PageCloses(p, b)
        PROVE  Living' /\ HeldByPrograms'
    BY <2>7, LessOpen DEF PageCloses, HttpTypeOK
  <2>8. QED
    BY <2>1, <2>2, <2>3, <2>4, <2>5, <2>6, <2>7 DEF HttpNext, Server
<1>3. QED
  BY <1>1, <1>2

(* Whatever the browsers ask for, a connection that has been read from is kept
   by programs alone. *)
THEOREM PagesEndWithPrograms == HttpSpec => []HeldByPrograms
<1>1. HttpInit => HttpInv
  BY HttpAssumption, HttpInitHolds
<1>2. HttpInv /\ [HttpNext]_hvars => HttpInv'
  BY HttpNextHolds
<1>3. HttpInv => HeldByPrograms
  BY DEF HttpInv
<1>4. QED
  BY <1>1, <1>2, <1>3, PTL DEF HttpSpec

-----------------------------------------------------------------------------
(* The parts. *)

(* A step of the whole is one of the web server, or leaves it alone. *)
LEMMA StepOfServer == [Next]_vars => [HttpNext]_hvars
<1>1. ASSUME NEW b \in Browsers, Browse(b) PROVE HttpNext
  BY <1>1 DEF Browse, HttpNext
<1>2. ASSUME NEW p \in Procs, ServerActs(p) PROVE HttpNext
  <2>1. PICK b \in Browsers :
          \/ Accept(p, b) \/ ReadFailed(p, b) \/ Handle(p, b) \/ PageCloses(p, b)
    BY <1>2 DEF ServerActs, Takes, RunsInside, ServerEnds, Answers, LastSession,
                Runs, Handle
  <2>2. QED
    BY <2>1 DEF HttpNext, Server
<1>3. ASSUME NEW p \in Procs, Ends(p) \/ ConsoleKilled(p) PROVE HttpNext
  BY <1>3 DEF Ends, PageEnds, ConsoleEnds, ConsoleKilled, HttpNext
<1>4. ASSUME NEW s \in Sessions, Dialogue(s) \/ Elsewhere(s) PROVE UNCHANGED hvars
  BY <1>4 DEF Dialogue, Elsewhere
<1>5. UNCHANGED vars => UNCHANGED hvars
  BY DEF vars
<1>6. QED
  BY <1>1, <1>2, <1>3, <1>4, <1>5 DEF Next

(* A step of the whole is one of the console, or leaves it alone. *)
LEMMA StepOfConsole == [Next]_vars => [ConsoleNext]_cvars
<1>1. ASSUME NEW b \in Browsers, Browse(b) PROVE UNCHANGED cvars
  BY <1>1 DEF Browse
<1>2. ASSUME NEW p \in Procs, ServerActs(p) PROVE [ConsoleNext]_cvars
  <2>1. Start \/ Stop \/ UNCHANGED cvars
    BY <1>2 DEF ServerActs, Takes, RunsInside, ServerEnds, Answers, LastSession, Runs
  <2>2. QED
    BY <2>1 DEF ConsoleNext
<1>3. ASSUME NEW p \in Procs, Ends(p) \/ ConsoleKilled(p) PROVE [ConsoleNext]_cvars
  BY <1>3 DEF Ends, PageEnds, ConsoleEnds, ConsoleKilled, ConsoleNext
<1>4. ASSUME NEW s \in Sessions, Dialogue(s) \/ Elsewhere(s) PROVE ConsoleNext
  BY <1>4 DEF Dialogue, Elsewhere, ConsoleNext
<1>5. UNCHANGED vars => UNCHANGED cvars
  BY DEF vars
<1>6. QED
  BY <1>1, <1>2, <1>3, <1>4, <1>5 DEF Next

-----------------------------------------------------------------------------
(* The whole. *)

BothInv == HttpInv /\ PagesInv

(* The invariants of both hold at first. *)
LEMMA BothInitHolds == Init => BothInv
BY HttpAssumption, HttpInitHolds, PagesInitHolds DEF Init, BothInv

(* Every step keeps them. *)
LEMMA BothNextHolds == BothInv /\ [Next]_vars => BothInv'
BY StepOfServer, StepOfConsole, HttpNextHolds, PagesNextHolds DEF BothInv

(* The invariants of both hold throughout. *)
LEMMA BothHold == Spec => []BothInv
BY BothInitHolds, BothNextHolds, PTL DEF Spec

(* No read returns more than the buffer holds, and every record of the servers,
   of their children and of the sessions keeps its type (console.cpp
   read_handler, http_server.cpp do_write). *)
THEOREM WholeTypeOK == Spec => []TypeOK
<1>1. BothInv => TypeOK
  BY DEF BothInv, TypeOK, HttpInv, PagesInv, ConsoleInv
<1>2. QED
  BY <1>1, BothHold, PTL

(* Whatever text a page may come to show, and however long it is, each of its
   characters becomes its own entity: no replacement touches what an earlier one
   has written, and no quote, end of line or tag is left (console.cpp replace). *)
THEOREM EachReplacedOnce == Spec => []ReplacesEachOnce
<1>1. ReplacesEachOnce
  BY EntityForEach DEF ReplacesEachOnce
<1>2. QED
  BY <1>1, PTL

(* With the console running in children or inside, a connection whose request
   has been read is open in programs only, so a page ends with them. *)
THEOREM PagesEndWithTheirPrograms == Spec => []HeldByPrograms
<1>1. BothInv => HeldByPrograms
  BY DEF BothInv, HttpInv
<1>2. QED
  BY <1>1, BothHold, PTL

(* Whatever the browsers and the processes do, the console and a shell wait for
   each other only after a prompt that two reads have cut. *)
THEOREM NoMutualWaitInServer == Spec => []WaitsOnlyIfCut
<1>1. BothInv => WaitsOnlyIfCut
  BY ConsoleInvWaits DEF BothInv, PagesInv
<1>2. QED
  BY <1>1, BothHold, PTL

(* Whatever the browsers and the processes do, a page tells the dialogue of each
   of its sessions in order. *)
THEOREM PagesInOrderInServer == Spec => []PageInOrder
<1>1. BothInv => PageInOrder
  BY PagesInvOrder DEF BothInv
<1>2. QED
  BY <1>1, BothHold, PTL
=============================================================================
