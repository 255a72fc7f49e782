---------------------------- MODULE SocksSession ----------------------------
(***************************************************************************)
(* project4/socks_server.cpp: one connection to the SOCKS4 server, from    *)
(* the fork() of its process to the end of that process.                   *)
(*                                                                         *)
(* The process is one thread that runs completion handlers, and a handler  *)
(* is one step.  asio attempts an operation at once when it is started     *)
(* and, if it would block, again when the socket is ready: then it         *)
(* completes, and its handler waits for its turn.  The two relays, client  *)
(* to destination ("up": read_src, write_dest) and back ("down":           *)
(* read_dest, write_src), are the same code with the sockets exchanged.    *)
(***************************************************************************)
EXTENDS Naturals, SequencesExt

CONSTANTS
    Confs,        \* possible contents of socks.conf: sequences of words, each
                  \*   [text |-> its tokens, begins |-> whether a line does]
    Asks,         \* possible requests: [cd |-> 1 or 2, ip |-> four tokens]
    Unresolvable, \* the ip of a SOCKS4A request whose name does not resolve
    Cuts,         \* bound: how many numbers of the address, of 0 to 3, may be
                  \*   there when only a part of the request is
    Cap,          \* how much the network holds in one direction of a socket
    MaxSent,      \* bound: each end sends at most this much
    ForkMayFail   \* BOOLEAN: fork() of the server may fail

ASSUME SocksAssumption ==
    /\ Cap \in Nat /\ MaxSent \in Nat
    /\ \A a \in Asks : a.cd \in {1, 2} /\ a = [cd |-> a.cd, ip |-> a.ip]
    /\ \A c \in Confs : c \in Seq([text : Seq(STRING), begins : BOOLEAN])

Dirs == {"up", "down"}
Sides == {"src", "dst"}  \* socket_ and the client; dest_socket_ and its peer
From(d) == IF d = "up" THEN "src" ELSE "dst"
To(d) == IF d = "up" THEN "dst" ELSE "src"
Back(d) == IF d = "up" THEN "down" ELSE "up"

VARIABLES
    conf,     \* socks.conf, a sequence of words
    ask,      \* what the client requests; from read_s4 on, what it has read
    arrived,  \* how much of the request has arrived at the server
    phase,    \* where the session is
    open,     \* which of the session's sockets are open
    replies,  \* the codes of the replies sent, 90 or 91
    peer,     \* the two ends: not connected, open, half closed, gone
    op,       \* op[d]: the asynchronous operation of relay d, or its result
    buf,      \* buf[d]: src_buf or des_buf, as far as it holds unsent data
    sent,     \* sent[d]: how many units the sender of direction d has sent
    wire,     \* wire[d]: sent, and not yet read by the session; 0 is the
              \*   rest of a request that read_s4 has read in part
    kern,     \* kern[d]: written by the session, and not yet received
    got       \* got[d]: received by the other end

relay == <<op, buf, wire, kern>>
ends == <<peer, sent, got>>
request == <<conf, ask, arrived>>
vars == <<request, phase, open, replies, relay, ends>>

Phases == {"offered", "waiting", "bound", "relay", "closing", "ended"}
\* Nothing, up to seven bytes, the first eight, or all of the request.
Pieces == <<"none", "start", "address", "whole">>
Ops == {"none", "reading", "read", "eof", "writing", "wrote", "failed"}

Init ==
    /\ conf \in Confs /\ ask \in Asks /\ arrived = "none"
    /\ phase = "offered" /\ open = {"src"} /\ replies = <<>>
    /\ peer = [s \in Sides |-> IF s = "src" THEN "open" ELSE "none"]
    /\ op = [d \in Dirs |-> "none"]
    /\ sent = [d \in Dirs |-> 0]
    /\ buf = [d \in Dirs |-> <<>>] /\ wire = [d \in Dirs |-> <<>>]
    /\ kern = [d \in Dirs |-> <<>>] /\ got = [d \in Dirs |-> <<>>]

Granted == replies = [i \in 1 .. ask.cd |-> 90]
Sending(s) == peer[s] = "open"
Finished(s) == peer[s] \in {"half", "gone"}

-----------------------------------------------------------------------------
(* The client, the destination and the network. *)

\* More of the request arrives before it is read.
RequestArrives ==
    /\ phase \in {"offered", "waiting"} /\ Sending("src")
    /\ \E i, j \in DOMAIN Pieces :
        i < j /\ arrived = Pieces[i] /\ arrived' = Pieces[j]
    /\ UNCHANGED <<conf, ask, phase, open, replies, relay, ends>>

\* Its rest arrives afterwards.
RestArrives ==
    /\ phase \notin {"offered", "waiting"} /\ arrived \in {"start", "address"}
    /\ Sending("src") /\ "src" \in open /\ Len(wire["up"]) < Cap
    /\ arrived' = "whole"
    /\ wire' = [wire EXCEPT !["up"] = Append(@, 0)]
    /\ UNCHANGED <<conf, ask, phase, open, replies, op, buf, kern, ends>>

\* A client sends nothing beyond its request before it was granted.
Emit(d) ==
    /\ Granted /\ Sending(From(d)) /\ From(d) \in open
    /\ d = "up" => arrived = "whole"
    /\ sent[d] < MaxSent /\ Len(wire[d]) < Cap
    /\ sent' = [sent EXCEPT ![d] = @ + 1]
    /\ wire' = [wire EXCEPT ![d] = Append(@, sent[d] + 1)]
    /\ UNCHANGED <<request, phase, open, replies, op, buf, kern, peer, got>>

Consume(d) ==
    /\ peer[To(d)] \in {"open", "half"} /\ kern[d] # <<>>
    /\ got' = [got EXCEPT ![d] = Append(@, Head(kern[d]))]
    /\ kern' = [kern EXCEPT ![d] = Tail(@)]
    /\ UNCHANGED <<request, phase, open, replies, op, buf, wire, peer, sent>>

\* An end shuts down its sending direction, or closes the connection.
HangUp(s) ==
    /\ \/ peer[s] = "open" /\ peer' = [peer EXCEPT ![s] = "half"]
       \/ peer[s] \in {"open", "half"} /\ peer' = [peer EXCEPT ![s] = "gone"]
    /\ UNCHANGED <<request, phase, open, replies, relay, sent, got>>

-----------------------------------------------------------------------------
(***************************************************************************)
(* The firewall.  Of the three words that the loop reads at a time, the     *)
(* first is ignored; where a line begins makes no difference.  A word is   *)
(* the sequence of its tokens between dots, and getline() leaves the last  *)
(* token in place when there are no more.                                  *)
(***************************************************************************)
Rule(i) == [mode |-> conf[3 * i - 1].text, pattern |-> conf[3 * i].text]
RulesRead == {Rule(i) : i \in 1 .. Len(conf) \div 3}
Token(pattern, i) == IF i <= Len(pattern) THEN pattern[i] ELSE Last(pattern)

\* Mutant: the loop goes on after a token that differs.
GrantsAnywhere(pattern, ip) == \E i \in 1 .. 4 : Token(pattern, i) = "*"

\* The loop over the tokens grants at every "*" that it reaches.
Grants(pattern, ip) ==
    \E i \in 1 .. 4 :
        /\ Token(pattern, i) = "*"
        /\ \A j \in 1 .. i - 1 : Token(pattern, j) \in {"*", ip[j]}

Mode(cd) == IF cd = 1 THEN <<"c">> ELSE <<"b">>
Permitted(a) ==
    \E r \in RulesRead : r.mode = Mode(a.cd) /\ Grants(r.pattern, a.ip)

-----------------------------------------------------------------------------
(* Asynchronous operations. *)

Room(d) == Cap - Len(kern[d])

\* Mutant: the end of the connection is noticed before the data in front of it.
ReadEndFirst(d) ==
    LET s == From(d)
        over == s \notin open \/ ~Sending(s)
        data == IF over THEN <<>> ELSE wire[d]
    IN  /\ op' = [op EXCEPT ![d] = IF over THEN "eof"
                                   ELSE IF data # <<>> THEN "read" ELSE "reading"]
        /\ buf' = [buf EXCEPT ![d] = data]
        /\ wire' = [wire EXCEPT ![d] = IF data # <<>> THEN <<>> ELSE @]
        /\ UNCHANGED kern

\* async_read_some on From(d).  At end-of-file and on a socket that is closed,
\* or was never connected, it completes with an error.
Read(d) ==
    LET s == From(d)
        data == IF s \in open /\ peer[s] # "none" THEN wire[d] ELSE <<>>
        over == s \notin open \/ ~Sending(s)
    IN  /\ op' = [op EXCEPT ![d] = IF data # <<>> THEN "read"
                                   ELSE IF over THEN "eof" ELSE "reading"]
        /\ buf' = [buf EXCEPT ![d] = data]
        /\ wire' = [wire EXCEPT ![d] = IF data # <<>> THEN <<>> ELSE @]
        /\ UNCHANGED kern

\* Mutant: async_write_some, which is over when a part has been written.
WriteSome(d, data) ==
    LET n == IF Room(d) < Len(data) THEN Room(d) ELSE Len(data) IN
    /\ \/ /\ To(d) \in open /\ peer[To(d)] # "none"
          /\ kern' = [kern EXCEPT ![d] = @ \o SubSeq(data, 1, n)]
          /\ buf' = [buf EXCEPT ![d] = SubSeq(data, n + 1, Len(data))]
          /\ op' = [op EXCEPT ![d] = "wrote"]
       \/ /\ To(d) \notin open \/ peer[To(d)] \in {"none", "gone"}
          /\ op' = [op EXCEPT ![d] = "failed"]
          /\ buf' = [buf EXCEPT ![d] = <<>>]
          /\ UNCHANGED kern
    /\ UNCHANGED wire

\* async_write on To(d): what fits is passed on, and the rest stays.
Write(d, data) ==
    LET n == IF Room(d) < Len(data) THEN Room(d) ELSE Len(data) IN
    /\ \/ /\ To(d) \in open /\ peer[To(d)] # "none"
          /\ kern' = [kern EXCEPT ![d] = @ \o SubSeq(data, 1, n)]
          /\ buf' = [buf EXCEPT ![d] = SubSeq(data, n + 1, Len(data))]
          /\ op' = [op EXCEPT ![d] = IF n = Len(data) THEN "wrote"
                                     ELSE "writing"]
       \/ /\ To(d) \notin open \/ peer[To(d)] \in {"none", "gone"}
          /\ op' = [op EXCEPT ![d] = "failed"]
          /\ buf' = [buf EXCEPT ![d] = <<>>]
          /\ UNCHANGED kern
    /\ UNCHANGED wire

\* The socket is ready for what is pending on it.
Receive(d) ==
    /\ op[d] = "reading" /\ (wire[d] # <<>> \/ Finished(From(d)))
    /\ Read(d)
    /\ UNCHANGED <<request, phase, open, replies, ends>>

Transmit(d) ==
    /\ op[d] = "writing" /\ (Room(d) > 0 \/ peer[To(d)] = "gone")
    /\ Write(d, buf[d])
    /\ UNCHANGED <<request, phase, open, replies, ends>>

\* close() of both sockets.  What is pending completes with an error.  A socket
\* closed before all it received was read resets its connection: what was
\* written to it may then be lost.
Aborted == [reading |-> "eof", writing |-> "failed", read |-> "read",
            eof |-> "eof", wrote |-> "wrote", failed |-> "failed",
            none |-> "none"]
CloseBoth ==
    /\ open' = {}
    /\ buf' = [d \in Dirs |-> IF op[d] = "writing" THEN <<>> ELSE buf[d]]
    /\ wire' = [d \in Dirs |-> <<>>]
    /\ \E k \in [Dirs -> 0 .. Cap] :
        /\ \A d \in Dirs : \/ k[d] = Len(kern[d])
                           \/ k[d] < Len(kern[d]) /\ wire[Back(d)] # <<>>
        /\ kern' = [d \in Dirs |-> SubSeq(kern[d], 1, k[d])]

-----------------------------------------------------------------------------
(* The session's process: the completion handlers. *)

\* Mutant: one buffer for both directions.
ReadDoneCrossed(d) ==
    /\ op[d] = "read"
    /\ Write(d, IF buf[Back(d)] = <<>> THEN buf[d] ELSE buf[Back(d)])
    /\ UNCHANGED <<request, phase, open, replies, ends>>

\* read_src's and read_dest's handler: write_dest or write_src.
ReadDone(d) ==
    /\ op[d] = "read" /\ Write(d, buf[d])
    /\ UNCHANGED <<request, phase, open, replies, ends>>

\* Mutant: only the direction that has ended stops.
ReadFailedAlone(d) ==
    /\ op[d] = "eof" /\ op' = [op EXCEPT ![d] = "none"]
    /\ UNCHANGED <<request, phase, open, replies, buf, wire, kern, ends>>

ReadFailed(d) ==
    /\ op[d] = "eof" /\ CloseBoth
    /\ op' = [e \in Dirs |-> IF e = d THEN "none" ELSE Aborted[op[e]]]
    /\ UNCHANGED <<request, phase, replies, ends>>

\* Mutant: the relay is not started again.
WriteDoneOnce(d) ==
    /\ op[d] = "wrote" /\ op' = [op EXCEPT ![d] = "none"]
    /\ UNCHANGED <<request, phase, open, replies, buf, wire, kern, ends>>

\* Mutant: the relay is started again only if the other one is not writing.
WriteDoneApart(d) ==
    /\ op[d] = "wrote"
    /\ \/ op[Back(d)] # "writing" /\ Read(d)
       \/ /\ op[Back(d)] = "writing" /\ op' = [op EXCEPT ![d] = "none"]
          /\ UNCHANGED <<buf, wire, kern>>
    /\ UNCHANGED <<request, phase, open, replies, ends>>

\* write_dest's and write_src's handler: read_src or read_dest.
WriteDone(d) ==
    /\ op[d] = "wrote" /\ Read(d)
    /\ UNCHANGED <<request, phase, open, replies, ends>>

WriteFailed(d) ==
    /\ op[d] = "failed"
    /\ op' = [op EXCEPT ![d] = "none"]
    /\ UNCHANGED <<request, phase, open, replies, buf, wire, kern, ends>>

\* read_src(); read_dest().  Of what the ends send, only the rest of the request
\* can be there already.
StartRelay ==
    /\ phase' = "relay"
    /\ op' = [d \in Dirs |-> IF wire[d] # <<>> THEN "read"
                             ELSE IF peer'[From(d)] = "open" THEN "reading"
                             ELSE "eof"]
    /\ buf' = wire /\ wire' = [d \in Dirs |-> <<>>]

\* do_reply_connect and do_reply_bind when the rule file does not permit it.
Reject ==
    /\ replies' = <<91>> /\ phase' = "closing"
    /\ UNCHANGED <<open, op, buf, wire, peer>>

\* resolve_handler: connect() waits for the result.
ConnectTo ==
    /\ open' = Sides /\ replies' = <<90>>
    /\ \E result \in {"open", "none"} : peer' = [peer EXCEPT !["dst"] = result]
    /\ StartRelay

\* do_reply_bind up to accept().
Bind ==
    /\ replies' = <<90>> /\ phase' = "bound"
    /\ UNCHANGED <<open, op, buf, wire, peer>>

\* What request[] can say, whose bytes are zero until they arrive.  The first
\* read takes a part of the request for the whole.
CutAfter(k) == [ask EXCEPT !.ip = [i \in 1 .. 4 |->
                   IF i <= k /\ ask.ip # Unresolvable THEN ask.ip[i] ELSE "0"]]
AsRead == CASE arrived = "none" -> {}
            [] arrived = "start" -> {CutAfter(k) : k \in Cuts}
            [] OTHER -> {ask} \ {[ask EXCEPT !.ip = Unresolvable]}

\* Neither a command nor an exception leaves a session: cd has not been read; a
\* name does not resolve, or has not been read; BIND's acceptor does not open.
NothingToDo ==
    \/ arrived \in {"start", "address"}
    \/ arrived = "whole" /\ (ask.ip = Unresolvable \/ ask.cd = 2)

\* read_s4 does not wait for the request.
ReadS4 ==
    \/ /\ arrived = "none" /\ phase' = "waiting"
       /\ UNCHANGED <<ask, open, replies, op, buf, wire, peer>>
    \/ /\ NothingToDo /\ phase' = "closing"
       /\ UNCHANGED <<ask, open, replies, op, buf, wire, peer>>
    \/ \E a \in AsRead :
        /\ ask' = a
        /\ \/ ~Permitted(a) /\ Reject
           \/ Permitted(a) /\ a.cd = 1 /\ ConnectTo
           \/ Permitted(a) /\ a.cd = 2 /\ Bind

\* do_accept's handler: the child starts the session.
Accept ==
    /\ phase = "offered" /\ ReadS4
    /\ UNCHANGED <<conf, arrived, kern, sent, got>>

ForkFails ==
    /\ phase = "offered" /\ ForkMayFail
    /\ phase' = "ended" /\ open' = {}
    /\ UNCHANGED <<request, replies, relay, ends>>

\* The read that read_s4 left behind completes; its handler does nothing.
RequestDropped ==
    /\ phase = "waiting" /\ (arrived # "none" \/ Finished("src"))
    /\ phase' = "closing"
    /\ UNCHANGED <<request, open, replies, relay, ends>>

\* accept() of the connection the client has asked for.
AcceptBound ==
    /\ phase = "bound"
    /\ open' = Sides /\ replies' = Append(replies, 90)
    /\ peer' = [peer EXCEPT !["dst"] = "open"]
    /\ StartRelay
    /\ UNCHANGED <<request, kern, sent, got>>

\* It throws, and the session is gone.
AcceptBoundFails ==
    /\ phase = "bound" /\ phase' = "closing"
    /\ UNCHANGED <<request, open, replies, relay, ends>>

\* No operation holds the session: its sockets close and the process ends.
SessionOver ==
    /\ phase \in {"closing", "relay"} /\ \A d \in Dirs : op[d] = "none"
    /\ phase' = "ended" /\ CloseBoth
    /\ UNCHANGED <<request, replies, op, ends>>

Session ==
    \/ Accept \/ ForkFails \/ RequestDropped \/ SessionOver
    \/ \E d \in Dirs : \/ Receive(d) \/ Transmit(d) \/ ReadDone(d)
                       \/ ReadFailed(d) \/ WriteDone(d) \/ WriteFailed(d)

Environment ==
    \/ RequestArrives \/ RestArrives \/ AcceptBound \/ AcceptBoundFails
    \/ \E d \in Dirs : Emit(d) \/ Consume(d)
    \/ \E s \in Sides : HangUp(s)

Terminated == phase = "ended" /\ UNCHANGED vars

Next == Session \/ Environment \/ Terminated

Spec == Init /\ [][Next]_vars

\* The process runs, and its ends read what arrives.  Nobody has to send, to
\* hang up or to connect.
FairSpec ==
    /\ Spec /\ WF_vars(Session)
    /\ \A d \in Dirs : WF_vars(Consume(d))

-----------------------------------------------------------------------------
(* Properties. *)

Units(d) == 1 .. sent[d]

\* What the ends have sent to each other, without the rest of a request, which
\* can only be in front.
Data(q) == IF q # <<>> /\ q[1] = 0 THEN Tail(q) ELSE q

\* Types; buf holds data only between a read and the end of its write, and
\* the network never holds more than it can.
TypeOK ==
    /\ conf \in Confs /\ ask.cd \in {1, 2} /\ arrived \in Range(Pieces)
    /\ phase \in Phases /\ open \subseteq Sides
    /\ replies \in {<<>>, <<90>>, <<91>>, <<90, 90>>}
    /\ peer \in [Sides -> {"none", "open", "half", "gone"}]
    /\ op \in [Dirs -> Ops] /\ sent \in [Dirs -> 0 .. MaxSent]
    /\ \A d \in Dirs :
        /\ \A q \in {buf[d], wire[d], kern[d]} :
            q \in Seq({0} \cup Units(d)) /\ Len(q) <= Cap
        /\ got[d] \in Seq({0} \cup Units(d))
        /\ buf[d] # <<>> => op[d] \in {"read", "writing"}

\* The line that begins with the k-th word is a rule for the request as the
\* specification of the project means it: "permit", the command, and a pattern
\* of which every token is "*" or the address's.  A comment may follow.
Lists(k) ==
    /\ k + 2 <= Len(conf) /\ conf[k].begins
    /\ ~conf[k + 1].begins /\ ~conf[k + 2].begins
    /\ conf[k].text = <<"permit">> /\ conf[k + 1].text = Mode(ask.cd)
    /\ \A j \in 1 .. 4 : Token(conf[k + 2].text, j) \in {"*", ask.ip[j]}
Starred(k) == \E j \in 1 .. 4 : Token(conf[k + 2].text, j) = "*"

\* In front of its first "*" the pattern agrees with the address.
AgreesUpToStar(pattern, ip) ==
    \E n \in 1 .. 4 : /\ Token(pattern, n) = "*"
                      /\ \A j \in 1 .. n - 1 : Token(pattern, j) = ip[j]

\* What the firewall promises with any socks.conf, whatever comments are in it:
\* a request, as it was read, that a line lists is granted if the pattern has
\* a "*" and a number of words in front of the line that three divides, and
\* nothing, the other rules included, takes this back; and everything else is
\* denied, but for what three words in step permit up to their first "*".
FirewallAsRead ==
    replies # <<>> =>
        /\ \A k \in 1 .. Len(conf) :
              k % 3 = 1 /\ Lists(k) /\ Starred(k) => replies[1] = 90
        /\ replies[1] = 90 =>
              \E k \in 1 .. Len(conf) :
                  /\ k % 3 = 1 /\ k + 2 <= Len(conf)
                  /\ conf[k + 1].text = Mode(ask.cd)
                  /\ AgreesUpToStar(conf[k + 2].text, ask.ip)

\* What the specification says instead: a request is granted exactly when a
\* line of socks.conf lists it.  read_s4 reads words and not lines.
DecisionMatchesRules ==
    replies # <<>> =>
        (replies[1] = 90 <=> \E k \in 1 .. Len(conf) : Lists(k))

\* The relays implement a pair of channels that lose nothing in the middle,
\* repeat nothing and never mix: read_src ... write_src share one session, two
\* buffers and two sockets that either of them closes.  The destination may get
\* the rest of a request in front, which read_src takes for data.
R == INSTANCE Relay WITH granted <- Granted, got <- [d \in Dirs |-> Data(got[d])]
ImplementsRelay == R!Spec

\* When one end finishes, the relay closes both sockets, but not before all
\* that this end sent is on its way to the other, if that end is still there
\* and has sent nothing which the session has not read.
NothingLostAtClose ==
    [][ \A d \in Dirs :
          /\ phase = "relay" /\ open # {} /\ open' = {}
          /\ peer[To(d)] = "open" /\ wire[Back(d)] = <<>>
          => Data(got[d] \o kern'[d]) = [n \in Units(d) |-> n] ]_vars

\* The process does nothing for relay d until data or room for it comes, or the
\* relay is over.
Waits(d) ==
    \/ op[d] = "none"
    \/ op[d] = "reading" /\ wire[d] = <<>> /\ ~Finished(From(d))
    \/ op[d] = "writing" /\ Room(d) = 0 /\ peer[To(d)] # "gone"

\* A relay waits for nothing that the other does: while the session is open and
\* the receiver reads, it stands still only when the receiver has as much still
\* to take as the network holds, or all that the sender sent is passed on.
WaitsWhenPassedOn ==
    \A d \in Dirs :
        /\ phase = "relay" /\ open # {} /\ Waits(d)
        /\ peer[To(d)] \in {"open", "half"} /\ Len(kern[d]) # Cap
        => Data(got[d] \o kern[d]) = [n \in Units(d) |-> n]

\* As soon as either end has finished, the session ends, whichever operations
\* are pending in whichever direction.
SessionEnds ==
    \A s \in Sides : (phase = "relay" /\ Finished(s)) ~> (phase = "ended")

\* While both ends stay and read, what either sends reaches the other: the two
\* relays never wait for each other.  An end sends MaxSent units at most, so all
\* of them arrive if again and again nothing is missing.
TrafficFlows ==
    \A d \in Dirs :
        []<>(\/ peer["dst"] # "open" \/ \E s \in Sides : Finished(s)
             \/ Len(Data(got[d])) = sent[d])

\* The specification has the server receive the request and answer it.  A
\* client that has sent its request and is still there when its session ends
\* has been answered.
EndedAnswered ==
    phase = "ended" /\ arrived = "whole" /\ peer["src"] = "open" => replies # <<>>
=============================================================================
