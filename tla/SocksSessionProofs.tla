------------------------- MODULE SocksSessionProofs -------------------------
(***************************************************************************)
(* That the two relays of a SOCKS session are a pair of channels, for any  *)
(* capacity of the network, any rule files and requests, and any amount of *)
(* data.                                                                   *)
(***************************************************************************)
EXTENDS SocksSession, SequenceTheorems, TLAPS

-----------------------------------------------------------------------------
(* The inductive invariant. *)

\* The data of a direction, wherever it is, is a run of consecutive numbers.  z
\* is 1 if the rest of a request is in front of them, and 0 otherwise; Run says
\* that q is that stream without its first n elements, or begins so.
Run(q, n, z) == \A i \in 1 .. Len(q) : q[i] + z = n + i

\* Nothing has been dropped by a write that failed.
Whole(d) == phase = "relay" => op[d] \notin {"none", "failed"}

\* What was received, is on its way to the receiver, is in the session's buffer
\* and is on its way to the session, follow one another; got and kern go on
\* saying so when the session has closed its sockets.
Stream(d, z) ==
    LET g == Len(got[d])
        k == g + Len(kern[d])
        b == k + Len(buf[d])
        w == Len(wire[d])
    IN  /\ Run(got[d], 0, z) /\ Run(kern[d], g, z)
        /\ k <= sent[d] + z
        /\ open # {} =>
            /\ Run(buf[d], k, z) /\ Run(wire[d], sent[d] + z - w, z)
            /\ b + w <= sent[d] + z
            /\ Whole(d) => b + w = sent[d] + z
Streams == \A d \in Dirs : \E z \in {0, 1} : Stream(d, z)

\* Before the relay nothing but the rest of a request is on its way.
Starting ==
    phase \in {"offered", "waiting", "bound", "closing"} =>
        /\ open = {"src"} /\ peer["dst"] = "none" /\ ~Granted
        /\ \A d \in Dirs : /\ op[d] = "none" /\ sent[d] = 0
                           /\ got[d] = <<>> /\ kern[d] = <<>> /\ buf[d] = <<>>
        /\ wire["down"] = <<>>
Answers ==
    /\ phase \in {"offered", "waiting"} => replies = <<>>
    /\ phase = "bound" => replies = <<90>> /\ ask.cd = 2
    /\ phase = "relay" => Granted /\ open \in {{}, Sides}
    /\ phase = "ended" => open = {}

\* A client sends nothing after a part of its request.
InPart ==
    arrived # "whole" =>
        /\ sent["up"] = 0 /\ wire["up"] = <<>> /\ buf["up"] = <<>>
        /\ kern["up"] = <<>> /\ got["up"] = <<>>

\* While the sockets are open: a relay has met the end only when there is
\* nothing more to come, and has stopped only when its receiver is not there.
Ends ==
    open # {} => \A d \in Dirs :
        /\ peer[From(d)] = "none" => wire[d] = <<>>
        /\ op[d] = "eof" =>
            ~Sending(From(d)) /\ wire[d] = <<>> /\ buf[d] = <<>>
        /\ phase = "relay" /\ op[d] \in {"none", "failed"} =>
            peer[To(d)] \in {"none", "gone"}

\* The request stays a record, and each direction has its sequences.
AskRecord == ask = [cd |-> ask.cd, ip |-> ask.ip]

Shapes ==
    /\ buf \in [Dirs -> Seq(Nat)] /\ wire \in [Dirs -> Seq(Nat)]
    /\ kern \in [Dirs -> Seq(Nat)] /\ got \in [Dirs -> Seq(Nat)]

IInv ==
    /\ TypeOK /\ Shapes /\ Streams /\ Starting /\ Answers /\ InPart /\ Ends /\ AskRecord

-----------------------------------------------------------------------------
(* Reading, writing and closing. *)

(* TypeOK, by direction. *)
DirTypes(d) ==
    /\ \A q \in {buf[d], wire[d], kern[d]} :
        q \in Seq({0} \cup Units(d)) /\ Len(q) <= Cap
    /\ got[d] \in Seq({0} \cup Units(d))
    /\ buf[d] # <<>> => op[d] \in {"read", "writing"}

FlatTypes ==
    /\ conf \in Confs /\ ask.cd \in {1, 2} /\ arrived \in Range(Pieces)
    /\ phase \in Phases /\ open \subseteq Sides
    /\ replies \in {<<>>, <<90>>, <<91>>, <<90, 90>>}
    /\ peer \in [Sides -> {"none", "open", "half", "gone"}]
    /\ op \in [Dirs -> Ops] /\ sent \in [Dirs -> 0 .. MaxSent]

LEMMA TypesByDirection == TypeOK <=> FlatTypes /\ \A d \in Dirs : DirTypes(d)
BY DEF TypeOK, FlatTypes, DirTypes

(* What the sequences of each direction are, whatever is in them. *)
LEMMA SequenceTypes ==
  ASSUME IInv
  PROVE  /\ buf \in [Dirs -> Seq(Nat)] /\ wire \in [Dirs -> Seq(Nat)]
         /\ kern \in [Dirs -> Seq(Nat)] /\ got \in [Dirs -> Seq(Nat)]
         /\ sent \in [Dirs -> Nat] /\ op \in [Dirs -> Ops]
BY SocksAssumption DEF IInv, TypeOK, Shapes

(* A relay that has something to do belongs to a session that relays. *)
LEMMA Relaying ==
  ASSUME IInv, NEW d \in Dirs, op[d] # "none"
  PROVE  phase = "relay" \/ (phase = "ended" /\ open = {})
BY DEF IInv, Starting, Answers, TypeOK, Phases

(* What a step of direction d that leaves everything else alone has to show. *)
LEMMA OneDirection ==
  ASSUME IInv, NEW d \in Dirs, op[d] # "none",
         UNCHANGED <<request, phase, open, replies, peer, sent>>,
         \A e \in Dirs \ {d} : /\ op'[e] = op[e] /\ buf'[e] = buf[e]
                               /\ wire'[e] = wire[e] /\ kern'[e] = kern[e]
                               /\ got'[e] = got[e],
         op' \in [Dirs -> Ops], Shapes', DirTypes(d)',
         \A z \in {0, 1} : Stream(d, z) => Stream(d, z)',
         arrived # "whole" /\ d = "up" =>
            buf'[d] = <<>> /\ wire'[d] = <<>> /\ kern'[d] = <<>> /\ got'[d] = <<>>,
         open # {} => /\ peer[From(d)] = "none" => wire'[d] = <<>>
                      /\ op'[d] = "eof" =>
                            ~Sending(From(d)) /\ wire'[d] = <<>> /\ buf'[d] = <<>>
                      /\ op'[d] \in {"none", "failed"} =>
                            peer[To(d)] \in {"none", "gone"}
  PROVE  IInv'
<1>1. phase = "relay" \/ (phase = "ended" /\ open = {})
  BY Relaying
<1>2. TypeOK'
  <2>1. FlatTypes'
    BY TypesByDirection DEF IInv, FlatTypes, request
  <2>2. \A e \in Dirs \ {d} : DirTypes(e)'
    BY TypesByDirection DEF IInv, DirTypes, Units
  <2>3. QED
    BY <2>1, <2>2 DEF TypeOK, FlatTypes, DirTypes
<1>3. Streams'
  <2>1. ASSUME NEW e \in Dirs \ {d}, NEW z \in {0, 1}, Stream(e, z)
        PROVE  Stream(e, z)'
    BY <2>1 DEF Stream, Whole
  <2>2. QED
    BY <2>1 DEF IInv, Streams
<1>4. Starting' /\ Answers'
  BY <1>1 DEF IInv, Starting, Answers, Granted, request
<1>5. InPart'
  BY DEF IInv, InPart, request, Dirs
<1>6. Ends'
  BY <1>1 DEF IInv, Ends, Sending
<1>7. AskRecord'
  BY DEF IInv, AskRecord, request
<1>8. QED
  BY <1>2, <1>3, <1>4, <1>5, <1>6, <1>7 DEF IInv

(* A run can be cut anywhere, and put together again. *)
LEMMA RunConcat ==
  ASSUME NEW q \in Seq(Nat), NEW r \in Seq(Nat), NEW n \in Int, NEW z \in {0, 1},
         Run(q, n, z), Run(r, n + Len(q), z)
  PROVE  Run(q \o r, n, z)
BY DEF Run

LEMMA RunParts ==
  ASSUME NEW q \in Seq(Nat), NEW m \in 0 .. Len(q), NEW n \in Int, NEW z \in {0, 1},
         Run(q, n, z)
  PROVE  /\ Run(SubSeq(q, 1, m), n, z)
         /\ Run(SubSeq(q, m + 1, Len(q)), n + m, z)
         /\ SubSeq(q, 1, m) \in Seq(Nat) /\ SubSeq(q, m + 1, Len(q)) \in Seq(Nat)
         /\ Len(SubSeq(q, 1, m)) = m /\ Len(SubSeq(q, m + 1, Len(q))) = Len(q) - m
BY DEF Run

LEMMA PartsOf ==
  ASSUME NEW S, NEW q \in Seq(S), NEW m \in 0 .. Len(q)
  PROVE  /\ SubSeq(q, 1, m) \in Seq(S) /\ SubSeq(q, m + 1, Len(q)) \in Seq(S)
         /\ Len(SubSeq(q, 1, m)) = m /\ Len(SubSeq(q, m + 1, Len(q))) = Len(q) - m
OBVIOUS

(* async_read_some takes all there is, and nothing is lost on the way. *)
LEMMA ReadStep ==
  ASSUME IInv, NEW d \in Dirs, op[d] \in {"reading", "wrote"}, Read(d),
         UNCHANGED <<request, phase, open, replies, ends>>
  PROVE  IInv'
<1> DEFINE data == IF From(d) \in open /\ peer[From(d)] # "none"
                   THEN wire[d] ELSE <<>>
           over == From(d) \notin open \/ ~Sending(From(d))
<1>1. /\ op' = [op EXCEPT ![d] = IF data # <<>> THEN "read"
                                 ELSE IF over THEN "eof" ELSE "reading"]
      /\ buf' = [buf EXCEPT ![d] = data]
      /\ wire' = [wire EXCEPT ![d] = IF data # <<>> THEN <<>> ELSE @]
      /\ kern' = kern
  BY DEF Read
<1>2. /\ op \in [Dirs -> Ops] /\ DirTypes(d) /\ Shapes /\ buf[d] = <<>>
  BY TypesByDirection DEF IInv, FlatTypes, DirTypes
<1>3. phase = "relay" \/ (phase = "ended" /\ open = {})
  BY Relaying
<1>4. open # {} => open = Sides
  BY <1>3 DEF IInv, Answers
<1>5. From(d) \in Sides
  BY DEF From, Sides
<1>6. open # {} => (peer[From(d)] = "none" => wire[d] = <<>>)
  BY DEF IInv, Ends
<1>7. open # {} => data = wire[d]
  BY <1>4, <1>5, <1>6
<1>8. open = {} => data = <<>>
  OBVIOUS
<1>9. data \in {wire[d], <<>>}
  OBVIOUS
<1> HIDE DEF data, over
<1>10. /\ op'[d] = IF data # <<>> THEN "read" ELSE IF over THEN "eof" ELSE "reading"
       /\ buf'[d] = data /\ wire'[d] = IF data # <<>> THEN <<>> ELSE wire[d]
       /\ kern'[d] = kern[d] /\ got'[d] = got[d] /\ sent'[d] = sent[d]
  BY <1>1, <1>2 DEF Shapes, ends
<1>11. Shapes' /\ op' \in [Dirs -> Ops]
  BY <1>1, <1>2, <1>9 DEF Shapes, Ops, ends
<1>12. DirTypes(d)'
  BY <1>2, <1>9, <1>10 DEF DirTypes, Units, ends
<1>13. ASSUME NEW z \in {0, 1}, Stream(d, z)
       PROVE  Stream(d, z)'
  <2>1. CASE open = {}
    BY <2>1, <1>10, <1>13 DEF Stream
  <2>2. CASE open # {}
    <3>1. Whole(d)
      BY DEF Whole
    <3>2. Len(buf[d]) = 0
      BY <1>2
    <3>3. /\ Run(wire[d], sent[d] + z - Len(wire[d]), z)
          /\ Len(got[d]) + Len(kern[d]) + Len(buf[d]) + Len(wire[d]) = sent[d] + z
      BY <2>2, <3>1, <1>13 DEF Stream
    <3>4. sent[d] + z - Len(wire[d]) = Len(got[d]) + Len(kern[d])
      BY <3>2, <3>3, SequenceTypes
    <3>5. /\ Run(wire[d], Len(got[d]) + Len(kern[d]), z)
          /\ Len(got[d]) + Len(kern[d]) + Len(wire[d]) = sent[d] + z
      BY <3>2, <3>3, <3>4, SequenceTypes
    <3>6. buf'[d] = wire[d] /\ wire'[d] = <<>>
      BY <2>2, <1>7, <1>10
    <3>7. Run(wire'[d], sent[d] + z - Len(wire'[d]), z)
      BY <3>6 DEF Run
    <3>8. Len(wire'[d]) = 0
      BY <3>6
    <3>9. /\ Len(got[d]) + Len(kern[d]) + Len(wire[d]) + Len(wire'[d]) = sent[d] + z
          /\ Len(got[d]) + Len(kern[d]) + Len(wire[d]) + Len(wire'[d]) <= sent[d] + z
      BY <3>5, <3>8, SequenceTypes
    <3>10. /\ Run(got'[d], 0, z) /\ Run(kern'[d], Len(got'[d]), z)
           /\ Len(got'[d]) + Len(kern'[d]) <= sent'[d] + z
      BY <1>10, <1>13 DEF Stream
    <3>11. /\ Len(got'[d]) + Len(kern'[d]) + Len(buf'[d]) + Len(wire'[d]) = sent'[d] + z
           /\ Len(got'[d]) + Len(kern'[d]) + Len(buf'[d]) + Len(wire'[d]) <= sent'[d] + z
      BY <1>10, <3>6, <3>9
    <3>12. /\ Run(buf'[d], Len(got'[d]) + Len(kern'[d]), z)
           /\ Run(wire'[d], sent'[d] + z - Len(wire'[d]), z)
      BY <1>10, <3>5, <3>6, <3>7
    <3>13. QED
      BY <3>10, <3>11, <3>12 DEF Stream
  <2>3. QED
    BY <2>1, <2>2
<1>14. arrived # "whole" /\ d = "up" =>
          buf'[d] = <<>> /\ wire'[d] = <<>> /\ kern'[d] = <<>> /\ got'[d] = <<>>
  BY <1>9, <1>10 DEF IInv, InPart
<1>15. op'[d] \notin {"none", "failed"}
  BY <1>10
<1>16. open # {} => /\ peer[From(d)] = "none" => wire'[d] = <<>>
                    /\ op'[d] = "eof" =>
                        ~Sending(From(d)) /\ wire'[d] = <<>> /\ buf'[d] = <<>>
  BY <1>4, <1>5, <1>6, <1>7, <1>10 DEF over
<1>17. QED
  BY <1>1, <1>11, <1>12, <1>13, <1>14, <1>15, <1>16, OneDirection DEF ends

(* What moves from the buffer to the receiver stays where it was in the
   stream. *)
LEMMA Passed ==
  ASSUME NEW k \in Seq(Nat), NEW b \in Seq(Nat), NEW g \in Nat, NEW z \in {0, 1},
         NEW n \in 0 .. Len(b), Run(k, g, z), Run(b, g + Len(k), z)
  PROVE  LET p == k \o SubSeq(b, 1, n)
             q == SubSeq(b, n + 1, Len(b))
         IN  /\ p \in Seq(Nat) /\ q \in Seq(Nat)
             /\ Len(p) = Len(k) + n /\ Len(q) = Len(b) - n
             /\ Run(p, g, z) /\ Run(q, g + Len(p), z)
<1> DEFINE h == SubSeq(b, 1, n)
           q == SubSeq(b, n + 1, Len(b))
           p == k \o h
<1>1. /\ h \in Seq(Nat) /\ q \in Seq(Nat) /\ Len(h) = n /\ Len(q) = Len(b) - n
      /\ Run(h, g + Len(k), z) /\ Run(q, g + Len(k) + n, z)
  BY RunParts
<1> HIDE DEF h, q
<1>2. p \in Seq(Nat) /\ Len(p) = Len(k) + n
  BY <1>1, ConcatProperties
<1>3. Run(p, g, z)
  BY <1>1, RunConcat
<1>4. g + Len(p) = g + Len(k) + n
  BY <1>2
<1>5. QED
  BY <1>1, <1>2, <1>3, <1>4 DEF h, q

\* p and q are a run where k and b were one.
KeepsRun(k, b, p, q) ==
    \A g \in Nat, z \in {0, 1} :
        Run(k, g, z) /\ Run(b, g + Len(k), z) => Run(p, g, z) /\ Run(q, g + Len(p), z)

(* A write that takes from the buffer what it adds to the network's. *)
LEMMA Moves ==
  ASSUME IInv, NEW d \in Dirs, op[d] \in {"read", "writing"},
         NEW p \in Seq({0} \cup Units(d)), NEW q \in Seq({0} \cup Units(d)),
         Len(p) <= Cap, Len(q) <= Cap, Len(p) + Len(q) = Len(kern[d]) + Len(buf[d]),
         KeepsRun(kern[d], buf[d], p, q),
         To(d) \in open, peer[To(d)] # "none",
         kern' = [kern EXCEPT ![d] = p], buf' = [buf EXCEPT ![d] = q],
         op' = [op EXCEPT ![d] = IF q = <<>> THEN "wrote" ELSE "writing"],
         wire' = wire, UNCHANGED <<request, phase, open, replies, ends>>
  PROVE  IInv'
<1>1. open # {} /\ phase = "relay" /\ Whole(d)
  BY Relaying DEF Whole
<1>2. /\ op'[d] = IF q = <<>> THEN "wrote" ELSE "writing"
      /\ buf'[d] = q /\ kern'[d] = p
      /\ wire'[d] = wire[d] /\ got'[d] = got[d] /\ sent'[d] = sent[d]
  BY SequenceTypes DEF ends
<1>3. DirTypes(d) /\ Len(p) \in Nat /\ Len(q) \in Nat
  BY TypesByDirection DEF IInv
<1>4. DirTypes(d)'
  BY <1>2, <1>3 DEF DirTypes, Units, ends
<1>5. Shapes' /\ op' \in [Dirs -> Ops]
  <2>1. {0} \cup Units(d) \subseteq Nat
    BY SequenceTypes DEF Units
  <2>2. p \in Seq(Nat) /\ q \in Seq(Nat)
    BY <2>1, SeqMonotonic
  <2>3. QED
    BY <2>2, SequenceTypes DEF Shapes, ends, Ops
<1>6. ASSUME NEW z \in {0, 1}, Stream(d, z)
      PROVE  Stream(d, z)'
  <2>1. /\ Run(got[d], 0, z) /\ Run(kern[d], Len(got[d]), z)
        /\ Run(buf[d], Len(got[d]) + Len(kern[d]), z)
        /\ Run(wire[d], sent[d] + z - Len(wire[d]), z)
        /\ Len(got[d]) + Len(kern[d]) + Len(buf[d]) + Len(wire[d]) = sent[d] + z
    BY <1>1, <1>6 DEF Stream
  <2>2. Len(got[d]) \in Nat
    BY SequenceTypes
  <2>3. Run(p, Len(got[d]), z) /\ Run(q, Len(got[d]) + Len(p), z)
    BY <2>1, <2>2 DEF KeepsRun
  <2>4. /\ Len(got[d]) + Len(p) <= sent[d] + z
        /\ Len(got[d]) + Len(p) + Len(q) + Len(wire[d]) <= sent[d] + z
        /\ Len(got[d]) + Len(p) + Len(q) + Len(wire[d]) = sent[d] + z
    <3> DEFINE g == Len(got[d])
               k == Len(kern[d])
               b == Len(buf[d])
               w == Len(wire[d])
               t == sent[d] + z
               x == Len(p)
               y == Len(q)
    <3>1. /\ g \in Nat /\ k \in Nat /\ b \in Nat /\ w \in Nat /\ t \in Int
      BY SequenceTypes
    <3>2. x \in Nat /\ y \in Nat /\ x + y = k + b /\ g + k + b + w = t
      BY <1>3, <2>1
    <3> HIDE DEF g, k, b, w, t, x, y
    <3>3. g + x <= t /\ g + x + y + w <= t /\ g + x + y + w = t
      BY <3>1, <3>2
    <3>4. QED
      BY <3>3 DEF g, k, b, w, t, x, y
  <2>5. QED
    BY <1>2, <2>1, <2>3, <2>4 DEF Stream
<1>7. arrived # "whole" /\ d = "up" =>
          buf'[d] = <<>> /\ wire'[d] = <<>> /\ kern'[d] = <<>> /\ got'[d] = <<>>
  <2>1. arrived # "whole" /\ d = "up" =>
          /\ buf[d] = <<>> /\ wire[d] = <<>> /\ kern[d] = <<>> /\ got[d] = <<>>
    BY DEF IInv, InPart
  <2>2. Len(p) + Len(q) = 0 => p = <<>> /\ q = <<>>
    BY <1>3, EmptySeq
  <2>3. kern[d] = <<>> /\ buf[d] = <<>> => Len(kern[d]) + Len(buf[d]) = 0
    OBVIOUS
  <2>4. kern[d] = <<>> /\ buf[d] = <<>> => p = <<>> /\ q = <<>>
    BY <2>2, <2>3
  <2>5. QED
    BY <1>2, <2>1, <2>4
<1>8. op'[d] \notin {"none", "failed", "eof"}
  BY <1>2
<1>9. peer[From(d)] = "none" => wire'[d] = <<>>
  BY <1>1, <1>2 DEF IInv, Ends
<1>10. QED
  BY <1>2, <1>4, <1>5, <1>6, <1>7, <1>8, <1>9, OneDirection, SequenceTypes DEF ends

(* async_write passes on what fits. *)
LEMMA Passes ==
  ASSUME IInv, NEW d \in Dirs, NEW n,
         n = IF Room(d) < Len(buf[d]) THEN Room(d) ELSE Len(buf[d])
  PROVE  LET p == kern[d] \o SubSeq(buf[d], 1, n)
             q == SubSeq(buf[d], n + 1, Len(buf[d]))
         IN  /\ p \in Seq({0} \cup Units(d)) /\ q \in Seq({0} \cup Units(d))
             /\ Len(p) <= Cap /\ Len(q) <= Cap
             /\ Len(p) + Len(q) = Len(kern[d]) + Len(buf[d])
             /\ q = <<>> <=> n = Len(buf[d])
             /\ KeepsRun(kern[d], buf[d], p, q)
<1>1. /\ kern[d] \in Seq({0} \cup Units(d)) /\ Len(kern[d]) <= Cap
      /\ buf[d] \in Seq({0} \cup Units(d)) /\ Len(buf[d]) <= Cap
  BY TypesByDirection DEF IInv, DirTypes
<1>2. kern[d] \in Seq(Nat) /\ buf[d] \in Seq(Nat)
  BY SequenceTypes
<1>3. Len(kern[d]) \in Nat /\ Len(buf[d]) \in Nat
  BY <1>2
<1>4. n \in 0 .. Len(buf[d]) /\ Len(kern[d]) + n <= Cap
  BY <1>1, <1>3, SocksAssumption DEF Room
<1> DEFINE h == SubSeq(buf[d], 1, n)
           q == SubSeq(buf[d], n + 1, Len(buf[d]))
           p == kern[d] \o h
<1>5. /\ h \in Seq({0} \cup Units(d)) /\ q \in Seq({0} \cup Units(d))
      /\ Len(h) = n /\ Len(q) = Len(buf[d]) - n
  BY <1>1, <1>4, PartsOf
<1>6. KeepsRun(kern[d], buf[d], p, q)
  <2>1. ASSUME NEW g \in Nat, NEW z \in {0, 1},
               Run(kern[d], g, z), Run(buf[d], g + Len(kern[d]), z)
        PROVE  Run(p, g, z) /\ Run(q, g + Len(p), z)
    <3> DEFINE k == kern[d]
               b == buf[d]
    <3>1. k \in Seq(Nat) /\ b \in Seq(Nat) /\ n \in 0 .. Len(b)
          /\ Run(k, g, z) /\ Run(b, g + Len(k), z)
      BY <1>2, <1>4, <2>1
    <3> HIDE DEF k, b
    <3>2. LET u == k \o SubSeq(b, 1, n)
              v == SubSeq(b, n + 1, Len(b))
          IN  Run(u, g, z) /\ Run(v, g + Len(u), z)
      BY <3>1, Passed
    <3>3. QED
      BY <3>2 DEF k, b
  <2>2. QED
    BY <2>1 DEF KeepsRun
<1> HIDE DEF h, q
<1>7. p \in Seq({0} \cup Units(d)) /\ Len(p) = Len(kern[d]) + Len(h)
  BY <1>1, <1>5, ConcatProperties
<1> HIDE DEF p
<1>8. Len(p) = Len(kern[d]) + n /\ Len(q) = Len(buf[d]) - n
  BY <1>5, <1>7
<1>9. Len(q) = 0 <=> q = <<>>
  BY <1>5, EmptySeq
<1>10. /\ Len(p) <= Cap /\ Len(q) <= Cap
       /\ Len(p) + Len(q) = Len(kern[d]) + Len(buf[d])
       /\ Len(q) = 0 <=> n = Len(buf[d])
  <2> DEFINE k == Len(kern[d])
             b == Len(buf[d])
             x == Len(p)
             y == Len(q)
  <2>1. /\ k \in Nat /\ b \in Nat /\ x = k + n /\ y = b - n /\ n \in 0 .. b
        /\ k + n <= Cap /\ b <= Cap
    BY <1>1, <1>3, <1>4, <1>8
  <2> HIDE DEF k, b, x, y
  <2>2. x <= Cap /\ y <= Cap /\ x + y = k + b /\ (y = 0 <=> n = b)
    BY <2>1, SocksAssumption
  <2>3. QED
    BY <2>2 DEF k, b, x, y
<1>11. QED
  BY <1>5, <1>6, <1>7, <1>9, <1>10 DEF p, q, h

LEMMA WriteStep ==
  ASSUME IInv, NEW d \in Dirs, op[d] \in {"read", "writing"}, Write(d, buf[d]),
         UNCHANGED <<request, phase, open, replies, ends>>
  PROVE  IInv'
<1> DEFINE n == IF Room(d) < Len(buf[d]) THEN Room(d) ELSE Len(buf[d])
           p == kern[d] \o SubSeq(buf[d], 1, n)
           q == SubSeq(buf[d], n + 1, Len(buf[d]))
<1>1. CASE /\ To(d) \in open /\ peer[To(d)] # "none"
           /\ kern' = [kern EXCEPT ![d] = @ \o SubSeq(buf[d], 1, n)]
           /\ buf' = [buf EXCEPT ![d] = q]
           /\ op' = [op EXCEPT ![d] = IF n = Len(buf[d]) THEN "wrote"
                                      ELSE "writing"]
           /\ wire' = wire
  <2>1. kern' = [kern EXCEPT ![d] = p]
    BY <1>1, SequenceTypes
  <2>2. /\ p \in Seq({0} \cup Units(d)) /\ q \in Seq({0} \cup Units(d))
        /\ Len(p) <= Cap /\ Len(q) <= Cap
        /\ Len(p) + Len(q) = Len(kern[d]) + Len(buf[d])
        /\ q = <<>> <=> n = Len(buf[d])
        /\ KeepsRun(kern[d], buf[d], p, q)
    BY Passes
  <2> HIDE DEF n, p, q
  <2>3. op' = [op EXCEPT ![d] = IF q = <<>> THEN "wrote" ELSE "writing"]
    BY <1>1, <2>2
  <2>4. /\ To(d) \in open /\ peer[To(d)] # "none" /\ wire' = wire
        /\ buf' = [buf EXCEPT ![d] = q]
    BY <1>1
  <2>5. UNCHANGED <<request, phase, open, replies, ends>>
    OBVIOUS
  <2>6. QED
    BY <2>1, <2>2, <2>3, <2>4, <2>5, Moves
<1>2. CASE /\ To(d) \notin open \/ peer[To(d)] \in {"none", "gone"}
           /\ op' = [op EXCEPT ![d] = "failed"]
           /\ buf' = [buf EXCEPT ![d] = <<>>]
           /\ kern' = kern /\ wire' = wire
  <2>1. /\ op'[d] = "failed" /\ buf'[d] = <<>> /\ kern'[d] = kern[d]
        /\ wire'[d] = wire[d] /\ got'[d] = got[d] /\ sent'[d] = sent[d]
    BY <1>2, SequenceTypes DEF ends
  <2>2. DirTypes(d)'
    <3>1. DirTypes(d)
      BY TypesByDirection DEF IInv
    <3>2. QED
      BY <2>1, <3>1, SocksAssumption DEF DirTypes, Units
  <2>3. Shapes' /\ op' \in [Dirs -> Ops]
    BY <1>2, SequenceTypes DEF Shapes, ends, Ops
  <2>4. phase = "relay" \/ (phase = "ended" /\ open = {})
    BY Relaying
  <2>5. ASSUME NEW z \in {0, 1}, Stream(d, z)
        PROVE  Stream(d, z)'
    <3>1. CASE open = {}
      BY <2>1, <2>5, <3>1 DEF Stream, ends
    <3>2. CASE open # {}
      <4>1. ~Whole(d)'
        BY <2>1, <2>4, <3>2 DEF Whole
      <4>2. Run(buf'[d], Len(got'[d]) + Len(kern'[d]), z)
        BY <2>1 DEF Run
      <4>3. Len(got[d]) + Len(kern[d]) + Len(buf[d]) + Len(wire[d]) <= sent[d] + z
        BY <2>5, <3>2 DEF Stream
      <4>4. Len(got[d]) + Len(kern[d]) + 0 + Len(wire[d]) <= sent[d] + z
        BY <4>3, SequenceTypes
      <4>5. Len(buf'[d]) = 0
        BY <2>1
      <4>6. QED
        BY <2>1, <2>5, <3>2, <4>1, <4>2, <4>4, <4>5 DEF Stream, ends
    <3>3. QED
      BY <3>1, <3>2
  <2>6. arrived # "whole" /\ d = "up" =>
          buf'[d] = <<>> /\ wire'[d] = <<>> /\ kern'[d] = <<>> /\ got'[d] = <<>>
    BY <2>1 DEF IInv, InPart
  <2>7. open # {} => peer[To(d)] \in {"none", "gone"}
    BY <1>2, <2>4 DEF IInv, Answers, To, Sides
  <2>8. open # {} /\ peer[From(d)] = "none" => wire'[d] = <<>>
    BY <2>1 DEF IInv, Ends
  <2>9. QED
    BY <1>2, <2>1, <2>2, <2>3, <2>5, <2>6, <2>7, <2>8, OneDirection, SequenceTypes
    DEF ends
<1>3. QED
  BY <1>1, <1>2 DEF Write

(* Closing both sockets takes from the ends of what was on its way only. *)
LEMMA CloseStep ==
  ASSUME IInv, CloseBoth, UNCHANGED <<request, replies, ends>>,
         phase' = "ended" \/ (phase' = phase /\ phase \in {"relay", "ended"}),
         op' \in [Dirs -> Ops], \A d \in Dirs : op[d] = "read" => op'[d] = "read"
  PROVE  IInv'
<1>1. PICK k \in [Dirs -> 0 .. Cap] :
        /\ \A d \in Dirs : k[d] \in 0 .. Len(kern[d])
        /\ kern' = [d \in Dirs |-> SubSeq(kern[d], 1, k[d])]
  <2>1. PICK k \in [Dirs -> 0 .. Cap] :
          /\ \A d \in Dirs : \/ k[d] = Len(kern[d])
                             \/ k[d] < Len(kern[d]) /\ wire[Back(d)] # <<>>
          /\ kern' = [d \in Dirs |-> SubSeq(kern[d], 1, k[d])]
    BY DEF CloseBoth
  <2>2. \A d \in Dirs : k[d] \in 0 .. Len(kern[d])
    BY <2>1, SequenceTypes
  <2>3. QED
    BY <2>1, <2>2
<1>2. /\ open' = {} /\ wire' = [d \in Dirs |-> <<>>]
      /\ buf' = [d \in Dirs |-> IF op[d] = "writing" THEN <<>> ELSE buf[d]]
  BY DEF CloseBoth
<1>3. ASSUME NEW d \in Dirs
      PROVE  /\ DirTypes(d)' /\ kern'[d] \in Seq(Nat) /\ buf'[d] \in Seq(Nat)
             /\ \A z \in {0, 1} : Stream(d, z) => Stream(d, z)'
             /\ kern[d] = <<>> => kern'[d] = <<>>
             /\ buf[d] = <<>> => buf'[d] = <<>>
  <2>1. kern[d] \in Seq(Nat) /\ k[d] \in 0 .. Len(kern[d]) /\ Len(kern[d]) <= Cap
        /\ kern[d] \in Seq({0} \cup Units(d))
    BY <1>1, <1>3, SequenceTypes, TypesByDirection DEF IInv, DirTypes
  <2> DEFINE p == SubSeq(kern[d], 1, k[d])
  <2>2. kern'[d] = p
    BY <1>1
  <2>3. /\ p \in Seq({0} \cup Units(d)) /\ Len(p) = k[d] /\ p \in Seq(Nat)
    BY <2>1, PartsOf
  <2>4. \A g \in Int, z \in {0, 1} : Run(kern[d], g, z) => Run(p, g, z)
    BY <2>1, RunParts
  <2> HIDE DEF p
  <2>5. DirTypes(d)'
    <3>1. Len(p) <= Cap
      BY <2>1, <2>3, SocksAssumption
    <3>2. DirTypes(d) /\ buf'[d] \in {buf[d], <<>>} /\ wire'[d] = <<>>
          /\ (buf'[d] # <<>> => op'[d] \in {"read", "writing"}) /\ Len(wire'[d]) = 0
      BY <1>2, TypesByDirection DEF IInv, DirTypes
    <3>3. got'[d] \in Seq({0} \cup Units(d))
      BY <3>2 DEF DirTypes, ends
    <3>4. wire'[d] \in Seq({0} \cup Units(d)) /\ Len(wire'[d]) <= Cap
      BY <3>2, SocksAssumption
    <3>5. buf[d] \in Seq({0} \cup Units(d)) /\ Len(buf[d]) <= Cap
      BY <3>2 DEF DirTypes
    <3>6. buf'[d] \in Seq({0} \cup Units(d)) /\ Len(buf'[d]) <= Cap
      <4>1. <<>> \in Seq({0} \cup Units(d)) /\ Len(<<>>) <= Cap
        BY SocksAssumption
      <4>2. buf'[d] = buf[d] \/ buf'[d] = <<>>
        BY <3>2
      <4>3. QED
        BY <3>5, <4>1, <4>2
    <3>7. Units(d)' = Units(d)
      BY DEF Units, ends
    <3>8. QED
      BY <2>2, <2>3, <3>1, <3>2, <3>3, <3>4, <3>6, <3>7 DEF DirTypes
  <2>6. ASSUME NEW z \in {0, 1}, Stream(d, z)
        PROVE  Stream(d, z)'
    <3>1. /\ Run(got[d], 0, z) /\ Run(kern[d], Len(got[d]), z)
          /\ Len(got[d]) + Len(kern[d]) <= sent[d] + z
      BY <2>6 DEF Stream
    <3>2. Run(p, Len(got[d]), z)
      BY <2>4, <3>1, SequenceTypes
    <3> DEFINE a == Len(got[d])
               b == Len(kern[d])
               x == Len(p)
               t == sent[d] + z
    <3>3. a \in Nat /\ b \in Nat /\ t \in Int
      BY SequenceTypes
    <3>4. x \in 0 .. b /\ a + b <= t
      BY <2>1, <2>3, <3>1
    <3> HIDE DEF a, b, x, t
    <3>5. a + x <= t
      BY <3>3, <3>4
    <3>6. QED
      BY <1>2, <2>2, <3>1, <3>2, <3>5 DEF Stream, ends, a, x, t
  <2>7. kern[d] = <<>> => p = <<>>
    BY <2>1, <2>3, EmptySeq
  <2>8. buf'[d] \in Seq(Nat) /\ (buf[d] = <<>> => buf'[d] = <<>>)
    BY <1>2, SequenceTypes
  <2>9. QED
    BY <2>2, <2>3, <2>5, <2>6, <2>7, <2>8
<1>4. TypeOK'
  <2>1. FlatTypes'
    BY <1>2, TypesByDirection DEF IInv, FlatTypes, request, ends, Phases
  <2>2. QED
    BY <1>3, <2>1 DEF TypeOK, FlatTypes, DirTypes
<1>5. Shapes'
  BY <1>1, <1>2, <1>3, SequenceTypes DEF Shapes, ends
<1>6. Streams'
  BY <1>3 DEF IInv, Streams
<1>7. Starting' /\ Answers'
  BY <1>2 DEF IInv, Starting, Answers, Granted, request
<1>8. InPart'
  BY <1>2, <1>3 DEF IInv, InPart, request, ends, Dirs
<1>9. Ends' /\ AskRecord'
  BY <1>2 DEF IInv, Ends, AskRecord, request
<1>10. QED
  BY <1>4, <1>5, <1>6, <1>7, <1>8, <1>9 DEF IInv

\* The replies of a session that relays: one for CONNECT, two for BIND; those
\* of one that does not relay yet; and the one of a bound session.
GrantReplies == {<<90>>, <<90, 90>>}
EarlyReplies == {<<>>, <<90>>, <<91>>}
BoundReplied == replies = <<90>> /\ ask.cd = 2

(* The relay takes the rest of a request that is there for data. *)
LEMMA StartStep ==
  ASSUME IInv, phase \in {"offered", "bound"}, StartRelay, open' = Sides,
         NEW r \in {"open", "none"}, peer' = [peer EXCEPT !["dst"] = r],
         Granted', replies' \in GrantReplies,
         ask'.cd \in {1, 2}, AskRecord', UNCHANGED <<conf, arrived, kern, sent, got>>
  PROVE  IInv'
<1>1. /\ peer["dst"] = "none" /\ wire["down"] = <<>>
      /\ \A d \in Dirs : /\ op[d] = "none" /\ sent[d] = 0
                         /\ got[d] = <<>> /\ kern[d] = <<>> /\ buf[d] = <<>>
      /\ open # {} /\ \A d \in Dirs : Whole(d)
  BY DEF IInv, Starting, Whole
<1>2. /\ phase' = "relay" /\ buf' = wire /\ wire' = [d \in Dirs |-> <<>>]
      /\ op' = [d \in Dirs |-> IF wire[d] # <<>> THEN "read"
                               ELSE IF peer'[From(d)] = "open" THEN "reading"
                               ELSE "eof"]
  BY DEF StartRelay
<1>3. peer' \in [Sides -> {"none", "open", "half", "gone"}]
  BY DEF IInv, TypeOK
<1>4. TypeOK'
  <2>1. FlatTypes'
    BY <1>2, <1>3, TypesByDirection DEF IInv, FlatTypes, Phases, Ops, GrantReplies
  <2>2. ASSUME NEW d \in Dirs
        PROVE  DirTypes(d)'
    <3>1. /\ buf'[d] = wire[d] /\ wire'[d] = <<>> /\ kern'[d] = kern[d]
          /\ (buf'[d] # <<>> => op'[d] = "read") /\ Len(wire'[d]) = 0
      BY <1>2
    <3>2. QED
      BY <3>1, TypesByDirection, SocksAssumption DEF IInv, DirTypes, Units
  <2>3. QED
    BY <2>1, <2>2 DEF TypeOK, FlatTypes, DirTypes
<1>5. Shapes'
  BY <1>2, SequenceTypes DEF Shapes
<1>6. ASSUME NEW d \in Dirs, NEW z \in {0, 1}, Stream(d, z)
      PROVE  Stream(d, z)'
  <2>1. /\ Run(wire[d], sent[d] + z - Len(wire[d]), z)
        /\ Len(got[d]) + Len(kern[d]) + Len(buf[d]) + Len(wire[d]) = sent[d] + z
    BY <1>1, <1>6 DEF Stream
  <2>2. Len(got[d]) = 0 /\ Len(kern[d]) = 0 /\ Len(buf[d]) = 0 /\ sent[d] = 0
    BY <1>1
  <2>3. Len(wire[d]) \in Nat
    BY SequenceTypes
  <2>4. Len(wire[d]) = z
    <3> DEFINE w == Len(wire[d])
    <3>1. 0 + 0 + 0 + w = 0 + z /\ w \in Nat
      BY <2>1, <2>2, <2>3
    <3> HIDE DEF w
    <3>2. w = z
      BY <3>1
    <3>3. QED
      BY <3>2 DEF w
  <2>5. /\ buf'[d] = wire[d] /\ wire'[d] = <<>> /\ kern'[d] = <<>> /\ got'[d] = <<>>
        /\ sent'[d] = 0 /\ Len(wire'[d]) = 0 /\ Len(kern'[d]) = 0 /\ Len(got'[d]) = 0
        /\ Len(buf'[d]) = z
    BY <1>1, <1>2, <2>4
  <2>6. Run(buf'[d], 0, z) /\ Run(wire'[d], z, z) /\ Run(kern'[d], 0, z)
        /\ Run(got'[d], 0, z)
    <3>1. sent[d] + z - Len(wire[d]) = 0
      BY <2>2, <2>4
    <3>2. Run(wire[d], 0, z)
      BY <2>1, <3>1
    <3>3. QED
      BY <2>5, <3>2 DEF Run
  <2>7. QED
    BY <2>5, <2>6 DEF Stream
<1>7. Streams'
  BY <1>6 DEF IInv, Streams
<1>8. Starting' /\ Answers'
  BY <1>2 DEF Starting, Answers
<1>9. InPart'
  BY <1>1, <1>2 DEF IInv, InPart, Dirs
<1>10. Ends'
  <2>1. ASSUME NEW d \in Dirs
        PROVE  /\ op'[d] \notin {"none", "failed"}
               /\ wire'[d] = <<>>
               /\ op'[d] = "eof" => peer'[From(d)] # "open" /\ buf'[d] = <<>>
    BY <1>2
  <2>2. QED
    BY <2>1 DEF Ends, Sending
<1>11. QED
  BY <1>4, <1>5, <1>7, <1>8, <1>9, <1>10 DEF IInv

-----------------------------------------------------------------------------
(* The other steps. *)

(* A step that leaves what is on its way alone, and the relays if there are
   any. *)
LEMMA RequestStep ==
  ASSUME IInv, UNCHANGED <<conf, relay, sent, got>>,
         phase \in {"offered", "waiting", "bound"},
         phase' \in {"offered", "waiting", "bound", "closing"}, open' = open,
         peer' = peer,
         ask'.cd \in {1, 2}, AskRecord', arrived' \in Range(Pieces),
         arrived' # "whole" => arrived # "whole",
         replies' \in EarlyReplies, ~Granted',
         phase' \in {"offered", "waiting"} => replies' = <<>>,
         phase' = "bound" => BoundReplied'
  PROVE  IInv'
<1>1. TypeOK' /\ Shapes'
  BY DEF IInv, TypeOK, Shapes, relay, Phases, Units, EarlyReplies
<1>2. Streams'
  <2>1. ASSUME NEW d \in Dirs, NEW z \in {0, 1}, Stream(d, z)
        PROVE  Stream(d, z)'
    BY <2>1 DEF Stream, Whole, relay
  <2>2. QED
    BY <2>1 DEF IInv, Streams
<1>3. Starting' /\ Answers' /\ InPart'
  BY DEF IInv, Starting, Answers, InPart, relay, BoundReplied
<1>4. Ends'
  BY DEF IInv, Ends, Sending, relay
<1>5. QED
  BY <1>1, <1>2, <1>3, <1>4 DEF IInv

LEMMA RequestArrivesStep ==
  ASSUME IInv, RequestArrives
  PROVE  IInv'
<1>1. PICK i \in DOMAIN Pieces, j \in DOMAIN Pieces :
        i < j /\ arrived = Pieces[i] /\ arrived' = Pieces[j]
  BY DEF RequestArrives
<1>2. arrived' \in Range(Pieces) /\ arrived # "whole"
  BY <1>1 DEF Pieces, Range
<1>3. replies = <<>> /\ ~Granted
  BY DEF RequestArrives, IInv, Answers, Starting
<1>4. QED
  BY <1>2, <1>3, RequestStep
  DEF RequestArrives, IInv, TypeOK, AskRecord, Granted, ends, relay,
      EarlyReplies, BoundReplied

(* More arrives in a direction: n, after all that was sent before. *)
LEMMA ArriveStep ==
  ASSUME IInv, NEW d \in Dirs, NEW n \in Nat, Sending(From(d)), From(d) \in open,
         Len(wire[d]) < Cap, wire' = [wire EXCEPT ![d] = Append(@, n)],
         UNCHANGED <<conf, ask, phase, open, replies, op, buf, kern, peer, got>>,
         arrived' \in Range(Pieces), sent' \in [Dirs -> 0 .. MaxSent],
         \A e \in Dirs \ {d} : sent'[e] = sent[e],
         arrived' # "whole" => d # "up" /\ arrived' = arrived,
         d = "down" => Granted,
         \/ sent'[d] = sent[d] + 1 /\ n = sent[d] + 1 /\ Granted
         \/ sent' = sent /\ n = 0 /\ arrived # "whole" /\ d = "up"
  PROVE  IInv'
<1>1. open # {}
  OBVIOUS
<1>2. phase \in {"relay", "ended"} => phase = "relay"
  BY DEF IInv, Answers
<1> DEFINE q == Append(wire[d], n)
<1>3. q \in Seq(Nat) /\ Len(q) = Len(wire[d]) + 1
  BY SequenceTypes, AppendProperties
<1>4. wire'[d] = q /\ \A e \in Dirs \ {d} : wire'[e] = wire[e]
  BY SequenceTypes
<1>5. sent[d] \in Nat /\ sent'[d] \in Nat
  BY SequenceTypes, SocksAssumption
<1>6. n \in {0} \cup Units(d)' /\ Units(d) \subseteq Units(d)'
  BY <1>5 DEF Units
<1>7. TypeOK'
  <2>1. FlatTypes'
    BY TypesByDirection DEF IInv, FlatTypes
  <2>2. ASSUME NEW e \in Dirs \ {d}
        PROVE  DirTypes(e)'
    BY <1>4, TypesByDirection DEF IInv, DirTypes, Units
  <2>3. DirTypes(d)'
    <3> DEFINE S == {0} \cup Units(d)'
    <3>1. wire[d] \in Seq({0} \cup Units(d)) /\ buf[d] \in Seq({0} \cup Units(d))
          /\ kern[d] \in Seq({0} \cup Units(d)) /\ got[d] \in Seq({0} \cup Units(d))
          /\ Len(buf[d]) <= Cap /\ Len(kern[d]) <= Cap
          /\ (buf[d] # <<>> => op[d] \in {"read", "writing"})
      BY TypesByDirection DEF IInv, DirTypes
    <3>2. {0} \cup Units(d) \subseteq S
      BY <1>6
    <3> HIDE DEF S
    <3>3. wire[d] \in Seq(S) /\ buf[d] \in Seq(S) /\ kern[d] \in Seq(S)
          /\ got[d] \in Seq(S)
      BY <3>1, <3>2, SeqMonotonic
    <3>4. n \in S
      BY <1>6 DEF S
    <3>5. q \in Seq(S)
      BY <3>3, <3>4, AppendProperties
    <3>6. Len(q) <= Cap
      BY <1>3, SequenceTypes, SocksAssumption
    <3>7. QED
      BY <1>4, <3>1, <3>3, <3>5, <3>6 DEF DirTypes, S
  <2>4. QED
    BY <2>1, <2>2, <2>3 DEF TypeOK, FlatTypes, DirTypes
<1>8. Shapes'
  BY <1>3, <1>4, SequenceTypes DEF Shapes
<1>9. Streams'
  <2>1. ASSUME NEW e \in Dirs \ {d}, NEW z \in {0, 1}, Stream(e, z)
        PROVE  Stream(e, z)'
    BY <1>4, <2>1 DEF Stream, Whole
  <2>2. PICK z \in {0, 1} : Stream(d, z)
    BY DEF IInv, Streams
  <2>3. ASSUME sent'[d] = sent[d] + 1, n = sent[d] + 1
        PROVE  \E y \in {0, 1} : Stream(d, y)'
    <3> DEFINE g == Len(got[d])
               k == Len(kern[d])
               b == Len(buf[d])
               w == Len(wire[d])
               t == sent[d]
    <3>1. g \in Nat /\ k \in Nat /\ b \in Nat /\ w \in Nat /\ t \in Nat
      BY SequenceTypes
    <3>2. /\ Run(got[d], 0, z) /\ Run(kern[d], g, z) /\ g + k <= t + z
          /\ Run(buf[d], g + k, z) /\ Run(wire[d], t + z - w, z)
          /\ g + k + b + w <= t + z /\ (Whole(d) => g + k + b + w = t + z)
      BY <1>1, <2>2 DEF Stream
    <3>3. Len(q) = w + 1 /\ q[w + 1] = t + 1 /\ \A i \in 1 .. w : q[i] = wire[d][i]
      BY <1>3, <2>3, SequenceTypes, AppendProperties
    <3>4. \A i \in 1 .. w : wire[d][i] + z = t + z - w + i
      BY <3>2 DEF Run
    <3> HIDE DEF g, k, b, w, t, q
    <3>5. \A i \in 1 .. w + 1 : q[i] + z = t + z - w + i
      <4>1. ASSUME NEW i \in 1 .. w
            PROVE  q[i] + z = t + z - w + i
        BY <3>3, <3>4
      <4>2. q[w + 1] + z = t + z - w + (w + 1)
        BY <3>1, <3>3
      <4>3. \A i \in 1 .. w + 1 : i \in 1 .. w \/ i = w + 1
        BY <3>1
      <4>4. QED
        BY <4>1, <4>2, <4>3
    <3>6. /\ g + k <= t + 1 + z /\ t + 1 + z - (w + 1) = t + z - w
          /\ g + k + b + (w + 1) <= t + 1 + z
          /\ (Whole(d) => g + k + b + (w + 1) = t + 1 + z)
      BY <3>1, <3>2
    <3>7. Run(q, t + 1 + z - Len(q), z)
      BY <3>3, <3>5, <3>6 DEF Run
    <3>8. Whole(d)' = Whole(d)
      BY DEF Whole
    <3>9. Stream(d, z)'
      BY <1>4, <2>3, <3>2, <3>3, <3>6, <3>7, <3>8 DEF Stream, g, k, b, w, t
    <3>10. QED
      BY <2>2, <3>9
  <2>4. ASSUME sent' = sent, n = 0, arrived # "whole", d = "up"
        PROVE  \E y \in {0, 1} : Stream(d, y)'
    <3>1. /\ sent'[d] = 0 /\ wire[d] = <<>>
          /\ buf[d] = <<>> /\ kern[d] = <<>> /\ got[d] = <<>>
      BY <2>4 DEF IInv, InPart
    <3>2. /\ wire'[d] = <<0>> /\ Len(wire'[d]) = 1
          /\ Len(buf[d]) = 0 /\ Len(kern[d]) = 0 /\ Len(got[d]) = 0
      BY <1>4, <2>4, <3>1
    <3>3. /\ Run(got[d], 0, 1) /\ Run(kern[d], 0, 1) /\ Run(buf[d], 0, 1)
      BY <3>2 DEF Run
    <3>4. wire'[d][1] = 0
      <4>1. <<0>>[1] = 0
        OBVIOUS
      <4>2. QED
        BY <3>2, <4>1
    <3>5. Run(wire'[d], 0, 1)
      BY <3>2, <3>4 DEF Run
    <3>6. /\ got'[d] = got[d] /\ kern'[d] = kern[d] /\ buf'[d] = buf[d]
          /\ 0 + 0 <= 0 + 1 /\ 0 + 0 + 0 + 1 = 0 + 1 /\ 0 + 0 + 0 + 1 <= 0 + 1
          /\ 0 + 1 - 1 = 0
      OBVIOUS
    <3>7. /\ Run(got'[d], 0, 1) /\ Run(kern'[d], Len(got'[d]), 1)
          /\ Run(buf'[d], Len(got'[d]) + Len(kern'[d]), 1)
          /\ Run(wire'[d], sent'[d] + 1 - Len(wire'[d]), 1)
      <4>1. Len(got'[d]) = 0 /\ 0 + 0 = 0 /\ Len(kern'[d]) = 0
        BY <3>2, <3>6
      <4>2. Len(got'[d]) + Len(kern'[d]) = 0 /\ sent'[d] + 1 - Len(wire'[d]) = 0
        BY <3>1, <3>2, <4>1
      <4>3. QED
        BY <3>3, <3>5, <3>6, <4>1, <4>2
    <3>8. /\ Len(got'[d]) + Len(kern'[d]) <= sent'[d] + 1
          /\ Len(got'[d]) + Len(kern'[d]) + Len(buf'[d]) + Len(wire'[d]) = sent'[d] + 1
          /\ Len(got'[d]) + Len(kern'[d]) + Len(buf'[d]) + Len(wire'[d]) <= sent'[d] + 1
      BY <3>1, <3>2, <3>6
    <3>9. Stream(d, 1)'
      BY <3>7, <3>8 DEF Stream
    <3>10. QED
      BY <3>9
  <2>5. \E y \in {0, 1} : Stream(d, y)'
    BY <2>3, <2>4
  <2>6. QED
    BY <2>1, <2>5 DEF IInv, Streams
<1>10. Starting' /\ Answers'
  BY <1>2, <1>4 DEF IInv, Starting, Answers, Granted, Dirs
<1>11. InPart'
  BY <1>4 DEF IInv, InPart, Dirs
<1>12. Ends'
  BY <1>4 DEF IInv, Ends, Sending
<1>13. AskRecord'
  BY DEF IInv, AskRecord
<1>14. QED
  BY <1>7, <1>8, <1>9, <1>10, <1>11, <1>12, <1>13 DEF IInv

LEMMA RestArrivesStep ==
  ASSUME IInv, RestArrives
  PROVE  IInv'
<1>1. arrived # "whole" /\ "whole" \in Range(Pieces)
  BY DEF RestArrives, Pieces, Range
<1>2. "up" \in Dirs /\ From("up") = "src"
  BY DEF Dirs, From
<1>3. sent \in [Dirs -> 0 .. MaxSent] /\ 0 \in Nat
  BY DEF IInv, TypeOK
<1>4. QED
  BY <1>1, <1>2, <1>3, ArriveStep DEF RestArrives, ends

LEMMA EmitStep ==
  ASSUME IInv, NEW d \in Dirs, Emit(d)
  PROVE  IInv'
<1>1. sent \in [Dirs -> 0 .. MaxSent] /\ sent[d] + 1 \in 0 .. MaxSent
      /\ sent[d] + 1 \in Nat
  BY SequenceTypes, SocksAssumption DEF IInv, TypeOK, Emit
<1>2. /\ sent' \in [Dirs -> 0 .. MaxSent] /\ sent'[d] = sent[d] + 1
      /\ \A e \in Dirs \ {d} : sent'[e] = sent[e]
  BY <1>1 DEF Emit
<1>3. arrived' = arrived /\ arrived \in Range(Pieces)
  BY DEF Emit, request, IInv, TypeOK
<1>4. QED
  BY <1>1, <1>2, <1>3, ArriveStep DEF Emit, request

(* The receiver takes what is first on its way. *)
LEMMA ConsumeStep ==
  ASSUME IInv, NEW d \in Dirs, Consume(d)
  PROVE  IInv'
<1> DEFINE k == kern[d]
           p == Append(got[d], Head(k))
           q == Tail(k)
<1>1. /\ k # <<>> /\ got' = [got EXCEPT ![d] = p] /\ kern' = [kern EXCEPT ![d] = q]
      /\ UNCHANGED <<request, phase, open, replies, op, buf, wire, peer, sent>>
  BY SequenceTypes DEF Consume
<1>2. got'[d] = p /\ kern'[d] = q
      /\ \A e \in Dirs \ {d} : got'[e] = got[e] /\ kern'[e] = kern[e]
  BY <1>1, SequenceTypes
<1>3. k \in Seq(Nat) /\ got[d] \in Seq(Nat)
  BY SequenceTypes
<1>4. /\ p \in Seq(Nat) /\ Len(p) = Len(got[d]) + 1
      /\ p[Len(got[d]) + 1] = k[1] /\ \A i \in 1 .. Len(got[d]) : p[i] = got[d][i]
      /\ q \in Seq(Nat) /\ Len(q) = Len(k) - 1
      /\ \A i \in 1 .. Len(q) : q[i] = k[i + 1]
  BY <1>1, <1>3, AppendProperties, HeadTailProperties
<1>5. DirTypes(d)'
  <2> DEFINE S == {0} \cup Units(d)
  <2>1. k \in Seq(S) /\ got[d] \in Seq(S) /\ buf[d] \in Seq(S) /\ wire[d] \in Seq(S)
        /\ Len(k) <= Cap /\ Len(buf[d]) <= Cap /\ Len(wire[d]) <= Cap
        /\ (buf[d] # <<>> => op[d] \in {"read", "writing"})
    BY TypesByDirection DEF IInv, DirTypes
  <2>2. S = ({0} \cup Units(d))'
    BY <1>1 DEF Units
  <2> HIDE DEF S
  <2>3. p \in Seq(S) /\ q \in Seq(S)
    BY <1>1, <2>1, AppendProperties, HeadTailProperties
  <2>4. Len(q) <= Cap
    BY <1>3, <1>4, <2>1, SocksAssumption
  <2> HIDE DEF p, q
  <2>5. QED
    BY <1>1, <1>2, <2>1, <2>2, <2>3, <2>4 DEF DirTypes
<1>6. TypeOK'
  <2>1. FlatTypes'
    BY <1>1, TypesByDirection DEF IInv, FlatTypes, request
  <2>2. \A e \in Dirs \ {d} : DirTypes(e)'
    BY <1>1, <1>2, TypesByDirection DEF IInv, DirTypes, Units
  <2>3. QED
    BY <1>5, <2>1, <2>2 DEF TypeOK, FlatTypes, DirTypes
<1>7. ASSUME NEW z \in {0, 1}, Stream(d, z)
      PROVE  Stream(d, z)'
  <2> DEFINE g == Len(got[d])
             l == Len(k)
  <2>1. g \in Nat /\ l \in Nat /\ l >= 1
    BY <1>1, <1>3, EmptySeq
  <2>2. Run(got[d], 0, z) /\ Run(k, g, z)
    BY <1>7 DEF Stream
  <2>3. \A i \in 1 .. g : got[d][i] + z = 0 + i
    BY <2>2 DEF Run
  <2>4. \A i \in 1 .. l : k[i] + z = g + i
    BY <2>2 DEF Run
  <2>5. Run(p, 0, z)
    <3>1. ASSUME NEW i \in 1 .. g
          PROVE  p[i] + z = 0 + i
      BY <1>4, <2>3
    <3>2. p[g + 1] + z = 0 + (g + 1)
      <4>1. k[1] + z = g + 1
        BY <2>1, <2>4
      <4>2. QED
        BY <1>4, <2>1, <4>1
    <3>3. \A i \in 1 .. g + 1 : i \in 1 .. g \/ i = g + 1
      BY <2>1
    <3>4. Len(p) = g + 1
      BY <1>4
    <3> HIDE DEF p, g
    <3>5. QED
      BY <3>1, <3>2, <3>3, <3>4 DEF Run
  <2>6. Run(q, Len(p), z)
    <3>1. Len(q) = l - 1 /\ Len(p) = g + 1 /\ \A i \in 1 .. Len(q) : q[i] = k[i + 1]
      BY <1>4
    <3> HIDE DEF p, q, k, g, l
    <3>2. ASSUME NEW i \in 1 .. l - 1
          PROVE  q[i] + z = g + 1 + i
      <4>1. i + 1 \in 1 .. l
        BY <2>1
      <4>2. k[i + 1] + z = g + (i + 1) /\ q[i] = k[i + 1]
        BY <2>4, <3>1, <4>1
      <4>3. g + (i + 1) = g + 1 + i
        BY <2>1
      <4>4. QED
        BY <4>2, <4>3
    <3>3. QED
      BY <3>1, <3>2 DEF Run
  <2>7. Len(p) + Len(q) = g + l
    <3>1. Len(q) = l - 1 /\ Len(p) = g + 1
      BY <1>4
    <3> HIDE DEF p, q, g, l
    <3>2. QED
      BY <2>1, <3>1
  <2> HIDE DEF p, q
  <2>8. QED
    BY <1>1, <1>2, <1>7, <2>5, <2>6, <2>7 DEF Stream, Whole
<1>8. Streams'
  <2>1. ASSUME NEW e \in Dirs \ {d}, NEW z \in {0, 1}, Stream(e, z)
        PROVE  Stream(e, z)'
    BY <1>1, <1>2, <2>1 DEF Stream, Whole
  <2>2. QED
    BY <1>7, <2>1 DEF IInv, Streams
<1>9. Shapes'
  BY <1>1, <1>4, SequenceTypes DEF Shapes
<1>10. d = "up" => arrived = "whole"
  BY <1>1 DEF IInv, InPart
<1>11. phase \notin {"offered", "waiting", "bound", "closing"}
  BY <1>1 DEF IInv, Starting
<1>12. Starting' /\ Answers' /\ InPart'
  BY <1>1, <1>2, <1>10, <1>11
  DEF IInv, Starting, Answers, InPart, Granted, request, Dirs
<1>13. Ends' /\ AskRecord'
  BY <1>1 DEF IInv, Ends, Sending, AskRecord, request
<1>14. QED
  BY <1>6, <1>8, <1>9, <1>12, <1>13 DEF IInv

LEMMA HangUpStep ==
  ASSUME IInv, NEW s \in Sides, HangUp(s)
  PROVE  IInv'
<1>1. /\ peer' \in [Sides -> {"none", "open", "half", "gone"}]
      /\ \A t \in Sides :
            /\ peer[t] = "none" <=> peer'[t] = "none"
            /\ peer[t] = "gone" => peer'[t] = "gone"
            /\ peer'[t] = "open" => peer[t] = "open"
  BY DEF HangUp, IInv, TypeOK
<1>2. \A d \in Dirs : From(d) \in Sides /\ To(d) \in Sides
  BY DEF From, To, Sides
<1>3. TypeOK' /\ Shapes'
  BY <1>1 DEF HangUp, IInv, TypeOK, Shapes, relay, request, Units
<1>4. Streams'
  <2>1. ASSUME NEW d \in Dirs, NEW z \in {0, 1}, Stream(d, z)
        PROVE  Stream(d, z)'
    BY <2>1 DEF HangUp, Stream, Whole, relay
  <2>2. QED
    BY <2>1 DEF IInv, Streams
<1>5. Starting' /\ Answers' /\ InPart' /\ AskRecord'
  BY <1>1 DEF HangUp, IInv, Starting, Answers, InPart, AskRecord, Granted, relay,
              request, Sides
<1>6. Ends'
  BY <1>1, <1>2 DEF HangUp, IInv, Ends, Sending, relay
<1>7. QED
  BY <1>3, <1>4, <1>5, <1>6 DEF IInv

LEMMA WriteFailedStep ==
  ASSUME IInv, NEW d \in Dirs, WriteFailed(d)
  PROVE  IInv'
<1>1. /\ op' \in [Dirs -> Ops] /\ op'[d] = "none" /\ op[d] = "failed"
      /\ \A e \in Dirs \ {d} : op'[e] = op[e]
      /\ UNCHANGED <<request, phase, open, replies, buf, wire, kern, ends>>
  BY SequenceTypes DEF WriteFailed, Ops
<1>2. TypeOK' /\ Shapes'
  BY <1>1 DEF IInv, TypeOK, Shapes, request, ends, Units
<1>3. Streams'
  <2>1. ASSUME NEW e \in Dirs, NEW z \in {0, 1}, Stream(e, z)
        PROVE  Stream(e, z)'
    <3>1. Whole(e)' => Whole(e)
      BY <1>1 DEF Whole
    <3>2. QED
      BY <1>1, <2>1, <3>1 DEF Stream, ends
  <2>2. QED
    BY <2>1 DEF IInv, Streams
<1>4. Starting' /\ Answers' /\ InPart' /\ AskRecord'
  BY <1>1 DEF IInv, Starting, Answers, InPart, AskRecord, Granted, ends, request
<1>5. Ends'
  BY <1>1 DEF IInv, Ends, Sending, ends
<1>6. QED
  BY <1>2, <1>3, <1>4, <1>5 DEF IInv

(* The sessions that end without a relay. *)
LEMMA NoSessionStep ==
  ASSUME IInv, ForkFails \/ RequestDropped \/ AcceptBoundFails
  PROVE  IInv'
<1>1. CASE RequestDropped \/ AcceptBoundFails
  <2>1. ~Granted'
    BY <1>1 DEF RequestDropped, AcceptBoundFails, Granted, request, IInv, Starting
  <2>2. replies \in {<<>>, <<90>>}
    BY <1>1 DEF RequestDropped, AcceptBoundFails, IInv, Answers
  <2>3. QED
    BY <1>1, <2>1, <2>2, RequestStep
    DEF RequestDropped, AcceptBoundFails, request, ends, IInv, TypeOK, AskRecord,
        EarlyReplies, BoundReplied
<1>2. CASE ForkFails
  <2>1. phase' = "ended" /\ open' = {} /\ UNCHANGED <<request, replies, relay, ends>>
    BY <1>2 DEF ForkFails
  <2>2. TypeOK' /\ Shapes'
    BY <2>1 DEF IInv, TypeOK, Shapes, request, relay, ends, Phases, Units
  <2>3. ASSUME NEW d \in Dirs, NEW z \in {0, 1}, Stream(d, z)
        PROVE  Stream(d, z)'
    BY <2>1, <2>3 DEF Stream, relay, ends
  <2>4. Streams'
    BY <2>3 DEF IInv, Streams
  <2>5. Starting' /\ Answers' /\ InPart' /\ AskRecord' /\ Ends'
    BY <2>1 DEF IInv, Starting, Answers, InPart, AskRecord, Ends, request, relay, ends
  <2>6. QED
    BY <2>2, <2>4, <2>5 DEF IInv
<1>3. QED
  BY <1>1, <1>2

LEMMA CloseSteps ==
  ASSUME IInv, SessionOver \/ \E d \in Dirs : ReadFailed(d)
  PROVE  IInv'
<1>1. CASE SessionOver
  <2>1. op' = op /\ op \in [Dirs -> Ops]
    BY <1>1, SequenceTypes DEF SessionOver
  <2>2. QED
    BY <1>1, <2>1, CloseStep DEF SessionOver
<1>2. ASSUME NEW d \in Dirs, ReadFailed(d)
      PROVE  IInv'
  <2>1. /\ op[d] = "eof" /\ CloseBoth /\ UNCHANGED <<request, phase, replies, ends>>
        /\ op' = [e \in Dirs |-> IF e = d THEN "none" ELSE Aborted[op[e]]]
    BY <1>2 DEF ReadFailed
  <2>2. phase \in {"relay", "ended"}
    BY <2>1, Relaying
  <2>3. \A o \in Ops : Aborted[o] \in Ops /\ Aborted["read"] = "read"
    BY DEF Aborted, Ops
  <2>4. op' \in [Dirs -> Ops]
    BY <2>1, <2>3, SequenceTypes DEF Ops
  <2>5. \A e \in Dirs : op[e] = "read" => op'[e] = "read"
    BY <2>1, <2>3, SequenceTypes
  <2>6. QED
    BY <2>1, <2>2, <2>4, <2>5, CloseStep
<1>3. QED
  BY <1>1, <1>2

(* The replies that grant a request of either command. *)
LEMMA Grant ==
  /\ [i \in 1 .. 1 |-> 90] = <<90>> /\ [i \in 1 .. 2 |-> 90] = <<90, 90>>
  /\ <<91>> # <<90>> /\ <<91>> # <<90, 90>> /\ <<90>> # <<90, 90>>
  /\ <<>> # <<90>> /\ <<>> # <<90, 90>>
OBVIOUS

LEMMA AcceptStep ==
  ASSUME IInv, Accept
  PROVE  IInv'
<1>1. /\ phase = "offered" /\ ReadS4 /\ UNCHANGED <<conf, arrived, kern, sent, got>>
      /\ replies = <<>> /\ ~Granted /\ arrived \in Range(Pieces)
      /\ ask.cd \in {1, 2} /\ AskRecord
  BY DEF Accept, IInv, Answers, Starting, TypeOK
<1>2. CASE /\ phase' \in {"waiting", "closing"}
           /\ UNCHANGED <<ask, open, replies, op, buf, wire, peer>>
  <2>1. ~Granted' /\ AskRecord'
    BY <1>1, <1>2 DEF Granted, AskRecord
  <2>2. QED
    BY <1>1, <1>2, <2>1, RequestStep DEF relay, EarlyReplies, BoundReplied
<1>3. ASSUME NEW a \in AsRead, ask' = a,
             \/ Reject
             \/ a.cd = 1 /\ ConnectTo
             \/ a.cd = 2 /\ Bind
      PROVE  IInv'
  <2>1. a.cd = ask.cd /\ a = [cd |-> a.cd, ip |-> a.ip]
    BY <1>1 DEF AsRead, CutAfter, AskRecord
  <2>2. ask'.cd \in {1, 2} /\ AskRecord'
    BY <1>1, <1>3, <2>1 DEF AskRecord
  <2>3. CASE Reject
    <3>1. replies' = <<91>> /\ phase' = "closing"
          /\ UNCHANGED <<open, op, buf, wire, peer>>
      BY <2>3 DEF Reject
    <3>2. ask'.cd = 1 \/ ask'.cd = 2
      BY <2>2
    <3>3. ~Granted'
      BY <3>1, <3>2, Grant DEF Granted
    <3>4. QED
      BY <1>1, <2>2, <3>1, <3>3, RequestStep DEF relay, EarlyReplies, BoundReplied
  <2>4. CASE a.cd = 1 /\ ConnectTo
    <3>1. PICK r \in {"open", "none"} : peer' = [peer EXCEPT !["dst"] = r]
      BY <2>4 DEF ConnectTo
    <3>2. open' = Sides /\ replies' = <<90>> /\ StartRelay
      BY <2>4 DEF ConnectTo
    <3>3. Granted'
      BY <1>3, <2>4, <3>2, Grant DEF Granted
    <3>4. QED
      BY <1>1, <2>2, <3>1, <3>2, <3>3, StartStep DEF GrantReplies
  <2>5. CASE a.cd = 2 /\ Bind
    <3>1. replies' = <<90>> /\ phase' = "bound"
          /\ UNCHANGED <<open, op, buf, wire, peer>>
      BY <2>5 DEF Bind
    <3>2. ~Granted'
      BY <1>3, <2>5, <3>1, Grant DEF Granted
    <3>3. QED
      BY <1>1, <1>3, <2>2, <2>5, <3>1, <3>2, RequestStep
        DEF relay, EarlyReplies, BoundReplied
  <2>6. QED
    BY <1>3, <2>3, <2>4, <2>5
<1>4. QED
  BY <1>1, <1>2, <1>3 DEF ReadS4

LEMMA AcceptBoundStep ==
  ASSUME IInv, AcceptBound
  PROVE  IInv'
<1>1. /\ phase = "bound" /\ replies = <<90>> /\ ask.cd = 2 /\ AskRecord
      /\ UNCHANGED <<request, kern, sent, got>> /\ open' = Sides /\ StartRelay
      /\ peer' = [peer EXCEPT !["dst"] = "open"] /\ replies' = Append(replies, 90)
  BY DEF AcceptBound, IInv, Answers
<1>2. replies' = <<90, 90>>
  <2> DEFINE a == Append(<<90>>, 90)
             b == <<90, 90>>
  <2>1. /\ a \in Seq(Nat) /\ b \in Seq(Nat) /\ Len(a) = 2 /\ Len(b) = 2
        /\ \A i \in 1 .. 2 : a[i] = 90 /\ b[i] = 90
    OBVIOUS
  <2> HIDE DEF a, b
  <2>2. Len(a) = Len(b) /\ \A i \in 1 .. Len(a) : a[i] = b[i]
    BY <2>1
  <2>3. a = b
    BY <2>1, <2>2, SeqEqual
  <2>4. QED
    BY <1>1, <2>3 DEF a, b
<1>3. UNCHANGED <<conf, ask, arrived>>
  BY <1>1 DEF request
<1>4. Granted' /\ AskRecord'
  BY <1>1, <1>2, <1>3, Grant DEF AskRecord, Granted
<1>5. QED
  BY <1>1, <1>2, <1>3, <1>4, StartStep DEF GrantReplies

LEMMA InitInvariant == Init => IInv
<1> SUFFICES ASSUME Init
             PROVE  IInv
  OBVIOUS
<1>1. TypeOK
  BY SocksAssumption DEF Init, TypeOK, Phases, Sides, Ops, Pieces, Range, Units
<1>2. Shapes
  BY DEF Init, Shapes
<1>3. ASSUME NEW d \in Dirs
      PROVE  Stream(d, 0)
  <2>1. got[d] = <<>> /\ kern[d] = <<>> /\ buf[d] = <<>> /\ wire[d] = <<>> /\ sent[d] = 0
    BY DEF Init
  <2>2. Run(<<>>, 0, 0)
    BY DEF Run
  <2>3. QED
    BY <2>1, <2>2 DEF Stream
<1>4. Streams
  BY <1>3 DEF Streams
<1>5. ~Granted
  BY Grant, SocksAssumption DEF Init, Granted
<1>6. Starting /\ Answers /\ InPart /\ Ends
  BY <1>5 DEF Init, Starting, Answers, InPart, Ends, Sides, Dirs
<1>7. AskRecord
  BY SocksAssumption DEF Init, AskRecord
<1>8. QED
  BY <1>1, <1>2, <1>4, <1>6, <1>7 DEF IInv

LEMMA NextInvariant ==
  ASSUME IInv, [Next]_vars
  PROVE  IInv'
<1>1. CASE UNCHANGED vars
  <2>1. UNCHANGED <<conf, ask, arrived, phase, open, replies, peer>>
        /\ UNCHANGED <<op, buf, wire, kern, sent, got>>
    BY <1>1 DEF vars, request, relay, ends
  <2>2. TypeOK' /\ Shapes'
    BY <2>1 DEF IInv, TypeOK, Shapes, Units
  <2>3. ASSUME NEW d \in Dirs, NEW z \in {0, 1}, Stream(d, z)
        PROVE  Stream(d, z)'
    BY <2>1, <2>3 DEF Stream, Whole, Run
  <2>4. Streams'
    BY <2>3 DEF IInv, Streams
  <2>5. Starting' /\ Answers' /\ InPart' /\ AskRecord'
    BY <2>1 DEF IInv, Starting, Answers, InPart, AskRecord, Granted
  <2>6. Ends'
    BY <2>1 DEF IInv, Ends, Sending
  <2>7. QED
    BY <2>2, <2>4, <2>5, <2>6 DEF IInv
<1>2. ASSUME NEW d \in Dirs, Receive(d) \/ WriteDone(d)
      PROVE  IInv'
  BY <1>2, ReadStep DEF Receive, WriteDone
<1>3. ASSUME NEW d \in Dirs, Transmit(d) \/ ReadDone(d)
      PROVE  IInv'
  BY <1>3, WriteStep DEF Transmit, ReadDone
<1>4. CASE Session
  BY <1>2, <1>3, <1>4, AcceptStep, NoSessionStep, CloseSteps, WriteFailedStep DEF Session
<1>5. CASE Environment
  BY <1>5, RequestArrivesStep, RestArrivesStep, AcceptBoundStep, NoSessionStep,
    EmitStep, ConsumeStep, HangUpStep DEF Environment
<1>6. QED
  BY <1>1, <1>4, <1>5 DEF Next, Terminated

(* The invariant holds for any capacity, any requests and any rule files. *)
THEOREM Invariant == Spec => []IInv
BY InitInvariant, NextInvariant, PTL DEF Spec

(* Types, and that neither the session's buffers nor the network ever hold more
   than they can: what is not passed on stays in buf until there is room. *)
THEOREM TypeCorrect == Spec => []TypeOK
<1>1. IInv => TypeOK
  BY DEF IInv
<1>2. QED
  BY <1>1, Invariant, PTL

-----------------------------------------------------------------------------
(* Closing the sockets, and the pair of channels. *)

(* Without the rest of a request in front, a stream from its first element on
   is the numbers from 1 on. *)
LEMMA DataOfRun ==
  ASSUME NEW q \in Seq(Nat), NEW z \in {0, 1}, Run(q, 0, z)
  PROVE  /\ Data(q) \in Seq(Nat)
         /\ Len(Data(q)) = IF q = <<>> THEN 0 ELSE Len(q) - z
         /\ \A i \in 1 .. Len(Data(q)) : Data(q)[i] = i
<1>1. CASE q = <<>>
  BY <1>1 DEF Data
<1>2. CASE q # <<>> /\ z = 1
  <2>1. q[1] = 0
    BY <1>2 DEF Run
  <2>2. Data(q) = Tail(q)
    BY <1>2, <2>1 DEF Data
  <2>3. /\ Tail(q) \in Seq(Nat) /\ Len(Tail(q)) = Len(q) - 1
        /\ \A i \in 1 .. Len(Tail(q)) : Tail(q)[i] = q[i + 1]
    BY <1>2, HeadTailProperties
  <2>4. \A i \in 1 .. Len(Tail(q)) : Tail(q)[i] = i
    BY <1>2, <2>3 DEF Run
  <2>5. QED
    BY <1>2, <2>2, <2>3, <2>4
<1>3. CASE q # <<>> /\ z = 0
  <2>1. \A i \in 1 .. Len(q) : q[i] = i
    BY <1>3 DEF Run
  <2>2. Data(q) = q
    BY <1>3, <2>1 DEF Data
  <2>3. QED
    BY <1>3, <2>1, <2>2
<1>4. QED
  BY <1>1, <1>2, <1>3

(* The step that closes the sockets of a relay whose receiver is there is the
   one of its own end, after all of its data. *)
LEMMA ClosedAtEnd ==
  ASSUME IInv, Next, NEW d \in Dirs, phase = "relay", open # {}, open' = {},
         peer[To(d)] = "open"
  PROVE  ReadFailed(d)
<1>1. open = Sides
  BY DEF IInv, Answers
<1>2. \/ SessionOver
      \/ \E e \in Dirs : ReadFailed(e)
  BY <1>1 DEF Next, Session, Environment, Terminated, Accept, ForkFails, RequestDropped,
    Receive, Transmit, ReadDone, WriteDone, WriteFailed, RequestArrives, RestArrives,
    AcceptBound, AcceptBoundFails, Emit, Consume, HangUp, vars
<1>3. ~SessionOver
  BY DEF SessionOver, IInv, Ends
<1>4. ASSUME NEW e \in Dirs \ {d}, ReadFailed(e)
      PROVE  FALSE
  <2>1. ~Sending(From(e))
    BY <1>4 DEF ReadFailed, IInv, Ends
  <2>2. From(e) = To(d)
    BY DEF From, To, Dirs
  <2>3. QED
    BY <2>1, <2>2 DEF Sending
<1>5. QED
  BY <1>2, <1>3, <1>4

(* When a relay has nothing in its buffer, nothing more to read and has dropped
   nothing, everything is with the receiver or on its way to it. *)
LEMMA AllPassedOn ==
  ASSUME IInv, NEW d \in Dirs, open # {}, wire[d] = <<>>, buf[d] = <<>>, Whole(d)
  PROVE  Data(got[d] \o kern[d]) = [n \in Units(d) |-> n]
<1>1. PICK z \in {0, 1} : Stream(d, z)
  BY DEF IInv, Streams
<1> DEFINE g == got[d]
           k == kern[d]
           t == sent[d]
           q == g \o k
<1>2. g \in Seq(Nat) /\ k \in Seq(Nat) /\ t \in Nat
  BY SequenceTypes
<1>3. Run(g, 0, z) /\ Run(k, Len(g), z)
  BY <1>1 DEF Stream
<1>4. Len(g) + Len(k) = t + z
  <2>1. Len(g) + Len(k) + Len(buf[d]) + Len(wire[d]) = t + z
    BY <1>1 DEF Stream
  <2>2. Len(buf[d]) = 0 /\ Len(wire[d]) = 0
    OBVIOUS
  <2>3. Len(g) + Len(k) + 0 + 0 = t + z
    BY <2>1, <2>2
  <2> HIDE DEF g, k, t
  <2>4. QED
    BY <1>2, <2>3
<1> HIDE DEF g, k, t
<1>5. q \in Seq(Nat) /\ Len(q) = t + z
  BY <1>2, <1>4, ConcatProperties
<1>6. Run(q, 0, z)
  <2>1. 0 + Len(g) = Len(g)
    BY <1>2
  <2>2. QED
    BY <1>2, <1>3, <2>1, RunConcat
<1> HIDE DEF q
<1>7. /\ Data(q) \in Seq(Nat) /\ \A i \in 1 .. Len(Data(q)) : Data(q)[i] = i
      /\ Len(Data(q)) = IF q = <<>> THEN 0 ELSE Len(q) - z
  BY <1>5, <1>6, DataOfRun
<1>8. Len(Data(q)) = t
  <2>1. CASE q = <<>>
    BY <1>2, <1>5, <1>7, <2>1
  <2>2. CASE q # <<>>
    BY <1>2, <1>5, <1>7, <2>2
  <2>3. QED
    BY <2>1, <2>2
<1> DEFINE all == [n \in 1 .. t |-> n]
<1>9. all \in Seq(Nat) /\ Len(all) = t /\ \A i \in 1 .. t : all[i] = i
  BY <1>2
<1> HIDE DEF all
<1>10. Data(q) = all
  BY <1>7, <1>8, <1>9, SeqEqual
<1>11. QED
  BY <1>10 DEF q, g, k, all, t, Units

LEMMA NothingLostStep ==
  ASSUME IInv, Next, NEW d \in Dirs, phase = "relay", open # {}, open' = {},
         peer[To(d)] = "open", wire[Back(d)] = <<>>
  PROVE  Data(got[d] \o kern'[d]) = [n \in Units(d) |-> n]
<1>1. op[d] = "eof" /\ CloseBoth
  BY ClosedAtEnd DEF ReadFailed
<1>2. wire[d] = <<>> /\ buf[d] = <<>> /\ Whole(d)
  BY <1>1 DEF IInv, Ends, Whole
<1>3. kern'[d] = kern[d]
  <2>1. PICK k \in [Dirs -> 0 .. Cap] :
          /\ \A e \in Dirs : \/ k[e] = Len(kern[e])
                             \/ k[e] < Len(kern[e]) /\ wire[Back(e)] # <<>>
          /\ kern' = [e \in Dirs |-> SubSeq(kern[e], 1, k[e])]
    BY <1>1 DEF CloseBoth
  <2>2. kern'[d] = SubSeq(kern[d], 1, Len(kern[d]))
    BY <2>1
  <2>3. QED
    BY <2>2, SequenceTypes, SubSeqFull
<1>4. QED
  BY <1>2, <1>3, AllPassedOn

(* Closing both sockets when one end has finished loses nothing of what that end
   sent, if the other is still there and has sent nothing that is unread. *)
THEOREM NothingLost == Spec => NothingLostAtClose
<1>1. ASSUME IInv, [Next]_vars
      PROVE  [ \A d \in Dirs :
                 /\ phase = "relay" /\ open # {} /\ open' = {}
                 /\ peer[To(d)] = "open" /\ wire[Back(d)] = <<>>
                 => Data(got[d] \o kern'[d]) = [n \in Units(d) |-> n] ]_vars
  BY <1>1, NothingLostStep
<1>2. QED
  BY <1>1, Invariant, PTL DEF Spec, NothingLostAtClose

(* Neither relay waits for the other: while its receiver reads and has less to
   take than the network holds, a relay that waits has passed everything on. *)
THEOREM NeverWaitsInVain == Spec => []WaitsWhenPassedOn
<1>1. ASSUME IInv
      PROVE  WaitsWhenPassedOn
  <2> SUFFICES ASSUME NEW d \in Dirs, phase = "relay", open # {}, Waits(d),
                      peer[To(d)] \in {"open", "half"}, Len(kern[d]) # Cap
               PROVE  Data(got[d] \o kern[d]) = [n \in Units(d) |-> n]
    BY DEF WaitsWhenPassedOn
  <2>1. op[d] # "none"
    BY <1>1 DEF IInv, Ends
  <2>2. op[d] # "writing"
    <3>1. kern[d] \in Seq(Nat) /\ Len(kern[d]) <= Cap /\ Cap \in Nat
      BY <1>1, SequenceTypes, SocksAssumption DEF IInv, TypeOK
    <3>2. Len(kern[d]) \in Nat
      BY <3>1
    <3>3. Cap - Len(kern[d]) # 0
      BY <3>1, <3>2
    <3>4. Room(d) # 0
      BY <3>3 DEF Room
    <3>5. QED
      BY <3>4 DEF Waits
  <2>3. op[d] = "reading" /\ wire[d] = <<>>
    BY <2>1, <2>2 DEF Waits
  <2>4. buf[d] = <<>>
    BY <1>1, <2>3 DEF IInv, TypeOK
  <2>5. Whole(d)
    BY <2>3 DEF Whole
  <2>6. QED
    BY <1>1, <2>3, <2>4, <2>5, AllPassedOn
<1>2. QED
  BY <1>1, Invariant, PTL

(* Which steps change what the abstract channels have. *)
LEMMA Visible ==
  ASSUME IInv, Next
  PROVE  /\ (\E d \in Dirs : Emit(d) \/ Consume(d)) \/ UNCHANGED <<sent, got>>
         /\ UNCHANGED <<ask, replies>> \/ (~Granted /\ ~(\E d \in Dirs : Emit(d) \/ Consume(d)))
<1>1. (\E d \in Dirs : Emit(d) \/ Consume(d)) \/ UNCHANGED <<sent, got>>
  BY DEF Next, Session, Environment, Terminated, Accept, ForkFails, RequestDropped,
    SessionOver, Receive, Transmit, ReadDone, ReadFailed, WriteDone, WriteFailed,
    RequestArrives, RestArrives, AcceptBound, AcceptBoundFails, HangUp, vars, ends
<1>2. Accept \/ AcceptBound \/ UNCHANGED <<ask, replies>>
  BY DEF Next, Session, Environment, Terminated, ForkFails, RequestDropped,
    SessionOver, Receive, Transmit, ReadDone, ReadFailed, WriteDone, WriteFailed,
    RequestArrives, RestArrives, AcceptBoundFails, Emit, Consume, HangUp, vars, request
<1>3. Accept \/ AcceptBound => ~Granted
  BY DEF Accept, AcceptBound, IInv, Starting
<1>4. (\E d \in Dirs : Emit(d) \/ Consume(d)) => UNCHANGED <<ask, replies>>
  BY DEF Emit, Consume, request
<1>5. QED
  BY <1>1, <1>2, <1>3, <1>4

(* What an end receives is the next unit, or the rest of a request. *)
LEMMA ReceiveRefines ==
  ASSUME IInv, NEW d \in Dirs, Consume(d)
  PROVE  R!Receive(d) \/ Data(got'[d]) = Data(got[d])
<1> DEFINE g == got[d]
           k == kern[d]
           t == sent[d]
           h == Head(k)
           q == Append(g, h)
<1>1. k # <<>> /\ got' = [got EXCEPT ![d] = q] /\ UNCHANGED <<ask, replies, sent>>
  BY DEF Consume, request
<1>2. g \in Seq(Nat) /\ k \in Seq(Nat) /\ t \in Nat
  BY SequenceTypes
<1>3. got'[d] = q
  BY <1>1, SequenceTypes
<1>4. PICK z \in {0, 1} : Stream(d, z)
  BY DEF IInv, Streams
<1>5. Run(g, 0, z) /\ Run(k, Len(g), z) /\ Len(g) + Len(k) <= t + z
  BY <1>4 DEF Stream
<1>6. Granted' = Granted
  BY <1>1 DEF Granted
<1> HIDE DEF g, k, t
<1>7. h \in Nat /\ h + z = Len(g) + 1 /\ Len(g) + 1 <= t + z
  BY <1>1, <1>2, <1>5 DEF Run
<1> HIDE DEF h
<1>8. /\ q \in Seq(Nat) /\ Len(q) = Len(g) + 1 /\ q[Len(g) + 1] = h
      /\ \A i \in 1 .. Len(g) : q[i] = g[i]
  BY <1>2, <1>7, AppendProperties
<1> HIDE DEF q
<1>9. Run(q, 0, z)
  <2>1. ASSUME NEW i \in 1 .. Len(q)
        PROVE  q[i] + z = 0 + i
    <3>1. i \in 1 .. Len(g) \/ i = Len(g) + 1
      BY <1>2, <1>8
    <3>2. CASE i \in 1 .. Len(g)
      BY <1>5, <1>8, <3>2 DEF Run
    <3>3. CASE i = Len(g) + 1
      BY <1>2, <1>7, <1>8, <3>3
    <3>4. QED
      BY <3>1, <3>2, <3>3
  <2>2. QED
    BY <2>1 DEF Run
<1> DEFINE a == Data(g)
           b == Data(q)
<1>10. /\ a \in Seq(Nat) /\ \A i \in 1 .. Len(a) : a[i] = i
       /\ Len(a) = IF g = <<>> THEN 0 ELSE Len(g) - z
       /\ b \in Seq(Nat) /\ \A i \in 1 .. Len(b) : b[i] = i
       /\ Len(b) = Len(g) + 1 - z
  <2>1. q # <<>>
    BY <1>2, <1>8
  <2>2. Len(Data(q)) = Len(q) - z /\ Data(q) \in Seq(Nat)
        /\ \A i \in 1 .. Len(Data(q)) : Data(q)[i] = i
    BY <1>8, <1>9, <2>1, DataOfRun
  <2>3. Len(b) = Len(g) + 1 - z /\ b \in Seq(Nat) /\ \A i \in 1 .. Len(b) : b[i] = i
    BY <1>8, <2>2
  <2>4. /\ a \in Seq(Nat) /\ \A i \in 1 .. Len(a) : a[i] = i
        /\ Len(a) = IF g = <<>> THEN 0 ELSE Len(g) - z
    BY <1>2, <1>5, DataOfRun
  <2>5. QED
    BY <2>3, <2>4
<1> HIDE DEF a, b
<1>11. CASE g = <<>> /\ z = 1
  <2>1. Len(a) = 0 /\ Len(b) = 0
    BY <1>10, <1>11
  <2>2. a = b
    BY <1>10, <2>1, SeqEqual
  <2>3. QED
    BY <1>3, <2>2 DEF a, b, g
<1>12. CASE g # <<>> \/ z = 0
  <2>1. Len(b) = Len(a) + 1 /\ Len(a) < t /\ Len(a) \in Nat
    BY <1>2, <1>7, <1>10, <1>12
  <2> DEFINE c == Append(a, Len(a) + 1)
  <2>2. /\ c \in Seq(Nat) /\ Len(c) = Len(a) + 1 /\ c[Len(a) + 1] = Len(a) + 1
        /\ \A i \in 1 .. Len(a) : c[i] = a[i]
    BY <1>10, <2>1, AppendProperties
  <2> HIDE DEF c
  <2>3. ASSUME NEW i \in 1 .. Len(c)
        PROVE  c[i] = i
    <3>1. i \in 1 .. Len(a) \/ i = Len(a) + 1
      BY <2>1, <2>2
    <3>2. QED
      BY <1>10, <2>2, <3>1
  <2>4. b = c
    BY <1>10, <2>1, <2>2, <2>3, SeqEqual
  <2> DEFINE f == [e \in Dirs |-> Data(got[e])]
  <2>5. [e \in Dirs |-> Data(got'[e])] = [f EXCEPT ![d] = Append(@, Len(@) + 1)]
    <3>1. f[d] = a /\ Data(got'[d]) = b
      BY <1>3 DEF a, b, g
    <3>2. \A e \in Dirs \ {d} : got'[e] = got[e]
      BY <1>1, SequenceTypes
    <3>3. QED
      BY <2>4, <3>1, <3>2 DEF c
  <2>6. Len(f[d]) < sent[d]
    BY <2>1 DEF a, g, t
  <2>7. QED
    BY <1>1, <1>6, <2>5, <2>6 DEF R!Receive
<1>13. QED
  BY <1>11, <1>12

LEMMA StepRefines ==
  ASSUME IInv, [Next]_vars
  PROVE  [R!Next]_(R!rvars)
<1>1. CASE UNCHANGED vars
  BY <1>1 DEF vars, request, ends, R!rvars, Granted
<1>2. ASSUME NEW d \in Dirs, Emit(d)
      PROVE  [R!Next]_(R!rvars)
  <2>1. /\ Granted /\ Granted' = Granted /\ sent[d] < MaxSent /\ got' = got
        /\ sent' = [sent EXCEPT ![d] = @ + 1]
    BY <1>2 DEF Emit, request, Granted
  <2>2. R!Send(d)
    BY <2>1 DEF R!Send
  <2>3. QED
    BY <2>2 DEF R!Next, R!Dirs, Dirs
<1>3. ASSUME NEW d \in Dirs, Consume(d)
      PROVE  [R!Next]_(R!rvars)
  <2>1. CASE R!Receive(d)
    BY <2>1 DEF R!Next, R!Dirs, Dirs
  <2>2. CASE Data(got'[d]) = Data(got[d])
    <3>1. /\ Granted' = Granted /\ sent' = sent
          /\ \A e \in Dirs \ {d} : got'[e] = got[e]
      BY <1>3, SequenceTypes DEF Consume, request, Granted
    <3>2. [e \in Dirs |-> Data(got'[e])] = [e \in Dirs |-> Data(got[e])]
      BY <2>2, <3>1
    <3>3. QED
      BY <3>1, <3>2 DEF R!rvars
  <2>3. QED
    BY <1>3, <2>1, <2>2, ReceiveRefines
<1>4. ASSUME UNCHANGED <<sent, got>>, UNCHANGED <<ask, replies>> \/ ~Granted
      PROVE  [R!Next]_(R!rvars)
  <2>1. CASE Granted' = Granted
    BY <1>4, <2>1 DEF R!rvars
  <2>2. CASE ~Granted /\ Granted'
    BY <1>4, <2>2 DEF R!Next, R!Grant
  <2>3. QED
    BY <1>4, <2>1, <2>2 DEF Granted
<1>5. QED
  BY <1>1, <1>2, <1>3, <1>4, Visible

(* The relays of a session implement a pair of channels: nothing is passed
   before the request is granted, and then everything in order and once. *)
THEOREM Refinement == Spec => ImplementsRelay
<1>1. Init => R!Init
  <2> SUFFICES ASSUME Init
               PROVE  R!Init
    OBVIOUS
  <2>1. ~Granted
    BY InitInvariant DEF Init, IInv, Starting
  <2>2. [d \in Dirs |-> Data(got[d])] = [d \in Dirs |-> <<>>]
    BY DEF Init, Data
  <2>3. QED
    BY <2>1, <2>2 DEF Init, R!Init, R!Dirs, Dirs
<1>2. QED
  BY <1>1, StepRefines, Invariant, PTL DEF Spec, ImplementsRelay, R!Spec

-----------------------------------------------------------------------------
(* The firewall. *)

\* What has been answered is what the loop over the rules decides for the
\* request as it has been read.
Decided == replies # <<>> => (replies[1] = 90 <=> Permitted(ask))

(* Of the "*" that the loop over the tokens reaches, the first is enough. *)
LEMMA GrantsAtFirstStar ==
  ASSUME NEW p, NEW ip, Grants(p, ip)
  PROVE  AgreesUpToStar(p, ip)
<1>1. PICK i \in 1 .. 4 : /\ Token(p, i) = "*"
                          /\ \A j \in 1 .. i - 1 : Token(p, j) \in {"*", ip[j]}
  BY DEF Grants
<1>2. \E n \in 1 .. i : /\ Token(p, n) = "*"
                        /\ \A j \in 1 .. n - 1 : Token(p, j) # "*"
  <2>1. i = 1 \/ i = 2 \/ i = 3 \/ i = 4
    OBVIOUS
  <2>2. CASE Token(p, 1) = "*"
    BY <2>1, <2>2
  <2>3. CASE Token(p, 1) # "*" /\ Token(p, 2) = "*"
    BY <1>1, <2>1, <2>3
  <2>4. CASE Token(p, 1) # "*" /\ Token(p, 2) # "*" /\ Token(p, 3) = "*"
    BY <1>1, <2>1, <2>4
  <2>5. CASE Token(p, 1) # "*" /\ Token(p, 2) # "*" /\ Token(p, 3) # "*"
    BY <1>1, <2>1, <2>5
  <2>6. QED
    BY <2>2, <2>3, <2>4, <2>5
<1>3. PICK n \in 1 .. i : /\ Token(p, n) = "*"
                         /\ \A j \in 1 .. n - 1 : Token(p, j) # "*"
  BY <1>2
<1>4. n \in 1 .. 4 /\ \A j \in 1 .. n - 1 : j \in 1 .. i - 1
  OBVIOUS
<1>5. \A j \in 1 .. n - 1 : Token(p, j) = ip[j]
  BY <1>1, <1>3, <1>4
<1>6. QED
  BY <1>3, <1>4, <1>5 DEF AgreesUpToStar

(* The words of a line that begins in step are read as one rule. *)
LEMMA InStep ==
  ASSUME NEW k \in Nat, k % 3 = 1, Len(conf) \in Nat, k + 2 <= Len(conf)
  PROVE  \E i \in 1 .. Len(conf) \div 3 : 3 * i - 1 = k + 1 /\ 3 * i = k + 2
<1>1. PICK m \in Nat : k = 3 * m + 1
  OBVIOUS
<1>2. m + 1 \in 1 .. Len(conf) \div 3
  BY <1>1
<1>3. 3 * (m + 1) - 1 = k + 1 /\ 3 * (m + 1) = k + 2
  BY <1>1
<1>4. QED
  BY <1>2, <1>3

LEMMA DecidedAsRead ==
  ASSUME conf \in Confs, Decided
  PROVE  FirewallAsRead
<1>1. Len(conf) \in Nat
  <2>1. conf \in Seq([text : Seq(STRING), begins : BOOLEAN])
    BY SocksAssumption
  <2>2. QED
    BY <2>1
<1>2. ASSUME NEW k \in 1 .. Len(conf), k % 3 = 1, Lists(k), Starred(k)
      PROVE  Permitted(ask)
  <2>1. k + 2 <= Len(conf) /\ conf[k + 1].text = Mode(ask.cd)
    BY <1>2 DEF Lists
  <2>2. k \in Nat
    OBVIOUS
  <2>3. PICK i \in 1 .. Len(conf) \div 3 : 3 * i - 1 = k + 1 /\ 3 * i = k + 2
    BY <1>1, <1>2, <2>1, <2>2, InStep
  <2>4. Rule(i).mode = conf[k + 1].text /\ Rule(i).pattern = conf[k + 2].text
    BY <2>3 DEF Rule
  <2>5. Grants(conf[k + 2].text, ask.ip)
    <3>1. PICK n \in 1 .. 4 : Token(conf[k + 2].text, n) = "*"
      BY <1>2 DEF Starred
    <3>2. \A j \in 1 .. 4 : Token(conf[k + 2].text, j) \in {"*", ask.ip[j]}
      BY <1>2 DEF Lists
    <3>3. \A j \in 1 .. n - 1 : j \in 1 .. 4
      OBVIOUS
    <3>4. QED
      BY <3>1, <3>2, <3>3 DEF Grants
  <2>6. QED
    BY <2>1, <2>4, <2>5 DEF Permitted, RulesRead
<1>3. ASSUME Permitted(ask)
      PROVE  \E k \in 1 .. Len(conf) :
                /\ k % 3 = 1 /\ k + 2 <= Len(conf)
                /\ conf[k + 1].text = Mode(ask.cd)
                /\ AgreesUpToStar(conf[k + 2].text, ask.ip)
  <2>1. PICK i \in 1 .. Len(conf) \div 3 :
            Rule(i).mode = Mode(ask.cd) /\ Grants(Rule(i).pattern, ask.ip)
    BY <1>3 DEF Permitted, RulesRead
  <2> DEFINE k == 3 * i - 2
  <2>2. k \in 1 .. Len(conf) /\ k % 3 = 1 /\ k + 2 <= Len(conf)
    BY <1>1
  <2>3. k + 1 = 3 * i - 1 /\ k + 2 = 3 * i
    OBVIOUS
  <2>4. Rule(i).mode = conf[k + 1].text /\ Rule(i).pattern = conf[k + 2].text
    BY <2>3 DEF Rule
  <2>5. AgreesUpToStar(conf[k + 2].text, ask.ip)
    BY <2>1, <2>4, GrantsAtFirstStar
  <2>6. QED
    BY <2>1, <2>2, <2>4, <2>5
<1>4. QED
  BY <1>2, <1>3 DEF Decided, FirewallAsRead

LEMMA DecidedStep ==
  ASSUME IInv, Decided, [Next]_vars
  PROVE  Decided'
<1>1. CASE UNCHANGED <<conf, ask, replies>>
  BY <1>1 DEF Decided, Permitted, RulesRead, Rule
<1>2. CASE Accept
  <2>1. UNCHANGED conf /\ ReadS4 /\ replies = <<>>
    BY <1>2 DEF Accept, IInv, Answers
  <2>2. CASE UNCHANGED <<ask, replies>>
    BY <2>1, <2>2, <1>1
  <2>3. ASSUME NEW a \in AsRead, ask' = a,
               \/ ~Permitted(a) /\ Reject
               \/ Permitted(a) /\ a.cd = 1 /\ ConnectTo
               \/ Permitted(a) /\ a.cd = 2 /\ Bind
        PROVE  Decided'
    <3>1. Permitted(ask)' <=> Permitted(a)
      BY <2>1, <2>3 DEF Permitted, RulesRead, Rule
    <3>2. \/ replies' = <<91>> /\ ~Permitted(a)
          \/ replies' = <<90>> /\ Permitted(a)
      BY <2>3 DEF Reject, ConnectTo, Bind
    <3>3. <<91>>[1] # 90 /\ <<90>>[1] = 90
      OBVIOUS
    <3>4. QED
      BY <3>1, <3>2, <3>3 DEF Decided
  <2>4. QED
    BY <2>1, <2>2, <2>3 DEF ReadS4
<1>3. CASE AcceptBound
  <2>1. UNCHANGED <<conf, ask>> /\ replies = <<90>> /\ replies' = Append(replies, 90)
    BY <1>3 DEF AcceptBound, request, IInv, Answers
  <2>2. <<90>> # <<>> /\ <<90>>[1] = 90 /\ Append(<<90>>, 90)[1] = 90
    OBVIOUS
  <2>3. QED
    BY <2>1, <2>2 DEF Decided, Permitted, RulesRead, Rule
<1>4. QED
  BY <1>1, <1>2, <1>3 DEF Next, Session, Environment, Terminated, ForkFails,
    RequestDropped, SessionOver, Receive, Transmit, ReadDone, ReadFailed, WriteDone,
    WriteFailed, RequestArrives, RestArrives, AcceptBoundFails, Emit, Consume, HangUp,
    vars, request

(* With every socks.conf, what a line lists is granted if the loop reads that
   line in step and its pattern has a "*"; and nothing is granted but what three
   words in step permit, up to the first "*" of the third. *)
THEOREM Decision == Spec => []FirewallAsRead
<1>1. Init => Decided
  BY DEF Init, Decided
<1>2. IInv /\ Decided => FirewallAsRead
  BY DecidedAsRead DEF IInv, TypeOK
<1>3. QED
  BY <1>1, <1>2, DecidedStep, Invariant, PTL DEF Spec
=============================================================================
