---------------------------- MODULE ConsoleProofs ----------------------------
(***************************************************************************)
(* That console and shell do not wait for each other, and that the page    *)
(* keeps the order of the dialogue, for any number of sessions, any files, *)
(* any output of the commands and any size of the buffer.                  *)
(***************************************************************************)
EXTENDS Console, SequenceTheorems, FiniteSetTheorems, TLAPS

-----------------------------------------------------------------------------
(* Types. *)

(* A byte of a known line is a byte. *)
LEMMA ByteType ==
  ASSUME NEW c \in Chars \cup {"90", "91"}, NEW k \in 0 .. MaxLines
  PROVE  Byte(c, k) \in Bytes
BY DEF Byte, Bytes

(* A prompt is bytes. *)
LEMMA PromptType ==
  ASSUME NEW k \in 0 .. MaxLines
  PROVE  Prompt(k) \in Seq(Bytes)
<1>1. Byte("percent", k) \in Bytes /\ Byte("space", k) \in Bytes
  BY ByteType DEF Chars
<1>2. QED
  BY <1>1 DEF Prompt

(* The end of a sequence to which two elements are appended. *)
LEMMA LastTwo ==
  ASSUME NEW S, NEW a \in Seq(S), NEW x \in S, NEW y \in S
  PROVE  /\ Len(a \o <<x, y>>) = Len(a) + 2
         /\ (a \o <<x, y>>)[Len(a) + 1] = x
         /\ (a \o <<x, y>>)[Len(a) + 2] = y
OBVIOUS

(* A sequence of bytes that ends in a prompt. *)
EndsInPrompt(d) ==
    /\ Len(d) >= 2
    /\ d[Len(d) - 1].char = "percent" /\ d[Len(d)].char = "space"

(* What the shell writes before its prompt, and the prompt, are bytes, and the
   prompt is their end. *)
LEMMA PromptedLast ==
  ASSUME ConsoleTypeOK, NEW s \in Sessions, NEW k \in 0 .. MaxLines,
         NEW out \in Seq(Chars), Prompted(s, k, out)
  PROVE  /\ down' \in [Sessions -> Seq(Bytes)]
         /\ EndsInPrompt(down'[s])
         /\ \A t \in Sessions \ {s} : down'[t] = down[t]
<1> DEFINE text == [i \in DOMAIN out |-> Byte(out[i], k)]
           before == down[s] \o text
<1>1. text \in Seq(Bytes)
  <2>1. \A i \in 1 .. Len(out) : Byte(out[i], k) \in Bytes
    BY ByteType
  <2>2. DOMAIN out = 1 .. Len(out) /\ Len(out) \in Nat
    OBVIOUS
  <2>3. QED
    BY <2>1, <2>2
<1>2. down[s] \in Seq(Bytes)
  BY DEF ConsoleTypeOK
<1> HIDE DEF text
<1>3. before \in Seq(Bytes)
  BY <1>1, <1>2
<1>4. down' = [down EXCEPT ![s] = before \o Prompt(k)]
  BY DEF Prompted, text
<1> HIDE DEF before
<1>5. before \o Prompt(k) \in Seq(Bytes)
  BY <1>3, PromptType
<1>6. EndsInPrompt(before \o Prompt(k))
  <2>1. Byte("percent", k) \in Bytes /\ Byte("space", k) \in Bytes
    BY ByteType DEF Chars
  <2>2. Byte("percent", k).char = "percent" /\ Byte("space", k).char = "space"
    BY DEF Byte
  <2>3. Len(before) \in Nat
    BY <1>3
  <2>4. QED
    BY <1>3, <2>1, <2>2, <2>3, LastTwo DEF EndsInPrompt, Prompt
<1>7. QED
  BY <1>4, <1>5, <1>6 DEF ConsoleTypeOK

(* A part of the bytes on their way is bytes. *)
LEMMA PartType ==
  ASSUME NEW d \in Seq(Bytes), NEW m \in 1 .. Len(d) + 1, NEW n \in 0 .. Len(d)
  PROVE  /\ SubSeq(d, m, n) \in Seq(Bytes)
         /\ Len(SubSeq(d, m, n)) = IF m <= n THEN n - m + 1 ELSE 0
         /\ \A i \in 1 .. n - m + 1 : SubSeq(d, m, n)[i] = d[m + i - 1]
<1>1. \A i \in m .. n : d[i] \in Bytes
  OBVIOUS
<1>2. QED
  BY <1>1, SubSeqProperties

(* The console's first state has its types. *)
LEMMA ConsoleInitTypes == ConsoleInit => ConsoleTypeOK
BY ConsoleAssumption DEF ConsoleInit, ConsoleTypeOK, Phases

(* A read is bytes, at most as many as the buffer holds; the rest stays. *)
LEMMA ReadTypes ==
  ASSUME ConsoleTypeOK, NEW s \in Sessions, NEW n \in Readable(s)
  PROVE  /\ n \in 1 .. Len(down[s])
         /\ Shell(SubSeq(down[s], 1, n)) \in Entries
         /\ SubSeq(down[s], n + 1, Len(down[s])) \in Seq(Bytes)
<1> Len(down[s]) \in Nat /\ down[s] \in Seq(Bytes)
  BY DEF ConsoleTypeOK
<1>1. n \in 1 .. Len(down[s]) /\ n \in 1 .. Cap
  BY ConsoleAssumption DEF Readable, ConsoleAssumption
<1>2. SubSeq(down[s], 1, n) \in Seq(Bytes) /\ Len(SubSeq(down[s], 1, n)) = n
  BY <1>1, PartType
<1>3. SubSeq(down[s], n + 1, Len(down[s])) \in Seq(Bytes)
  BY <1>1, PartType
<1>4. QED
  BY <1>1, <1>2, <1>3 DEF Shell, Entries

(* A session's own step keeps the types. *)
LEMMA SessionTypes ==
  ASSUME ConsoleTypeOK, NEW s \in Sessions, Session(s)
  PROVE  ConsoleTypeOK'
<1> USE DEF ConsoleTypeOK
<1>1. CASE Resolve(s) \/ ConnectsSocks(s) \/ Asks(s) \/ Fails(s) \/ ReadEnds(s)
  BY <1>1 DEF Resolve, ConnectsSocks, Asks, Fails, ReadEnds, EndOfShell, Phases
<1>2. CASE Connects(s)
  <2>1. <<>> \in Seq(Chars) /\ 0 \in 0 .. MaxLines
    BY ConsoleAssumption DEF ConsoleAssumption
  <2>2. down' \in [Sessions -> Seq(Bytes)]
    BY <1>2, <2>1, PromptedLast DEF Connects
  <2>3. QED
    BY <1>2, <2>2 DEF Connects, Phases
<1>3. CASE ReadsReply(s)
  <2>1. down[s] # <<>> => Tail(down[s]) \in Seq(Bytes)
    OBVIOUS
  <2>2. down' \in [Sessions -> Seq(Bytes)]
    BY <1>3, <2>1 DEF ReadsReply
  <2>3. QED
    BY <1>3, <2>2 DEF ReadsReply, Phases
<1>4. CASE Read(s)
  <2>1. PICK n \in Readable(s) :
          LET data == SubSeq(down[s], 1, n) IN
          /\ down' = [down EXCEPT ![s] = SubSeq(@, n + 1, Len(@))]
          /\ \/ /\ page' = [page EXCEPT ![s] = Append(@, Shell(data))]
                /\ sent' = sent \/ sent' = [sent EXCEPT ![s] = @ + 1]
             \/ /\ sent' = [sent EXCEPT ![s] = @ + 1]
                /\ page' = [page EXCEPT ![s] = @ \o Exchange(data, sent'[s])]
    BY <1>4 DEF Read
  <2>2. sent' \in [Sessions -> Nat]
    BY <2>1
  <2>3. down' \in [Sessions -> Seq(Bytes)]
    BY <2>1, ReadTypes
  <2> DEFINE data == SubSeq(down[s], 1, n)
  <2>4. Shell(data) \in Entries /\ Command(sent'[s]) \in Entries
    BY <2>2, ReadTypes DEF Command, Entries
  <2> HIDE DEF data
  <2>5. Exchange(data, sent'[s]) \in Seq(Entries)
    BY <2>4 DEF Exchange
  <2>6. /\ Append(page[s], Shell(data)) \in Seq(Entries)
        /\ page[s] \o Exchange(data, sent'[s]) \in Seq(Entries)
    BY <2>4, <2>5
  <2>7. page' \in [Sessions -> Seq(Entries)]
    BY <2>1, <2>6 DEF data
  <2>8. QED
    BY <1>4, <2>2, <2>3, <2>7 DEF Read
<1>5. QED
  BY <1>1, <1>2, <1>3, <1>4 DEF Session

(* What the other side does keeps the types. *)
LEMMA RemoteTypes ==
  ASSUME ConsoleTypeOK, NEW s \in Sessions, Remote(s)
  PROVE  ConsoleTypeOK'
<1> USE DEF ConsoleTypeOK
<1>1. CASE SocksAnswers(s)
  <2>1. 0 \in 0 .. MaxLines
    BY ConsoleAssumption DEF ConsoleAssumption
  <2>2. Byte("90", 0) \in Bytes /\ Byte("91", 0) \in Bytes
    BY <2>1, ByteType
  <2>3. Prompt(0) \in Seq(Bytes)
    BY <2>1, PromptType
  <2>4. down' \in [Sessions -> Seq(Bytes)]
    <3> DEFINE granted == <<Byte("90", 0)>> \o Prompt(0)
    <3>1. \/ down' = [down EXCEPT ![s] = granted]
          \/ down' = [down EXCEPT ![s] = <<Byte("90", 0)>>]
          \/ down' = [down EXCEPT ![s] = <<Byte("91", 0)>>]
          \/ down' = [down EXCEPT ![s] = <<>>]
      BY <1>1 DEF SocksAnswers
    <3>2. <<Byte("90", 0)>> \in Seq(Bytes) /\ <<Byte("91", 0)>> \in Seq(Bytes)
      BY <2>2
    <3>3. granted \in Seq(Bytes)
      BY <2>3, <3>2
    <3> HIDE DEF granted
    <3>4. <<>> \in Seq(Bytes)
      OBVIOUS
    <3>5. CASE down' = [down EXCEPT ![s] = granted]
      BY <3>3, <3>5
    <3>6. CASE \/ down' = [down EXCEPT ![s] = <<Byte("90", 0)>>]
               \/ down' = [down EXCEPT ![s] = <<Byte("91", 0)>>]
      BY <3>2, <3>6
    <3>7. CASE down' = [down EXCEPT ![s] = <<>>]
      BY <3>4, <3>7
    <3>8. QED
      BY <3>1, <3>5, <3>6, <3>7
  <2>5. QED
    BY <1>1, <2>4 DEF SocksAnswers
<1>2. ASSUME Closes(s), taken' \in [Sessions -> 0 .. MaxLines],
             UNCHANGED <<program, query, phase, sent, page>>
      PROVE  ConsoleTypeOK'
  <2>1. PICK n \in 0 .. Len(down[s]) : down' = [down EXCEPT ![s] = SubSeq(@, 1, n)]
    BY <1>2 DEF Closes
  <2>2. SubSeq(down[s], 1, n) \in Seq(Bytes)
    BY PartType
  <2>3. down' \in [Sessions -> Seq(Bytes)]
    BY <2>1, <2>2
  <2>4. QED
    BY <1>2, <2>3 DEF Closes
<1>3. CASE ShellAnswers(s)
  <2>1. taken'[s] \in 0 .. MaxLines /\ taken' \in [Sessions -> 0 .. MaxLines]
    BY <1>3, ConsoleAssumption DEF ShellAnswers, ConsoleAssumption
  <2>2. CASE Closes(s)
    BY <1>2, <1>3, <2>1, <2>2 DEF ShellAnswers
  <2>3. CASE ~Closes(s)
    <3>1. PICK out \in Seq(Chars) : Prompted(s, taken'[s], out)
      <4>1. \/ \E out \in Outputs : Prompted(s, taken'[s], out)
            \/ Prompted(s, taken'[s], <<>>)
        BY <1>3, <2>3 DEF ShellAnswers
      <4>2. <<>> \in Seq(Chars) /\ Outputs \subseteq Seq(Chars)
        BY ConsoleAssumption DEF ConsoleAssumption
      <4>3. QED
        BY <4>1, <4>2
    <3>2. down' \in [Sessions -> Seq(Bytes)]
      BY <2>1, <3>1, PromptedLast
    <3>3. QED
      BY <1>3, <2>1, <2>3, <3>2 DEF ShellAnswers
  <2>4. QED
    BY <2>2, <2>3
<1>4. CASE ShellFails(s)
  BY <1>2, <1>4 DEF ShellFails
<1>5. QED
  BY <1>1, <1>3, <1>4 DEF Remote

(* Every step keeps the types. *)
LEMMA ConsoleNextTypes == ASSUME ConsoleTypeOK, [ConsoleNext]_cvars PROVE ConsoleTypeOK'
<1>1. CASE UNCHANGED cvars
  BY <1>1 DEF cvars, ConsoleTypeOK
<1>2. CASE Start
  BY <1>2 DEF Start, ConsoleTypeOK, Phases
<1>3. CASE Stop
  BY <1>3 DEF Stop, ConsoleTypeOK, Phases
<1>4. QED
  BY <1>1, <1>2, <1>3, SessionTypes, RemoteTypes DEF ConsoleNext

-----------------------------------------------------------------------------
(* Who waits for whom. *)

(* Before the dialogue nothing has been sent, and before it is connected there
   is no shell. *)
NothingSent(s) ==
    /\ phase[s] \notin {"talk", "over"} => sent[s] = 0
    /\ phase[s] \in {"idle", "resolve", "connect", "target"} => shell[s] = "none"

(* A shell that the SOCKS server has connected has its prompt behind the reply. *)
PromptBehind(s) ==
    phase[s] = "reply" /\ shell[s] = "ready" =>
        Len(down[s]) = 3 /\ EndsInPrompt(down[s])

(* Half of the prompt has been read, and the other half is there. *)
HalfRead(s) ==
    LET n == Len(page[s]) IN
    /\ Len(down[s]) = 1 /\ down[s][1].char = "space"
    /\ n > 0 /\ page[s][n].is = "shell"
    /\ page[s][n].data[Len(page[s][n].data)].char = "percent"

(* A shell that has no line to execute has its last prompt on the way, whole or
   in part, or the console has read it and not seen it. *)
PromptOnTheWay(s) ==
    phase[s] = "talk" /\ shell[s] = "ready" /\ sent[s] = taken[s] =>
        EndsInPrompt(down[s]) \/ HalfRead(s) \/ (down[s] = <<>> /\ Cut(s))

WaitInv(s) ==
    taken[s] <= sent[s] /\ NothingSent(s) /\ PromptBehind(s) /\ PromptOnTheWay(s)

ConsoleInv == ConsoleTypeOK /\ \A s \in Sessions : WaitInv(s)

(* A session that a step does not touch keeps the invariant. *)
LEMMA Untouched ==
  ASSUME NEW t \in Sessions, WaitInv(t), phase'[t] = phase[t],
         shell'[t] = shell[t], sent'[t] = sent[t], taken'[t] = taken[t],
         down'[t] = down[t], page'[t] = page[t]
  PROVE  WaitInv(t)'
BY DEF WaitInv, NothingSent, PromptBehind, PromptOnTheWay, HalfRead, Cut

(* A session whose shell is not there, or has gone, keeps it. *)
LEMMA NoShell ==
  ASSUME NEW t \in Sessions, WaitInv(t), UNCHANGED <<phase, sent>>,
         shell'[t] = "gone", taken'[t] <= sent'[t], phase[t] # "idle",
         phase[t] # "resolve", phase[t] # "connect", phase[t] # "target"
  PROVE  WaitInv(t)'
BY DEF WaitInv, NothingSent, PromptBehind, PromptOnTheWay

(* A session that is over has nothing to keep. *)
LEMMA IsOver ==
  ASSUME NEW t \in Sessions, WaitInv(t), phase'[t] = "over", UNCHANGED <<sent, taken>>
  PROVE  WaitInv(t)'
BY DEF WaitInv, NothingSent, PromptBehind, PromptOnTheWay

(* A read without a prompt leaves one on the way, or half of one, or was itself
   the second half. *)
LEMMA ReadLeaves ==
  ASSUME ConsoleTypeOK, NEW s \in Sessions, NEW n \in Readable(s),
         EndsInPrompt(down[s]) \/ HalfRead(s),
         ~HasPrompt(SubSeq(down[s], 1, n)),
         down'[s] = SubSeq(down[s], n + 1, Len(down[s])),
         page'[s] = Append(page[s], Shell(SubSeq(down[s], 1, n)))
  PROVE  EndsInPrompt(down'[s]) \/ HalfRead(s)' \/ (down'[s] = <<>> /\ Cut(s)')
<1> DEFINE d == down[s]
           data == SubSeq(d, 1, n)
           rest == SubSeq(d, n + 1, Len(d))
           m == Len(page[s])
<1>1. d \in Seq(Bytes) /\ Len(d) \in Nat /\ m \in Nat /\ page[s] \in Seq(Entries)
  BY DEF ConsoleTypeOK
<1>2. n \in 1 .. Len(d)
  BY ReadTypes
<1>3. /\ Len(data) = n /\ \A i \in 1 .. n : data[i] = d[i]
      /\ Len(rest) = Len(d) - n /\ rest \in Seq(Bytes)
      /\ \A i \in 1 .. Len(d) - n : rest[i] = d[n + i]
  BY <1>1, <1>2, PartType
<1>4. /\ Len(page'[s]) = m + 1 /\ page'[s][m + 1] = Shell(data)
      /\ \A i \in 1 .. m : page'[s][i] = page[s][i]
  BY <1>1
<1>5. Shell(data).is = "shell" /\ Shell(data).data = data
  BY DEF Shell
<1> HIDE DEF d, data, rest, m
<1>6. down'[s] = rest
  BY DEF d, rest
<1>7. CASE EndsInPrompt(d) /\ Len(d) - n >= 2
  <2>1. /\ Len(d) - n \in 1 .. Len(d) - n /\ (Len(d) - n) - 1 \in 1 .. Len(d) - n
        /\ n + (Len(d) - n) = Len(d) /\ n + ((Len(d) - n) - 1) = Len(d) - 1
    BY <1>1, <1>2, <1>7
  <2>2. rest[Len(rest)] = d[Len(d)] /\ rest[Len(rest) - 1] = d[Len(d) - 1]
    BY <1>3, <2>1
  <2>3. EndsInPrompt(rest)
    BY <1>3, <1>7, <2>2 DEF EndsInPrompt
  <2>4. QED
    BY <1>6, <2>3
<1>8. CASE EndsInPrompt(d) /\ Len(d) - n = 1
  <2>1. data[Len(data)].char = "percent" /\ Len(rest) = 1 /\ rest[1].char = "space"
    BY <1>1, <1>2, <1>3, <1>8 DEF EndsInPrompt
  <2>2. m + 1 > 0 /\ page'[s][m + 1].is = "shell" /\ page'[s][m + 1].data = data
    BY <1>1, <1>4, <1>5
  <2>3. HalfRead(s)'
    BY <1>4, <1>6, <2>1, <2>2 DEF HalfRead
  <2>4. QED
    BY <2>3
<1>9. CASE EndsInPrompt(d) /\ Len(d) = n
  <2>1. data[n - 1].char = "percent" /\ data[(n - 1) + 1].char = "space" /\ n - 1 \in 1 .. Len(data) - 1
    BY <1>1, <1>2, <1>3, <1>9 DEF EndsInPrompt
  <2>2. HasPrompt(data)
    BY <2>1 DEF HasPrompt
  <2>3. QED
    BY <2>2 DEF data, d
<1>10. CASE HalfRead(s)
  <2>1. Len(d) = 1 /\ d[1].char = "space" /\ m > 0 /\ page[s][m].is = "shell"
        /\ page[s][m].data[Len(page[s][m].data)].char = "percent"
    BY <1>10 DEF HalfRead, d, m
  <2>2. n = 1 /\ Len(rest) = 0
    BY <1>2, <1>3, <2>1
  <2>3. rest = <<>>
    BY <1>3, <2>2
  <2>4. Len(data) = 1 /\ data[1].char = "space"
    BY <1>3, <2>1, <2>2
  <2>5. Cut(s)'
    BY <1>1, <1>4, <1>5, <2>1, <2>4 DEF Cut
  <2>6. QED
    BY <1>6, <2>3, <2>5
<1>11. CASE EndsInPrompt(d) /\ Len(d) - n < 0
  BY <1>1, <1>2, <1>11
<1>12. EndsInPrompt(d) \/ HalfRead(s)
  BY DEF d
<1>13. QED
  BY <1>1, <1>2, <1>7, <1>8, <1>9, <1>10, <1>12

(* One element, and two more. *)
LEMMA OneAndTwo ==
  ASSUME NEW S, NEW w \in S, NEW x \in S, NEW y \in S
  PROVE  /\ Len(<<w>> \o <<x, y>>) = 3
         /\ (<<w>> \o <<x, y>>)[2] = x
         /\ (<<w>> \o <<x, y>>)[3] = y
<1> DEFINE one == <<w>>
           two == <<x, y>>
           all == one \o two
<1>1. /\ one \in Seq(S) /\ Len(one) = 1
      /\ two \in Seq(S) /\ Len(two) = 2 /\ two[1] = x /\ two[2] = y
  OBVIOUS
<1> HIDE DEF one, two
<1>2. /\ Len(all) = Len(one) + Len(two)
      /\ \A i \in 1 .. Len(one) + Len(two) :
            all[i] = IF i <= Len(one) THEN one[i] ELSE two[i - Len(one)]
  BY <1>1, ConcatProperties
<1> HIDE DEF all
<1>3. Len(all) = 3 /\ all[2] = x /\ all[3] = y
  BY <1>1, <1>2
<1>4. QED
  BY <1>3 DEF all, one, two

(* The grant of the SOCKS server, with the prompt behind it. *)
LEMMA Granted ==
  LET grant == <<Byte("90", 0)>> \o Prompt(0)
  IN Len(grant) = 3 /\ EndsInPrompt(grant)
<1> DEFINE grant == <<Byte("90", 0)>> \o <<Byte("percent", 0), Byte("space", 0)>>
<1>1. /\ Len(grant) = 3
      /\ grant[2] = Byte("percent", 0) /\ grant[3] = Byte("space", 0)
  <2> DEFINE S == {Byte("90", 0), Byte("percent", 0), Byte("space", 0)}
  <2>1. Byte("90", 0) \in S /\ Byte("percent", 0) \in S /\ Byte("space", 0) \in S
    OBVIOUS
  <2> HIDE DEF S
  <2>2. QED
    BY <2>1, OneAndTwo
<1> HIDE DEF grant
<1>2. EndsInPrompt(grant)
  BY <1>1 DEF EndsInPrompt, Byte
<1>3. QED
  BY <1>1, <1>2 DEF Prompt, grant

(* What is behind the reply ends in a prompt when all does. *)
LEMMA BehindReply ==
  ASSUME NEW d \in Seq(Bytes), Len(d) = 3, EndsInPrompt(d)
  PROVE  EndsInPrompt(Tail(d))
<1> DEFINE rest == Tail(d)
<1>1. d # <<>>
  OBVIOUS
<1>2. Len(rest) = Len(d) - 1 /\ \A i \in 1 .. Len(rest) : rest[i] = d[i + 1]
  BY <1>1, HeadTailProperties, Zenon
<1>3. d[2].char = "percent" /\ d[3].char = "space"
  BY DEF EndsInPrompt
<1> HIDE DEF rest
<1>4. Len(rest) = 2 /\ 1 \in 1 .. 2 /\ 2 \in 1 .. 2 /\ 1 + 1 = 2 /\ 2 + 1 = 3
  BY <1>2
<1>5. rest[1] = d[2] /\ rest[2] = d[3]
  BY <1>2, <1>4
<1>6. EndsInPrompt(rest)
  BY <1>3, <1>4, <1>5 DEF EndsInPrompt
<1>7. QED
  BY <1>6 DEF rest

(* A session's own step keeps the invariant, its own and that of the others. *)
LEMMA SessionWaits ==
  ASSUME ConsoleInv, NEW s \in Sessions, Session(s)
  PROVE  \A t \in Sessions : WaitInv(t)'
<1> USE DEF ConsoleInv
<1>1. \A t \in Sessions \ {s} : WaitInv(t)'
  <2>1. \A t \in Sessions \ {s} :
          /\ phase'[t] = phase[t] /\ shell'[t] = shell[t] /\ sent'[t] = sent[t]
          /\ taken'[t] = taken[t] /\ down'[t] = down[t] /\ page'[t] = page[t]
    BY DEF Session, Resolve, Connects, ConnectsSocks, Asks, Fails, ReadsReply, Read,
           ReadEnds, Prompted, ConsoleTypeOK
  <2>2. QED
    BY <2>1, Untouched
<1>2. CASE Resolve(s) \/ ConnectsSocks(s) \/ Asks(s)
  <2>1. /\ phase[s] \in {"resolve", "connect", "target"}
        /\ phase'[s] \in {"connect", "target", "reply"}
        /\ UNCHANGED <<shell, sent, taken>>
    BY <1>2 DEF Resolve, ConnectsSocks, Asks, ConsoleTypeOK
  <2>2. WaitInv(s)'
    BY <2>1 DEF WaitInv, NothingSent, PromptBehind, PromptOnTheWay
  <2>3. QED
    BY <1>1, <2>2
<1>3. CASE Fails(s) \/ ReadEnds(s)
  <2>1. phase'[s] = "over" /\ UNCHANGED <<sent, taken>>
    BY <1>3 DEF Fails, ReadEnds, EndOfShell, ConsoleTypeOK
  <2>2. QED
    BY <1>1, <2>1, IsOver
<1>4. CASE Connects(s)
  <2>1. EndsInPrompt(down'[s])
    <3>1. <<>> \in Seq(Chars) /\ 0 \in 0 .. MaxLines
      BY ConsoleAssumption DEF ConsoleAssumption
    <3>2. QED
      BY <1>4, <3>1, PromptedLast DEF Connects
  <2>2. phase'[s] = "talk" /\ UNCHANGED <<sent, taken>>
    BY <1>4 DEF Connects, ConsoleTypeOK
  <2>3. WaitInv(s)'
    BY <2>1, <2>2 DEF WaitInv, NothingSent, PromptBehind, PromptOnTheWay
  <2>4. QED
    BY <1>1, <2>3
<1>5. CASE ReadsReply(s)
  <2>1. phase'[s] \in {"talk", "over"} /\ UNCHANGED <<shell, sent, taken>>
    BY <1>5 DEF ReadsReply, ConsoleTypeOK
  <2>2. shell[s] = "ready" => EndsInPrompt(down'[s])
    <3>1. shell[s] = "ready" => Len(down[s]) = 3 /\ EndsInPrompt(down[s])
      BY <1>5 DEF ReadsReply, WaitInv, PromptBehind
    <3>2. down[s] \in Seq(Bytes) /\ (Len(down[s]) = 3 => down'[s] = Tail(down[s]))
      BY <1>5 DEF ReadsReply, ConsoleTypeOK
    <3>3. QED
      BY <3>1, <3>2, BehindReply
  <2>3. WaitInv(s)'
    BY <2>1, <2>2 DEF WaitInv, NothingSent, PromptBehind, PromptOnTheWay
  <2>4. QED
    BY <1>1, <2>3
<1>6. CASE Read(s)
  <2>1. PICK n \in Readable(s) :
          /\ down' = [down EXCEPT ![s] = SubSeq(@, n + 1, Len(@))]
          /\ \/ /\ ~HasPrompt(SubSeq(down[s], 1, n)) /\ UNCHANGED sent
                /\ page' = [page EXCEPT ![s] = Append(@, Shell(SubSeq(down[s], 1, n)))]
             \/ sent' = [sent EXCEPT ![s] = @ + 1]
    BY <1>6 DEF Read
  <2>2. phase[s] = "talk" /\ UNCHANGED <<phase, shell, taken>>
    BY <1>6 DEF Read
  <2>3. CASE sent' = [sent EXCEPT ![s] = @ + 1]
    <3>1. sent'[s] = sent[s] + 1 /\ sent[s] \in Nat /\ taken[s] \in Nat
      BY <2>3, ConsoleAssumption DEF ConsoleTypeOK, ConsoleAssumption
    <3>2. WaitInv(s)'
      BY <2>2, <3>1 DEF WaitInv, NothingSent, PromptBehind, PromptOnTheWay
    <3>3. QED
      BY <1>1, <3>2
  <2>4. CASE /\ ~HasPrompt(SubSeq(down[s], 1, n)) /\ UNCHANGED sent
             /\ page' = [page EXCEPT ![s] = Append(@, Shell(SubSeq(down[s], 1, n)))]
    <3>1. /\ down'[s] = SubSeq(down[s], n + 1, Len(down[s]))
          /\ page'[s] = Append(page[s], Shell(SubSeq(down[s], 1, n)))
      BY <2>1, <2>4 DEF ConsoleTypeOK
    <3>2. down[s] # <<>>
      BY ReadTypes DEF ConsoleTypeOK
    <3>3. shell[s] = "ready" /\ sent[s] = taken[s] =>
            EndsInPrompt(down'[s]) \/ HalfRead(s)' \/ (down'[s] = <<>> /\ Cut(s)')
      BY <2>2, <2>4, <3>1, <3>2, ReadLeaves DEF WaitInv, PromptOnTheWay
    <3>4. WaitInv(s)'
      BY <2>2, <2>4, <3>3 DEF WaitInv, NothingSent, PromptBehind, PromptOnTheWay
    <3>5. QED
      BY <1>1, <3>4
  <2>5. QED
    BY <2>1, <2>3, <2>4
<1>7. QED
  BY <1>2, <1>3, <1>4, <1>5, <1>6 DEF Session

(* So does what the other side does. *)
LEMMA RemoteWaits ==
  ASSUME ConsoleInv, NEW s \in Sessions, Remote(s)
  PROVE  \A t \in Sessions : WaitInv(t)'
<1> USE DEF ConsoleInv
<1>1. \A t \in Sessions \ {s} : WaitInv(t)'
  <2>1. \A t \in Sessions \ {s} :
          /\ phase'[t] = phase[t] /\ shell'[t] = shell[t] /\ sent'[t] = sent[t]
          /\ taken'[t] = taken[t] /\ down'[t] = down[t] /\ page'[t] = page[t]
    BY DEF Remote, SocksAnswers, ShellAnswers, ShellFails, Closes, Prompted, ConsoleTypeOK
  <2>2. QED
    BY <2>1, Untouched
<1>2. CASE SocksAnswers(s)
  <2>1. phase[s] = "reply" /\ UNCHANGED <<phase, sent, taken>>
    BY <1>2 DEF SocksAnswers
  <2>2. \/ shell'[s] = "gone"
        \/ down'[s] = <<Byte("90", 0)>> \o Prompt(0)
    BY <1>2 DEF SocksAnswers, ConsoleTypeOK
  <2>3. CASE shell'[s] = "gone"
    BY <1>1, <2>1, <2>3, NoShell DEF WaitInv
  <2>4. CASE down'[s] = <<Byte("90", 0)>> \o Prompt(0)
    BY <1>1, <2>1, <2>4, Granted
       DEF WaitInv, NothingSent, PromptBehind, PromptOnTheWay
  <2>5. QED
    BY <2>2, <2>3, <2>4
<1>3. CASE ShellAnswers(s)
  <2>1. /\ taken'[s] = taken[s] + 1 /\ taken[s] < sent[s]
        /\ sent[s] \in Nat /\ taken[s] \in Nat /\ taken'[s] \in 0 .. MaxLines
        /\ shell[s] = "ready" /\ UNCHANGED <<phase, sent>>
    BY <1>3, ConsoleAssumption DEF ShellAnswers, ConsoleTypeOK, ConsoleAssumption
  <2>2. taken'[s] <= sent'[s] /\ phase[s] \in {"talk", "over"}
    BY <2>1 DEF WaitInv, NothingSent
  <2>3. CASE Closes(s)
    <3>1. shell'[s] = "gone"
      BY <2>3 DEF Closes, ConsoleTypeOK
    <3>2. QED
      BY <1>1, <2>1, <2>2, <3>1, NoShell
  <2>4. CASE ~Closes(s)
    <3>1. PICK out \in Seq(Chars) : Prompted(s, taken'[s], out)
      <4>1. \/ \E out \in Outputs : Prompted(s, taken'[s], out)
            \/ Prompted(s, taken'[s], <<>>)
        BY <1>3, <2>4 DEF ShellAnswers
      <4>2. <<>> \in Seq(Chars) /\ Outputs \subseteq Seq(Chars)
        BY ConsoleAssumption DEF ConsoleAssumption
      <4>3. QED
        BY <4>1, <4>2
    <3>2. EndsInPrompt(down'[s])
      BY <2>1, <3>1, PromptedLast
    <3>3. WaitInv(s)'
      BY <2>1, <2>2, <3>2 DEF WaitInv, NothingSent, PromptBehind, PromptOnTheWay
    <3>4. QED
      BY <1>1, <3>3
  <2>5. QED
    BY <2>3, <2>4
<1>4. CASE ShellFails(s)
  <2>1. shell'[s] = "gone" /\ shell[s] = "ready" /\ UNCHANGED <<phase, sent, taken>>
    BY <1>4 DEF ShellFails, Closes, ConsoleTypeOK
  <2>2. phase[s] \notin {"idle", "resolve", "connect", "target"}
    BY <2>1 DEF WaitInv, NothingSent
  <2>3. WaitInv(s)'
    BY <2>1, <2>2, NoShell DEF WaitInv
  <2>4. QED
    BY <1>1, <2>3
<1>5. QED
  BY <1>2, <1>3, <1>4 DEF Remote

(* The first state satisfies the invariant. *)
LEMMA ConsoleInitHolds == ConsoleInit => ConsoleInv
BY ConsoleInitTypes
   DEF ConsoleInit, ConsoleInv, WaitInv, NothingSent, PromptBehind, PromptOnTheWay

(* Every step keeps it. *)
LEMMA ConsoleNextHolds == ASSUME ConsoleInv, [ConsoleNext]_cvars PROVE ConsoleInv'
<1>1. ConsoleTypeOK'
  BY ConsoleNextTypes DEF ConsoleInv
<1>2. \A t \in Sessions : WaitInv(t)'
  <2>1. CASE UNCHANGED cvars
    BY <2>1, Untouched DEF ConsoleInv, cvars
  <2>2. CASE Start
    <3>1. \A t \in Sessions : /\ phase[t] = "idle" /\ phase'[t] \in {"resolve", "over"}
                              /\ UNCHANGED <<shell, sent, taken>>
      BY <2>2 DEF Start
    <3>2. QED
      BY <3>1 DEF ConsoleInv, WaitInv, NothingSent, PromptBehind, PromptOnTheWay
  <2>3. CASE Stop
    BY <2>3, IsOver DEF Stop, ConsoleInv
  <2>4. QED
    BY <2>1, <2>2, <2>3, SessionWaits, RemoteWaits DEF ConsoleNext
<1>3. QED
  BY <1>1, <1>2 DEF ConsoleInv

(* The invariant says what is promised. *)
LEMMA ConsoleInvWaits == ConsoleInv => WaitsOnlyIfCut
BY DEF ConsoleInv, WaitInv, PromptOnTheWay, WaitsOnlyIfCut, BothWait, EndsInPrompt, HalfRead

(* The console and a shell wait for each other only after a prompt that two
   reads have cut, whatever the files, the outputs and the buffer. *)
THEOREM NoMutualWait == ConsoleSpec => []WaitsOnlyIfCut
<1>1. ConsoleInv /\ [ConsoleNext]_cvars => ConsoleInv'
  BY ConsoleNextHolds
<1>2. QED
  BY <1>1, ConsoleInitHolds, ConsoleInvWaits, PTL DEF ConsoleSpec

-----------------------------------------------------------------------------
(* The order of the page. *)

(* The reads with a prompt, and the command of a line, before entry i. *)
PromptsIn(p, i) == {j \in 1 .. i - 1 : p[j].is = "shell" /\ HasPrompt(p[j].data)}
ToldIn(p, i, k) ==
    \E j \in {h \in 1 .. i - 1 : p[h].is = "command"} : p[j].line = k

(* PageInOrder, of one entry. *)
InOrder(p, i) ==
    \/ /\ p[i].is = "command" /\ p[i].line <= Cardinality(PromptsIn(p, i))
       /\ \A k \in 1 .. p[i].line - 1 : ToldIn(p, i, k)
    \/ /\ p[i].is = "shell"
       /\ \A b \in DOMAIN p[i].data : p[i].data[b].of > 0 => ToldIn(p, i, p[i].data[b].of)

\* Every byte is about line k at the latest.
UpTo(d, k) == \A i \in DOMAIN d : d[i].of <= k

(* A page has a read with a prompt for each line sent, and the command of every
   line that the shell has executed; of all that have been sent, until the
   shell has gone.  What is on its way is about lines that were executed. *)
OrderInv(s) ==
    LET n == Len(page[s]) + 1 IN
    /\ \A i \in DOMAIN page[s] : InOrder(page[s], i)
    /\ UpTo(down[s], taken[s])
    /\ \A k \in 1 .. taken[s] : ToldIn(page[s], n, k)
    /\ shell[s] # "gone" => \A k \in 1 .. sent[s] : ToldIn(page[s], n, k)
    /\ Cardinality(PromptsIn(page[s], n)) = sent[s]

PagesInv == ConsoleInv /\ \A s \in Sessions : OrderInv(s)

(* What follows on a page leaves the order of what was there as it is. *)
LEMMA Longer ==
  ASSUME NEW p \in Seq(Entries), NEW q \in Seq(Entries), Len(p) <= Len(q),
         \A i \in 1 .. Len(p) : q[i] = p[i]
  PROVE  /\ \A i \in 1 .. Len(p) + 1 :
               /\ PromptsIn(q, i) = PromptsIn(p, i)
               /\ \A k : ToldIn(p, i, k) => ToldIn(q, i, k) /\ ToldIn(q, Len(q) + 1, k)
         /\ \A i \in 1 .. Len(p) : InOrder(p, i) => InOrder(q, i)
<1>1. Len(p) \in Nat /\ Len(q) \in Nat
  OBVIOUS
<1>2. ASSUME NEW i \in 1 .. Len(p) + 1
      PROVE  /\ PromptsIn(q, i) = PromptsIn(p, i)
             /\ \A k : ToldIn(p, i, k) => ToldIn(q, i, k) /\ ToldIn(q, Len(q) + 1, k)
  <2>1. \A j \in 1 .. i - 1 : q[j] = p[j] /\ j \in 1 .. (Len(q) + 1) - 1
    BY <1>1
  <2>2. PromptsIn(q, i) = PromptsIn(p, i)
    BY <2>1 DEF PromptsIn
  <2>3. \A k : ToldIn(p, i, k) => ToldIn(q, i, k) /\ ToldIn(q, Len(q) + 1, k)
    BY <2>1 DEF ToldIn
  <2>4. QED
    BY <2>2, <2>3
<1>3. ASSUME NEW i \in 1 .. Len(p), InOrder(p, i)
      PROVE  InOrder(q, i)
  <2>1. i \in 1 .. Len(p) + 1 /\ q[i] = p[i]
    BY <1>1
  <2>2. PromptsIn(q, i) = PromptsIn(p, i) /\ \A k : ToldIn(p, i, k) => ToldIn(q, i, k)
    BY <1>2, <2>1
  <2>3. QED
    BY <1>3, <2>1, <2>2 DEF InOrder
<1>4. QED
  BY <1>2, <1>3

(* The reads with a prompt are finitely many. *)
LEMMA PromptsFinite ==
  ASSUME NEW p \in Seq(Entries)
  PROVE  /\ IsFiniteSet(PromptsIn(p, Len(p) + 1))
         /\ Cardinality(PromptsIn(p, Len(p) + 1)) \in Nat
<1>1. IsFiniteSet(1 .. Len(p))
  BY FS_Interval
<1>2. PromptsIn(p, Len(p) + 1) \in SUBSET (1 .. Len(p))
  BY DEF PromptsIn
<1>3. QED
  BY <1>1, <1>2, FS_Subset, FS_CardinalityType

(* A page with one entry more. *)
LEMMA OneMore ==
  ASSUME NEW p \in Seq(Entries), NEW e \in Entries, NEW q, q = Append(p, e)
  PROVE  /\ q \in Seq(Entries) /\ Len(q) = Len(p) + 1 /\ q[Len(p) + 1] = e
         /\ \A i \in 1 .. Len(p) : q[i] = p[i]
         /\ \A i \in 1 .. Len(q) : i \in 1 .. Len(p) \/ i = Len(p) + 1
OBVIOUS

(* A read that is shown keeps the order if what it tells of has been shown. *)
LEMMA ReadShown ==
  ASSUME NEW p \in Seq(Entries), \A i \in 1 .. Len(p) : InOrder(p, i),
         NEW data, Shell(data) \in Entries,
         \A b \in DOMAIN data : data[b].of > 0 => ToldIn(p, Len(p) + 1, data[b].of),
         NEW q, q = Append(p, Shell(data))
  PROVE  /\ \A i \in 1 .. Len(q) : InOrder(q, i)
         /\ Cardinality(PromptsIn(q, Len(q) + 1)) =
               Cardinality(PromptsIn(p, Len(p) + 1)) + IF HasPrompt(data) THEN 1 ELSE 0
<1>1. /\ q \in Seq(Entries) /\ Len(q) = Len(p) + 1 /\ q[Len(p) + 1] = Shell(data)
      /\ \A i \in 1 .. Len(p) : q[i] = p[i]
      /\ \A i \in 1 .. Len(q) : i \in 1 .. Len(p) \/ i = Len(p) + 1
  BY OneMore
<1>2. Len(p) \in Nat /\ Shell(data).is = "shell" /\ Shell(data).data = data
  BY DEF Shell
<1>3. PICK n : n = Len(p) + 1
  OBVIOUS
<1>4. n \in 1 .. Len(p) + 1 /\ n \notin 1 .. Len(p)
  BY <1>2, <1>3
<1>5. /\ PromptsIn(q, n) = PromptsIn(p, n)
      /\ \A k : ToldIn(p, n, k) => ToldIn(q, n, k)
      /\ \A i \in 1 .. Len(p) : InOrder(q, i)
  <2>1. Len(p) <= Len(q)
    BY <1>1, <1>2
  <2>2. QED
    BY <1>1, <1>4, <2>1, Longer
<1>6. InOrder(q, n)
  BY <1>1, <1>2, <1>3, <1>5 DEF InOrder
<1>7. PromptsIn(q, Len(q) + 1) = IF HasPrompt(data) THEN PromptsIn(p, n) \cup {n}
                                 ELSE PromptsIn(p, n)
  <2>1. 1 .. (Len(q) + 1) - 1 = (1 .. n - 1) \cup {n}
    BY <1>1, <1>2, <1>3
  <2>2. PromptsIn(q, Len(q) + 1) =
          PromptsIn(q, n) \cup {j \in {n} : q[j].is = "shell" /\ HasPrompt(q[j].data)}
    BY <2>1 DEF PromptsIn
  <2>3. q[n].is = "shell" /\ q[n].data = data
    BY <1>1, <1>2, <1>3
  <2>4. CASE HasPrompt(data)
    BY <1>5, <2>2, <2>3, <2>4
  <2>5. CASE ~HasPrompt(data)
    BY <1>5, <2>2, <2>3, <2>5
  <2>6. QED
    BY <2>4, <2>5
<1>8. n \notin PromptsIn(p, n) /\ IsFiniteSet(PromptsIn(p, n))
      /\ Cardinality(PromptsIn(p, n)) \in Nat
  BY <1>2, <1>3, PromptsFinite DEF PromptsIn
<1>9. Cardinality(PromptsIn(p, n) \cup {n}) = Cardinality(PromptsIn(p, n)) + 1
  BY <1>8, FS_AddElement
<1>10. QED
  BY <1>1, <1>3, <1>5, <1>6, <1>7, <1>8, <1>9

(* So does a command, when all before it are shown, and as many prompts. *)
LEMMA CommandShown ==
  ASSUME NEW p \in Seq(Entries), \A i \in 1 .. Len(p) : InOrder(p, i),
         NEW m \in Nat, m <= Cardinality(PromptsIn(p, Len(p) + 1)),
         \A k \in 1 .. m - 1 : ToldIn(p, Len(p) + 1, k),
         NEW q, q = Append(p, Command(m))
  PROVE  /\ \A i \in 1 .. Len(q) : InOrder(q, i)
         /\ PromptsIn(q, Len(q) + 1) = PromptsIn(p, Len(p) + 1)
         /\ ToldIn(q, Len(q) + 1, m)
<1>1. Command(m) \in Entries /\ Command(m).is = "command" /\ Command(m).line = m
  BY DEF Command, Entries
<1>2. /\ q \in Seq(Entries) /\ Len(q) = Len(p) + 1 /\ q[Len(p) + 1] = Command(m)
      /\ \A i \in 1 .. Len(p) : q[i] = p[i]
      /\ \A i \in 1 .. Len(q) : i \in 1 .. Len(p) \/ i = Len(p) + 1
  BY <1>1, OneMore
<1>3. PICK n : n = Len(p) + 1
  OBVIOUS
<1>4. Len(p) \in Nat /\ n \in 1 .. Len(p) + 1 /\ n \in 1 .. Len(q)
  BY <1>2, <1>3
<1>5. /\ PromptsIn(q, n) = PromptsIn(p, n)
      /\ \A k : ToldIn(p, n, k) => ToldIn(q, n, k)
      /\ \A i \in 1 .. Len(p) : InOrder(q, i)
  <2>1. Len(p) <= Len(q)
    BY <1>2, <1>4
  <2>2. QED
    BY <1>2, <1>4, <2>1, Longer
<1>6. InOrder(q, n)
  BY <1>1, <1>2, <1>3, <1>5 DEF InOrder
<1>7. 1 .. (Len(q) + 1) - 1 = (1 .. n - 1) \cup {n}
  BY <1>2, <1>3, <1>4
<1>8. PromptsIn(q, Len(q) + 1) = PromptsIn(p, n)
  <2>1. PromptsIn(q, Len(q) + 1) =
          PromptsIn(q, n) \cup {j \in {n} : q[j].is = "shell" /\ HasPrompt(q[j].data)}
    BY <1>7 DEF PromptsIn
  <2>2. QED
    BY <1>1, <1>2, <1>3, <1>5, <2>1
<1>9. ToldIn(q, Len(q) + 1, m)
  BY <1>1, <1>2, <1>3, <1>7 DEF ToldIn
<1>10. QED
  BY <1>2, <1>3, <1>5, <1>6, <1>8, <1>9

(* Bytes after others; a part of them. *)
LEMMA UpToJoin ==
  ASSUME NEW a \in Seq(Bytes), NEW b \in Seq(Bytes), NEW k, UpTo(a, k), UpTo(b, k)
  PROVE  UpTo(a \o b, k)
<1>1. /\ Len(a) \in Nat /\ Len(b) \in Nat
      /\ Len(a \o b) = Len(a) + Len(b) /\ a \o b \in Seq(Bytes)
      /\ \A i \in 1 .. Len(a) + Len(b) :
            (a \o b)[i] = IF i <= Len(a) THEN a[i] ELSE b[i - Len(a)]
  BY ConcatProperties
<1> DEFINE c == a \o b
<1> HIDE DEF c
<1>2. ASSUME NEW i \in DOMAIN c
      PROVE  c[i].of <= k
  <2>1. i \in 1 .. Len(a) + Len(b)
    BY <1>1 DEF c
  <2>2. i \in 1 .. Len(a) \/ i - Len(a) \in 1 .. Len(b)
    BY <1>1, <2>1
  <2>3. c[i] = a[i] \/ c[i] = b[i - Len(a)]
    BY <1>1, <2>1 DEF c
  <2>4. c[i] = IF i <= Len(a) THEN a[i] ELSE b[i - Len(a)]
    BY <1>1, <2>1 DEF c
  <2>5. CASE i <= Len(a)
    BY <1>1, <2>1, <2>4, <2>5 DEF UpTo
  <2>6. CASE ~(i <= Len(a))
    BY <1>1, <2>1, <2>4, <2>6 DEF UpTo
  <2>7. QED
    BY <2>5, <2>6
<1>3. QED
  BY <1>2 DEF UpTo, c

LEMMA UpToPart ==
  ASSUME NEW d \in Seq(Bytes), NEW k, UpTo(d, k),
         NEW m \in 1 .. Len(d) + 1, NEW n \in 0 .. Len(d)
  PROVE  UpTo(SubSeq(d, m, n), k)
<1> DEFINE c == SubSeq(d, m, n)
<1>1. /\ Len(d) \in Nat /\ c \in Seq(Bytes) /\ Len(c) = IF m <= n THEN n - m + 1 ELSE 0
      /\ \A i \in 1 .. n - m + 1 : c[i] = d[m + i - 1]
  BY PartType
<1> HIDE DEF c
<1>2. ASSUME NEW i \in DOMAIN c
      PROVE  c[i].of <= k
  <2>1. i \in 1 .. Len(c)
    BY <1>1
  <2>2. i \in 1 .. n - m + 1
    BY <1>1, <2>1
  <2>3. PICK j : j = m + i - 1
    OBVIOUS
  <2>4. j \in DOMAIN d
    BY <1>1, <2>2, <2>3
  <2>5. c[i] = d[j]
    BY <1>1, <2>2, <2>3
  <2>6. QED
    BY <2>4, <2>5 DEF UpTo
<1>3. QED
  BY <1>2 DEF UpTo, c

(* What the shell writes for a line is about that line. *)
LEMMA PromptedUpTo ==
  ASSUME ConsoleTypeOK, NEW s \in Sessions, NEW k \in 0 .. MaxLines,
         NEW out \in Seq(Chars), Prompted(s, k, out), UpTo(down[s], k)
  PROVE  UpTo(down'[s], k)
<1> DEFINE text == [i \in DOMAIN out |-> Byte(out[i], k)]
           before == down[s] \o text
<1>1. k \in Nat /\ \A c : Byte(c, k).of = k
  BY ConsoleAssumption DEF Byte
<1>2. text \in Seq(Bytes) /\ UpTo(text, k)
  <2>1. \A i \in 1 .. Len(out) : Byte(out[i], k) \in Bytes
    BY ByteType
  <2>2. DOMAIN out = 1 .. Len(out) /\ Len(out) \in Nat
    OBVIOUS
  <2>3. text \in Seq(Bytes)
    BY <2>1, <2>2
  <2>4. UpTo(text, k)
    BY <1>1, <2>2 DEF UpTo
  <2>5. QED
    BY <2>3, <2>4
<1>3. down[s] \in Seq(Bytes)
  BY DEF ConsoleTypeOK
<1> HIDE DEF text
<1>4. before \in Seq(Bytes) /\ UpTo(before, k)
  BY <1>2, <1>3, UpToJoin
<1>5. down' = [down EXCEPT ![s] = before \o Prompt(k)]
  BY DEF Prompted, text
<1> HIDE DEF before
<1>6. Prompt(k) \in Seq(Bytes) /\ UpTo(Prompt(k), k)
  <2>1. \A i \in {1, 2} : Prompt(k)[i].of = k
    BY <1>1 DEF Prompt
  <2>2. DOMAIN Prompt(k) = {1, 2}
    BY DEF Prompt
  <2>3. QED
    BY <1>1, <2>1, <2>2, PromptType DEF UpTo
<1>7. UpTo(before \o Prompt(k), k)
  BY <1>4, <1>6, UpToJoin
<1>8. QED
  BY <1>5, <1>7 DEF ConsoleTypeOK

(* A session whose page and lines a step leaves alone. *)
LEMMA SameOrder ==
  ASSUME NEW t \in Sessions, OrderInv(t), sent'[t] = sent[t], taken'[t] = taken[t],
         page'[t] = page[t], shell'[t] \in {shell[t], "gone"} \/ sent[t] = 0,
         taken[t] = 0 \/ taken[t] \in Nat, UpTo(down'[t], taken[t])
  PROVE  OrderInv(t)'
<1>1. \A k \in 1 .. 0 : FALSE
  OBVIOUS
<1>2. QED
  BY <1>1 DEF OrderInv

(* A read takes bytes off, and shows them, with the command that answers. *)
LEMMA ReadOrder ==
  ASSUME ConsoleInv, NEW s \in Sessions, OrderInv(s), Read(s)
  PROVE  OrderInv(s)'
<1> USE DEF ConsoleInv
<1>1. PICK n \in Readable(s) :
        /\ down'[s] = SubSeq(down[s], n + 1, Len(down[s]))
        /\ \/ /\ ~HasPrompt(SubSeq(down[s], 1, n)) /\ sent'[s] = sent[s]
              /\ page'[s] = Append(page[s], Shell(SubSeq(down[s], 1, n)))
           \/ /\ HasPrompt(SubSeq(down[s], 1, n)) /\ sent'[s] = sent[s] + 1
              /\ \/ /\ NoneFailed(s)
                    /\ page'[s] = page[s] \o Exchange(SubSeq(down[s], 1, n), sent'[s])
                 \/ /\ shell[s] = "gone"
                    /\ page'[s] = Append(page[s], Shell(SubSeq(down[s], 1, n)))
  BY DEF Read, MayFail, ConsoleTypeOK
<1>2. taken'[s] = taken[s] /\ shell'[s] = shell[s]
  BY DEF Read
<1> DEFINE p == page[s]
<1>3. PICK data : data = SubSeq(down[s], 1, n)
  OBVIOUS
<1>4. /\ p \in Seq(Entries) /\ down[s] \in Seq(Bytes) /\ n \in 1 .. Len(down[s])
      /\ Shell(data) \in Entries /\ sent[s] \in Nat /\ taken[s] \in Nat
      /\ Len(p) \in Nat /\ Len(down[s]) \in Nat
  BY <1>3, ReadTypes, ConsoleAssumption DEF ConsoleTypeOK
<1>5. UpTo(down'[s], taken[s]) /\ UpTo(data, taken[s]) /\ data \in Seq(Bytes)
  <2>1. UpTo(down[s], taken[s])
    BY DEF OrderInv
  <2>2. /\ 1 \in 1 .. Len(down[s]) + 1 /\ n \in 0 .. Len(down[s])
        /\ n + 1 \in 1 .. Len(down[s]) + 1 /\ Len(down[s]) \in 0 .. Len(down[s])
    BY <1>4
  <2>3. UpTo(data, taken[s])
    BY <1>3, <1>4, <2>1, <2>2, UpToPart
  <2>4. data \in Seq(Bytes)
    BY <1>3, <1>4, <2>2, PartType
  <2>5. PICK m : m = n + 1
    OBVIOUS
  <2>6. UpTo(SubSeq(down[s], m, Len(down[s])), taken[s])
    BY <1>4, <2>1, <2>2, <2>5, UpToPart
  <2>7. QED
    BY <1>1, <2>3, <2>4, <2>5, <2>6
<1>6. PICK m : m = Len(p) + 1
  OBVIOUS
<1>7. /\ \A i \in 1 .. Len(p) : InOrder(p, i)
      /\ \A k \in 1 .. taken[s] : ToldIn(p, m, k)
      /\ shell[s] # "gone" => \A k \in 1 .. sent[s] : ToldIn(p, m, k)
      /\ Cardinality(PromptsIn(p, m)) = sent[s]
  BY <1>4, <1>6 DEF OrderInv
<1>8. \A b \in DOMAIN data : data[b].of > 0 => ToldIn(p, m, data[b].of)
  <2> SUFFICES ASSUME NEW b \in DOMAIN data, data[b].of > 0 PROVE ToldIn(p, m, data[b].of)
    OBVIOUS
  <2>1. data[b].of \in Nat /\ data[b].of <= taken[s]
    <3>1. data[b] \in Bytes
      BY <1>5
    <3>2. data[b].of \in Nat
      BY <3>1, ConsoleAssumption DEF Bytes
    <3>3. QED
      BY <1>5, <3>2 DEF UpTo
  <2>2. data[b].of \in 1 .. taken[s]
    BY <1>4, <2>1
  <2>3. QED
    BY <1>7, <2>2
<1>9. PICK q : q = Append(p, Shell(data))
  OBVIOUS
<1>10. /\ q \in Seq(Entries) /\ Len(q) = Len(p) + 1 /\ Len(p) <= Len(q)
       /\ \A i \in 1 .. Len(p) : q[i] = p[i]
  BY <1>4, <1>9, OneMore
<1>11. /\ \A i \in 1 .. Len(q) : InOrder(q, i)
       /\ Cardinality(PromptsIn(q, Len(q) + 1)) = sent[s] + IF HasPrompt(data) THEN 1 ELSE 0
  BY <1>4, <1>6, <1>7, <1>8, <1>9, ReadShown
<1>12. \A k : ToldIn(p, m, k) => ToldIn(q, Len(q) + 1, k)
  <2>1. m \in 1 .. Len(p) + 1
    BY <1>4, <1>6
  <2>2. QED
    BY <1>4, <1>10, <2>1, Longer
<1> HIDE DEF p
<1>13. DOMAIN q = 1 .. Len(q)
  BY <1>10
<1>14. CASE page'[s] = q /\ (sent'[s] = sent[s] \/ shell[s] = "gone")
            /\ sent'[s] = sent[s] + IF HasPrompt(data) THEN 1 ELSE 0
  BY <1>2, <1>5, <1>7, <1>11, <1>12, <1>13, <1>14 DEF OrderInv
<1>15. CASE /\ NoneFailed(s) /\ HasPrompt(data) /\ sent'[s] = sent[s] + 1
            /\ page'[s] = p \o Exchange(data, sent'[s])
  <2>1. PICK k : k = sent[s] + 1
    OBVIOUS
  <2>2. PICK r : r = Append(q, Command(k))
    OBVIOUS
  <2>3. Command(k) \in Entries /\ k \in Nat
    BY <1>4, <2>1 DEF Command, Entries
  <2>4. page'[s] = r
    <3>1. PICK x, y : x = Shell(data) /\ y = Command(k)
      OBVIOUS
    <3>2. p \o <<x, y>> = Append(Append(p, x), y)
      BY <1>4, <2>3, <3>1 DEF p
    <3>3. QED
      BY <1>9, <1>15, <2>1, <2>2, <3>1, <3>2 DEF Exchange
  <2>5. \A h \in 1 .. k - 1 : ToldIn(q, Len(q) + 1, h)
    <3>1. \A h \in 1 .. sent[s] : ToldIn(p, m, h)
      <4>1. DOMAIN p = 1 .. m - 1
        BY <1>4, <1>6 DEF p
      <4>2. QED
        BY <1>15, <4>1 DEF NoneFailed, Shown, ToldIn, p
    <3>2. 1 .. k - 1 = 1 .. sent[s]
      BY <1>4, <2>1
    <3>3. QED
      BY <1>12, <3>1, <3>2
  <2>6. Cardinality(PromptsIn(q, Len(q) + 1)) = k /\ k <= Cardinality(PromptsIn(q, Len(q) + 1))
    BY <1>11, <1>15, <2>1, <2>3
  <2>7. /\ \A i \in 1 .. Len(r) : InOrder(r, i)
        /\ PromptsIn(r, Len(r) + 1) = PromptsIn(q, Len(q) + 1)
        /\ ToldIn(r, Len(r) + 1, k)
    BY <1>10, <1>11, <2>2, <2>3, <2>5, <2>6, CommandShown
  <2>8. /\ r \in Seq(Entries) /\ Len(q) <= Len(r) /\ \A i \in 1 .. Len(q) : r[i] = q[i]
    BY <1>10, <2>2, <2>3, OneMore
  <2>9. \A h : ToldIn(q, Len(q) + 1, h) => ToldIn(r, Len(r) + 1, h)
    <3>1. Len(q) + 1 \in 1 .. Len(q) + 1
      BY <1>4, <1>10
    <3>2. QED
      BY <1>10, <2>8, <3>1, Longer
  <2>10. \A h \in 1 .. sent'[s] : ToldIn(r, Len(r) + 1, h)
    <3>1. \A h \in 1 .. k : h = k \/ h \in 1 .. k - 1
      BY <2>3
    <3>2. QED
      BY <1>15, <2>1, <2>5, <2>7, <2>9, <3>1
  <2>11. \A h \in 1 .. taken[s] : ToldIn(r, Len(r) + 1, h)
    BY <1>7, <1>12, <2>9
  <2>12. DOMAIN r = 1 .. Len(r)
    BY <2>8
  <2>13. QED
    BY <1>2, <1>5, <1>15, <2>1, <2>4, <2>6, <2>7, <2>10, <2>11, <2>12 DEF OrderInv
<1>16. /\ \/ ~HasPrompt(data) /\ sent'[s] = sent[s]
          \/ HasPrompt(data) /\ sent'[s] = sent[s] + 1 /\ (NoneFailed(s) \/ shell[s] = "gone")
       /\ \/ page'[s] = q /\ (sent'[s] = sent[s] \/ shell[s] = "gone")
          \/ NoneFailed(s) /\ HasPrompt(data) /\ page'[s] = p \o Exchange(data, sent'[s])
  BY <1>1, <1>3, <1>9 DEF p
<1>17. QED
  BY <1>4, <1>14, <1>15, <1>16

(* A session that a step does not touch keeps its order. *)
LEMMA OrderUntouched ==
  ASSUME ConsoleTypeOK, NEW t \in Sessions, OrderInv(t), shell'[t] \in {shell[t], "gone"},
         sent'[t] = sent[t], taken'[t] = taken[t], down'[t] = down[t], page'[t] = page[t]
  PROVE  OrderInv(t)'
<1>1. UpTo(down'[t], taken[t]) /\ taken[t] \in Nat
  BY ConsoleAssumption DEF OrderInv, ConsoleTypeOK
<1>2. QED
  BY <1>1, SameOrder

(* A session's own step keeps the order, its own and that of the others. *)
LEMMA SessionOrder ==
  ASSUME PagesInv, NEW s \in Sessions, Session(s)
  PROVE  \A t \in Sessions : OrderInv(t)'
<1> USE DEF PagesInv
<1> ConsoleTypeOK
  BY DEF ConsoleInv
<1>1. \A t \in Sessions \ {s} : OrderInv(t)'
  <2>1. \A t \in Sessions \ {s} :
          /\ shell'[t] = shell[t] /\ sent'[t] = sent[t]
          /\ taken'[t] = taken[t] /\ down'[t] = down[t] /\ page'[t] = page[t]
    BY DEF Session, Resolve, Connects, ConnectsSocks, Asks, Fails, ReadsReply, Read,
           ReadEnds, Prompted, ConsoleTypeOK
  <2>2. QED
    BY <2>1, OrderUntouched
<1>2. CASE Resolve(s) \/ ConnectsSocks(s) \/ Asks(s) \/ Fails(s) \/ ReadEnds(s)
  <2>1. UNCHANGED <<shell, sent, taken, down, page>>
    BY <1>2 DEF Resolve, ConnectsSocks, Asks, Fails, ReadEnds
  <2>2. QED
    BY <1>1, <2>1, OrderUntouched
<1>3. CASE Connects(s)
  <2>1. sent[s] = 0 /\ taken[s] = 0
    <3>1. phase[s] = "connect" /\ taken[s] <= sent[s] /\ taken[s] \in Nat
      BY <1>3, ConsoleAssumption DEF Connects, ConsoleInv, WaitInv, ConsoleTypeOK
    <3>2. sent[s] = 0
      BY <3>1 DEF ConsoleInv, WaitInv, NothingSent
    <3>3. QED
      BY <3>1, <3>2
  <2>2. UpTo(down'[s], 0)
    <3>1. <<>> \in Seq(Chars) /\ 0 \in 0 .. MaxLines
      BY ConsoleAssumption DEF ConsoleAssumption
    <3>2. UpTo(down[s], 0)
      BY <2>1 DEF OrderInv
    <3>3. QED
      BY <1>3, <3>1, <3>2, PromptedUpTo DEF Connects
  <2>3. UNCHANGED <<sent, taken, page>>
    BY <1>3 DEF Connects
  <2>4. OrderInv(s)'
    BY <2>1, <2>2, <2>3, SameOrder
  <2>5. QED
    BY <1>1, <2>4
<1>4. CASE ReadsReply(s)
  <2>1. down'[s] = down[s] \/ (down[s] # <<>> /\ down'[s] = Tail(down[s]))
    BY <1>4 DEF ReadsReply, ConsoleTypeOK
  <2>2. UpTo(down[s], taken[s]) /\ down[s] \in Seq(Bytes) /\ taken[s] \in Nat
    BY ConsoleAssumption DEF OrderInv, ConsoleTypeOK
  <2>3. UpTo(down'[s], taken[s])
    <3>1. CASE down'[s] = down[s]
      BY <2>2, <3>1
    <3>2. CASE down[s] # <<>> /\ down'[s] = Tail(down[s])
      <4>1. /\ Len(Tail(down[s])) = Len(down[s]) - 1 /\ Tail(down[s]) \in Seq(Bytes)
            /\ \A i \in 1 .. Len(Tail(down[s])) : Tail(down[s])[i] = down[s][i + 1]
        BY <2>2, <3>2, HeadTailProperties, Zenon
      <4>2. PICK rest : rest = Tail(down[s])
        OBVIOUS
      <4>3. /\ Len(rest) = Len(down[s]) - 1 /\ DOMAIN rest = 1 .. Len(rest)
            /\ \A i \in 1 .. Len(rest) : rest[i] = down[s][i + 1]
        BY <4>1, <4>2
      <4>4. \A i \in 1 .. Len(rest) : i + 1 \in DOMAIN down[s]
        BY <2>2, <4>3
      <4>5. QED
        BY <2>2, <3>2, <4>2, <4>3, <4>4 DEF UpTo
    <3>3. QED
      BY <2>1, <3>1, <3>2
  <2>4. UNCHANGED <<shell, sent, taken, page>>
    BY <1>4 DEF ReadsReply
  <2>5. OrderInv(s)'
    BY <2>2, <2>3, <2>4, SameOrder
  <2>6. QED
    BY <1>1, <2>5
<1>5. CASE Read(s)
  BY <1>1, <1>5, ReadOrder
<1>6. QED
  BY <1>2, <1>3, <1>4, <1>5 DEF Session

(* What is left when a shell closes is a part of what was on its way. *)
LEMMA ClosesUpTo ==
  ASSUME ConsoleTypeOK, NEW s \in Sessions, NEW k, Closes(s), UpTo(down[s], k)
  PROVE  UpTo(down'[s], k) /\ shell'[s] = "gone"
<1>1. PICK n \in 0 .. Len(down[s]) : down' = [down EXCEPT ![s] = SubSeq(@, 1, n)]
  BY DEF Closes
<1>2. down[s] \in Seq(Bytes) /\ 1 \in 1 .. Len(down[s]) + 1
  BY DEF ConsoleTypeOK
<1>3. UpTo(SubSeq(down[s], 1, n), k)
  BY <1>2, UpToPart
<1>4. QED
  BY <1>1, <1>3 DEF Closes, ConsoleTypeOK

(* A shell that executes a line, or closes, keeps the order: the line has been
   shown, since it is ready. *)
LEMMA AnswersOrder ==
  ASSUME ConsoleTypeOK, NEW s \in Sessions, OrderInv(s), ShellAnswers(s)
  PROVE  OrderInv(s)'
<1>1. /\ shell[s] = "ready" /\ taken[s] < sent[s] /\ taken'[s] = taken[s] + 1
      /\ taken'[s] \in 0 .. MaxLines /\ taken[s] \in Nat /\ sent[s] \in Nat
      /\ UNCHANGED <<sent, page>>
  BY ConsoleAssumption DEF ShellAnswers, ConsoleTypeOK, ConsoleAssumption
<1>2. PICK k : k = taken[s] + 1
  OBVIOUS
<1>3. UpTo(down[s], k)
  <2>1. \A i \in DOMAIN down[s] : down[s][i].of \in Nat
    <3>1. down[s] \in Seq(Bytes)
      BY DEF ConsoleTypeOK
    <3>2. \A i \in DOMAIN down[s] : down[s][i] \in Bytes
      BY <3>1
    <3>3. QED
      BY <3>2, ConsoleAssumption DEF Bytes
  <2>2. \A i \in DOMAIN down[s] : down[s][i].of <= taken[s]
    BY DEF OrderInv, UpTo
  <2>3. QED
    BY <1>1, <1>2, <2>1, <2>2 DEF UpTo
<1>4. UpTo(down'[s], k) /\ shell'[s] \in {"ready", "gone"}
  <2>1. CASE Closes(s)
    BY <1>3, <2>1, ClosesUpTo
  <2>2. CASE ~Closes(s)
    <3>1. PICK out \in Seq(Chars) : Prompted(s, k, out)
      <4>1. \/ \E out \in Outputs : Prompted(s, taken'[s], out)
            \/ Prompted(s, taken'[s], <<>>)
        BY <2>2 DEF ShellAnswers
      <4>2. <<>> \in Seq(Chars) /\ Outputs \subseteq Seq(Chars)
        BY ConsoleAssumption DEF ConsoleAssumption
      <4>3. QED
        BY <1>1, <1>2, <4>1, <4>2
    <3>2. k \in 0 .. MaxLines
      BY <1>1, <1>2
    <3>3. UpTo(down'[s], k)
      BY <1>3, <3>1, <3>2, PromptedUpTo
    <3>4. shell'[s] = "ready"
      BY <1>1, <2>2 DEF ShellAnswers
    <3>5. QED
      BY <3>3, <3>4
  <2>3. QED
    BY <2>1, <2>2
<1>5. \A h \in 1 .. k : h \in 1 .. sent[s]
  BY <1>1, <1>2
<1>6. \A h \in 1 .. sent[s] : ToldIn(page[s], Len(page[s]) + 1, h)
  BY <1>1 DEF OrderInv
<1>7. \A h \in 1 .. k : ToldIn(page[s], Len(page[s]) + 1, h)
  BY <1>5, <1>6
<1>8. taken'[s] = k
  BY <1>1, <1>2
<1>9. QED
  BY <1>1, <1>4, <1>6, <1>7, <1>8 DEF OrderInv

(* So does all that the other side does. *)
LEMMA RemoteOrder ==
  ASSUME PagesInv, NEW s \in Sessions, Remote(s)
  PROVE  \A t \in Sessions : OrderInv(t)'
<1> USE DEF PagesInv
<1> ConsoleTypeOK
  BY DEF ConsoleInv
<1>1. \A t \in Sessions \ {s} : OrderInv(t)'
  <2>1. \A t \in Sessions \ {s} :
          /\ shell'[t] = shell[t] /\ sent'[t] = sent[t]
          /\ taken'[t] = taken[t] /\ down'[t] = down[t] /\ page'[t] = page[t]
    BY DEF Remote, SocksAnswers, ShellAnswers, ShellFails, Closes, Prompted, ConsoleTypeOK
  <2>2. QED
    BY <2>1, OrderUntouched
<1>2. CASE SocksAnswers(s)
  <2>1. sent[s] = 0 /\ taken[s] = 0
    <3>1. phase[s] = "reply" /\ taken[s] <= sent[s] /\ taken[s] \in Nat
      BY <1>2, ConsoleAssumption DEF SocksAnswers, ConsoleInv, WaitInv, ConsoleTypeOK
    <3>2. sent[s] = 0
      BY <3>1 DEF ConsoleInv, WaitInv, NothingSent
    <3>3. QED
      BY <3>1, <3>2
  <2>2. UpTo(down'[s], 0)
    <3>1. 0 \in 0 .. MaxLines /\ \A c : Byte(c, 0).of <= 0
      BY ConsoleAssumption DEF ConsoleAssumption, Byte
    <3>2. <<Byte("90", 0)>> \in Seq(Bytes) /\ Prompt(0) \in Seq(Bytes)
      <4>1. Byte("90", 0) \in Bytes
        BY <3>1, ByteType
      <4>2. QED
        BY <3>1, <4>1, PromptType
    <3>3. /\ UpTo(<<Byte("90", 0)>>, 0) /\ UpTo(<<Byte("91", 0)>>, 0) /\ UpTo(<<>>, 0)
      BY <3>1 DEF UpTo
    <3>4. UpTo(Prompt(0), 0)
      BY <3>1 DEF UpTo, Prompt
    <3>5. UpTo(<<Byte("90", 0)>> \o Prompt(0), 0)
      BY <3>2, <3>3, <3>4, UpToJoin
    <3>6. \/ down'[s] = <<Byte("90", 0)>> \o Prompt(0)
          \/ down'[s] \in {<<Byte("90", 0)>>, <<Byte("91", 0)>>, <<>>}
      BY <1>2 DEF SocksAnswers, ConsoleTypeOK
    <3>7. QED
      BY <3>3, <3>5, <3>6
  <2>3. UNCHANGED <<sent, taken, page>>
    BY <1>2 DEF SocksAnswers
  <2>4. OrderInv(s)'
    BY <2>1, <2>2, <2>3, SameOrder
  <2>5. QED
    BY <1>1, <2>4
<1>3. CASE ShellAnswers(s)
  BY <1>1, <1>3, AnswersOrder
<1>4. CASE ShellFails(s)
  <2>1. UpTo(down'[s], taken[s]) /\ shell'[s] = "gone" /\ taken[s] \in Nat
    BY <1>4, ClosesUpTo, ConsoleAssumption DEF ShellFails, OrderInv, ConsoleTypeOK
  <2>2. UNCHANGED <<sent, taken, page>>
    BY <1>4 DEF ShellFails
  <2>3. OrderInv(s)'
    BY <2>1, <2>2, SameOrder
  <2>4. QED
    BY <1>1, <2>3
<1>5. QED
  BY <1>2, <1>3, <1>4 DEF Remote

(* Empty pages are in order. *)
LEMMA PagesInitHolds == ConsoleInit => PagesInv
<1> SUFFICES ASSUME ConsoleInit PROVE PagesInv
  OBVIOUS
<1>1. ASSUME NEW s \in Sessions PROVE OrderInv(s)
  <2>1. page[s] = <<>> /\ down[s] = <<>> /\ sent[s] = 0 /\ taken[s] = 0
    BY DEF ConsoleInit
  <2>2. DOMAIN <<>> = {} /\ Len(<<>>) + 1 = 1 /\ 1 .. 0 = {} /\ 1 .. 1 - 1 = {}
    OBVIOUS
  <2>3. PromptsIn(<<>>, 1) = {} /\ Cardinality({}) = 0
    BY <2>2, FS_EmptySet DEF PromptsIn
  <2>4. QED
    BY <2>1, <2>2, <2>3 DEF OrderInv, UpTo
<1>2. QED
  BY <1>1, ConsoleInitHolds DEF PagesInv

(* Every step keeps them so. *)
LEMMA PagesNextHolds == ASSUME PagesInv, [ConsoleNext]_cvars PROVE PagesInv'
<1>1. ConsoleInv' /\ ConsoleTypeOK
  BY ConsoleNextHolds DEF PagesInv, ConsoleInv
<1>2. \A t \in Sessions : OrderInv(t)'
  <2>1. CASE UNCHANGED cvars
    BY <1>1, <2>1, OrderUntouched DEF PagesInv, cvars
  <2>2. CASE Start
    BY <1>1, <2>2, OrderUntouched DEF Start, PagesInv
  <2>3. CASE Stop
    <3>1. \A t \in Sessions : shell'[t] \in {shell[t], "gone"}
      BY <2>3 DEF Stop
    <3>2. UNCHANGED <<sent, taken, down, page>>
      BY <2>3 DEF Stop
    <3>3. QED
      BY <1>1, <3>1, <3>2, OrderUntouched DEF PagesInv
  <2>4. QED
    BY <2>1, <2>2, <2>3, SessionOrder, RemoteOrder DEF ConsoleNext
<1>3. QED
  BY <1>1, <1>2 DEF PagesInv

(* The invariant says that the pages are in order. *)
LEMMA PagesInvOrder == PagesInv => PageInOrder
<1> SUFFICES ASSUME PagesInv, NEW s \in Sessions, NEW i \in DOMAIN page[s]
             PROVE  \/ /\ page[s][i].is = "command"
                       /\ page[s][i].line <= Cardinality(PromptsIn(page[s], i))
                       /\ \A k \in 1 .. page[s][i].line - 1 : ToldIn(page[s], i, k)
                    \/ /\ page[s][i].is = "shell"
                       /\ \A b \in DOMAIN page[s][i].data :
                             page[s][i].data[b].of > 0 =>
                                ToldIn(page[s], i, page[s][i].data[b].of)
  BY DEF PageInOrder, PromptsIn, ToldIn
<1>1. QED
  BY DEF PagesInv, OrderInv, InOrder

(* The page of a session tells its dialogue in order, whatever the reads
   return, the shell writes and the programs are (read_handler, output_shell and
   output_command; cgi_server's writes that fail included). *)
THEOREM PagesInOrder == ConsoleSpec => []PageInOrder
<1>1. PagesInv /\ [ConsoleNext]_cvars => PagesInv'
  BY PagesNextHolds
<1>2. QED
  BY <1>1, PagesInitHolds, PagesInvOrder, PTL DEF ConsoleSpec
=============================================================================
