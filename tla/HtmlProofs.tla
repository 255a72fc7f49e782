----------------------------- MODULE HtmlProofs -----------------------------
(***************************************************************************)
(* That text is escaped character by character, for texts of any length    *)
(* over any alphabet.  A recursive function is characterised first, then   *)
(* an induction over the length of the text, both from the least number    *)
(* at which they would fail.                                               *)
(***************************************************************************)
EXTENDS Html, SequenceTheorems, WellFoundedInduction, TLAPS

-----------------------------------------------------------------------------
(* Flattening a sequence of sequences. *)

(* A set of numbers with 0 and with the next of each is all of them. *)
LEMMA Induction ==
  ASSUME NEW S, 0 \in S, \A n \in Nat : n \in S => n + 1 \in S
  PROVE  \A n \in Nat : n \in S
<1> DEFINE R == {q \in Nat \X Nat : q[1] < q[2]}
           T == {n \in Nat : n \notin S}
<1>1. SUFFICES ASSUME T # {} PROVE FALSE
  OBVIOUS
<1>2. IsWellFoundedOn(R, Nat)
  BY NatLessThanWellFounded DEF OpToRel
<1>3. PICK x \in T : \A y \in T : <<y, x>> \notin R
  BY <1>1, <1>2, WFMin
<1>4. x \in Nat /\ x # 0 /\ x - 1 \in Nat /\ x - 1 < x
  BY <1>3
<1>5. x - 1 \notin T
  BY <1>3, <1>4
<1>6. x \in S
  BY <1>4, <1>5
<1>7. QED
  BY <1>3, <1>6

(* How far the parts of a text are joined. *)
Joined(q, n) == CHOOSE g : g = [i \in 1 .. n |-> IF i = 1 THEN q[i] ELSE g[i - 1] \o q[i]]

(* The function that FlattenSeq chooses exists, for any number of parts. *)
LEMMA JoinExists ==
  ASSUME NEW q, NEW n \in Nat
  PROVE  \E g : g = [i \in 1 .. n |-> IF i = 1 THEN q[i] ELSE g[i - 1] \o q[i]]
<1> DEFINE S == {m \in Nat : \E g : g = [i \in 1 .. m |-> IF i = 1 THEN q[i] ELSE g[i - 1] \o q[i]]}
<1>1. 0 \in S
  <2>1. <<>> = [i \in 1 .. 0 |-> IF i = 1 THEN q[i] ELSE <<>>[i - 1] \o q[i]]
    OBVIOUS
  <2>2. QED
    BY <2>1
<1>2. ASSUME NEW m \in Nat, m \in S PROVE m + 1 \in S
  <2>1. PICK g : g = [i \in 1 .. m |-> IF i = 1 THEN q[i] ELSE g[i - 1] \o q[i]]
    BY <1>2
  <2> DEFINE h == [i \in 1 .. m + 1 |->
                     IF i = m + 1 THEN (IF i = 1 THEN q[i] ELSE g[i - 1] \o q[i]) ELSE g[i]]
  <2>2. \A i \in 1 .. m : h[i] = g[i]
    OBVIOUS
  <2>3. ASSUME NEW i \in 1 .. m + 1
        PROVE  h[i] = IF i = 1 THEN q[i] ELSE h[i - 1] \o q[i]
    <3>1. CASE i = 1 /\ i = m + 1
      BY <3>1
    <3>2. CASE i = 1 /\ i # m + 1
      <4>1. i \in 1 .. m BY <3>2
      <4>2. QED BY <4>1, <2>1, <2>2, <3>2
    <3>3. CASE i # 1 /\ i = m + 1
      <4>1. i - 1 \in 1 .. m BY <3>3
      <4>2. h[i - 1] = g[i - 1] BY <4>1, <2>2
      <4>3. h[i] = g[i - 1] \o q[i] BY <3>3
      <4>4. QED BY <4>2, <4>3, <3>3
    <3>4. CASE i # 1 /\ i # m + 1
      <4>1. i \in 1 .. m /\ i - 1 \in 1 .. m BY <3>4
      <4>2. g[i] = g[i - 1] \o q[i] BY <4>1, <2>1, <3>4
      <4>3. h[i] = g[i] /\ h[i - 1] = g[i - 1] BY <4>1, <2>2
      <4>4. QED BY <4>2, <4>3, <3>4
    <3>5. QED BY <3>1, <3>2, <3>3, <3>4
  <2> HIDE DEF h
  <2>4. h = [i \in 1 .. m + 1 |-> h[i]]
    BY DEF h
  <2>5. h = [i \in 1 .. m + 1 |-> IF i = 1 THEN q[i] ELSE h[i - 1] \o q[i]]
    BY <2>3, <2>4
  <2>6. \E f : f = [i \in 1 .. m + 1 |-> IF i = 1 THEN q[i] ELSE f[i - 1] \o q[i]]
    BY <2>5
  <2>7. m + 1 \in Nat
    OBVIOUS
  <2>8. QED
    BY <2>6, <2>7
<1> HIDE DEF S
<1>3. \A m \in Nat : m \in S
  BY <1>1, <1>2, Induction
<1>4. QED
  BY <1>3 DEF S

(* So what is chosen is that function. *)
LEMMA JoinedIs ==
  ASSUME NEW q, NEW n \in Nat
  PROVE  Joined(q, n) = [i \in 1 .. n |-> IF i = 1 THEN q[i] ELSE Joined(q, n)[i - 1] \o q[i]]
BY JoinExists DEF Joined

(* One more part is joined to those before it. *)
LEMMA JoinedAt ==
  ASSUME NEW q, NEW n \in Nat, NEW i \in 1 .. n
  PROVE  Joined(q, n)[i] = IF i = 1 THEN q[i] ELSE Joined(q, n)[i - 1] \o q[i]
<1> DEFINE g == Joined(q, n)
<1>1. g = [j \in 1 .. n |-> IF j = 1 THEN q[j] ELSE g[j - 1] \o q[j]]
  BY JoinedIs
<1> HIDE DEF g
<1>2. g[i] = IF i = 1 THEN q[i] ELSE g[i - 1] \o q[i]
  BY <1>1
<1>3. QED
  BY <1>2 DEF g

(* FlattenSeq is what has been joined when the last part is. *)
LEMMA FlattenIs ==
  ASSUME NEW q
  PROVE  FlattenSeq(q) = IF Len(q) = 0 THEN q ELSE Joined(q, Len(q))[Len(q)]
BY DEF FlattenSeq, Joined

(* What is joined of sequences over V is a sequence over V. *)
LEMMA JoinedType ==
  ASSUME NEW V, NEW q \in Seq(Seq(V)), NEW n \in Nat, n <= Len(q)
  PROVE  \A i \in 1 .. n : Joined(q, n)[i] \in Seq(V)
<1> DEFINE S == {m \in Nat : m \in 1 .. n => Joined(q, n)[m] \in Seq(V)}
<1>1. 0 \in S
  OBVIOUS
<1>2. ASSUME NEW m \in Nat, m \in S PROVE m + 1 \in S
  <2>1. SUFFICES ASSUME m + 1 \in 1 .. n PROVE Joined(q, n)[m + 1] \in Seq(V)
    OBVIOUS
  <2>2. q[m + 1] \in Seq(V)
    BY <2>1
  <2>3. Joined(q, n)[m + 1] =
          IF m + 1 = 1 THEN q[m + 1] ELSE Joined(q, n)[m + 1 - 1] \o q[m + 1]
    BY <2>1, JoinedAt
  <2>4. CASE m = 0
    BY <2>2, <2>3, <2>4
  <2>5. CASE m # 0
    <3>1. m \in 1 .. n /\ m + 1 - 1 = m /\ m + 1 # 1
      BY <2>1, <2>5
    <3>2. Joined(q, n)[m] \in Seq(V)
      BY <1>2, <3>1
    <3>3. Joined(q, n)[m + 1] = Joined(q, n)[m] \o q[m + 1]
      BY <2>3, <3>1
    <3>4. QED
      BY <2>2, <3>2, <3>3
  <2>6. QED
    BY <2>4, <2>5
<1> HIDE DEF S
<1>3. \A m \in Nat : m \in S
  BY <1>1, <1>2, Induction
<1>4. QED
  BY <1>3 DEF S

(* A part more does not change what is joined before it. *)
LEMMA JoinedSame ==
  ASSUME NEW p, NEW q, NEW k \in Nat, NEW n \in Nat, n <= k,
         \A i \in 1 .. n : p[i] = q[i], NEW j \in 1 .. n
  PROVE  Joined(p, k)[j] = Joined(q, n)[j]
<1> DEFINE S == {m \in Nat : m \in 1 .. n => Joined(p, k)[m] = Joined(q, n)[m]}
<1>1. 0 \in S
  OBVIOUS
<1>2. ASSUME NEW m \in Nat, m \in S PROVE m + 1 \in S
  <2>1. SUFFICES ASSUME m + 1 \in 1 .. n PROVE Joined(p, k)[m + 1] = Joined(q, n)[m + 1]
    OBVIOUS
  <2>2. Joined(q, n)[m + 1] =
          IF m + 1 = 1 THEN q[m + 1] ELSE Joined(q, n)[m + 1 - 1] \o q[m + 1]
    BY <2>1, JoinedAt
  <2>3. m + 1 \in 1 .. k
    BY <2>1
  <2>4. Joined(p, k)[m + 1] =
          IF m + 1 = 1 THEN p[m + 1] ELSE Joined(p, k)[m + 1 - 1] \o p[m + 1]
    BY <2>3, JoinedAt
  <2>5. CASE m = 0
    BY <2>1, <2>2, <2>4, <2>5
  <2>6. CASE m # 0
    <3>1. m \in 1 .. n /\ m + 1 - 1 = m /\ m + 1 # 1
      BY <2>1, <2>6
    <3>2. Joined(p, k)[m] = Joined(q, n)[m]
      BY <1>2, <3>1
    <3>3. QED
      BY <2>1, <2>2, <2>4, <3>1, <3>2
  <2>7. QED
    BY <2>5, <2>6
<1> HIDE DEF S
<1>3. \A m \in Nat : m \in S
  BY <1>1, <1>2, Induction
<1>4. QED
  BY <1>3 DEF S

(* Sequences over V are flattened to a sequence over V. *)
LEMMA FlattenType ==
  ASSUME NEW V, NEW q \in Seq(Seq(V))
  PROVE  FlattenSeq(q) \in Seq(V)
<1>1. CASE Len(q) = 0
  <2>1. FlattenSeq(q) = q /\ q = <<>>
    BY <1>1, FlattenIs
  <2>2. QED
    BY <2>1
<1>2. CASE Len(q) # 0
  <2>1. Len(q) \in Nat /\ Len(q) \in 1 .. Len(q)
    BY <1>2
  <2>2. Joined(q, Len(q))[Len(q)] \in Seq(V)
    BY <2>1, JoinedType
  <2>3. QED
    BY <1>2, <2>2, FlattenIs
<1>3. QED
  BY <1>1, <1>2

(* A part more is a part more of what is flattened. *)
LEMMA FlattenNext ==
  ASSUME NEW V, NEW q \in Seq(Seq(V)), NEW x \in Seq(V)
  PROVE  FlattenSeq(Append(q, x)) = FlattenSeq(q) \o x
<1> DEFINE p == Append(q, x)
           n == Len(q)
<1>1. n \in Nat /\ Len(p) = n + 1 /\ p[n + 1] = x /\ \A i \in 1 .. n : p[i] = q[i]
  OBVIOUS
<1> HIDE DEF p
<1>2. Joined(p, n + 1)[n + 1] =
        IF n + 1 = 1 THEN p[n + 1] ELSE Joined(p, n + 1)[n + 1 - 1] \o p[n + 1]
  <2>1. n + 1 \in Nat /\ n + 1 \in 1 .. n + 1
    BY <1>1
  <2>2. QED
    BY <2>1, JoinedAt
<1>3. FlattenSeq(p) = Joined(p, n + 1)[n + 1]
  BY <1>1, FlattenIs
<1>4. CASE n = 0
  <2>1. FlattenSeq(q) = <<>>
    BY <1>4, FlattenIs
  <2>2. FlattenSeq(p) = x
    BY <1>1, <1>2, <1>3, <1>4
  <2>3. <<>> \o x = x
    OBVIOUS
  <2>4. QED
    BY <2>1, <2>2, <2>3 DEF p
<1>5. CASE n # 0
  <2>1. n \in 1 .. n /\ n + 1 - 1 = n /\ n + 1 # 1 /\ n + 1 \in Nat /\ n <= n + 1
    BY <1>1, <1>5
  <2> HIDE DEF n
  <2>2. Joined(p, n + 1)[n] = Joined(q, n)[n]
    BY <1>1, <2>1, JoinedSame
  <2>3. FlattenSeq(q) = Joined(q, n)[n]
    BY <1>5, FlattenIs DEF n
  <2>4. QED
    BY <1>1, <1>2, <1>3, <2>1, <2>2, <2>3 DEF p
<1>6. QED
  BY <1>4, <1>5

-----------------------------------------------------------------------------
(* Replacing is done character by character. *)

Parts(text, c, by) == [i \in DOMAIN text |-> IF text[i] = c THEN by ELSE <<text[i]>>]

(* What a replacement writes for each character is a sequence. *)
LEMMA PartsType ==
  ASSUME NEW V, NEW text \in Seq(V), NEW c, NEW by \in Seq(V)
  PROVE  Parts(text, c, by) \in Seq(Seq(V)) /\ Len(Parts(text, c, by)) = Len(text)
<1>1. ASSUME NEW i \in 1 .. Len(text)
      PROVE  (IF text[i] = c THEN by ELSE <<text[i]>>) \in Seq(V)
  <2>1. text[i] \in V
    OBVIOUS
  <2>2. <<text[i]>> \in Seq(V)
    BY <2>1
  <2>3. QED
    BY <2>2
<1>2. DOMAIN text = 1 .. Len(text) /\ Len(text) \in Nat
  OBVIOUS
<1> DEFINE W == Seq(V)
<1>3. Parts(text, c, by) \in [1 .. Len(text) -> W]
  BY <1>1, <1>2 DEF Parts
<1> HIDE DEF W
<1>4. Parts(text, c, by) \in Seq(W) /\ Len(Parts(text, c, by)) = Len(text)
  BY <1>2, <1>3
<1>5. QED
  BY <1>4 DEF W

(* A sequence that is another with one element more. *)
LEMMA AppendIs ==
  ASSUME NEW W, NEW q \in Seq(W), NEW y \in W, NEW p \in Seq(W), Len(p) = Len(q) + 1,
         p[Len(q) + 1] = y, \A i \in 1 .. Len(q) : p[i] = q[i]
  PROVE  p = Append(q, y)
<1>1. Append(q, y) \in Seq(W) /\ Len(Append(q, y)) = Len(q) + 1
  OBVIOUS
<1>2. ASSUME NEW i \in 1 .. Len(q) + 1 PROVE p[i] = Append(q, y)[i]
  OBVIOUS
<1>3. QED
  BY <1>1, <1>2, SeqEqual


(* The strings of the texts; what they are made of is seen in these lemmas alone. *)
Letters == {"&", ";", "a", "e", "g", "i", "l", "m", "n", "o", "p", "q", "s", "t", "u",
            "w", "L", "N"}
Later == {"\"", "'", "<", ">", "\n", "\r"}
Special == {"&"} \cup Later
Symbols == Alphabet \cup Letters \cup Later
Strings == Seq(Symbols)
None == <<>>
One(x) == <<x>>
Add(s, x) == Append(s, x)
Cat(s, t) == s \o t
Lacks(t, c) == \A i \in 1 .. Len(t) : t[i] # c
Replace(s, c, by) == ReplaceEach(s, c, by)

(* Putting one string, or one character, behind another. *)
LEMMA CatIs ==
  ASSUME NEW r \in Strings, NEW v \in Strings, NEW x \in Symbols
  PROVE  /\ Add(v, x) \in Strings /\ Cat(r, v) \in Strings /\ One(x) \in Strings
         /\ Cat(r, Add(v, x)) = Add(Cat(r, v), x)
         /\ Cat(Cat(r, v), One(x)) = Cat(r, Add(v, x))
         /\ Cat(r, One(x)) = Add(r, x)
<1> HIDE DEF Symbols
<1>1. QED
  BY DEF Strings, Add, Cat, One

(* The empty string. *)
LEMMA NoneIs ==
  /\ None \in Strings
  /\ \A r \in Strings : Cat(r, None) = r /\ Len(r) \in Nat /\ (Len(r) = 0 => r = None)
BY DEF Strings, None, Cat

(* A string that is not empty is another with one character more. *)
LEMMA LastApart ==
  ASSUME NEW u \in Strings, NEW m \in Nat, Len(u) = m + 1
  PROVE  \E v \in Strings : \E x \in Symbols : Len(v) = m /\ u = Add(v, x)
<1> DEFINE v == SubSeq(u, 1, m)
           x == u[m + 1]
<1> HIDE DEF Symbols
<1>1. u \in Seq(Symbols)
  BY DEF Strings
<1>2. v \in Seq(Symbols) /\ Len(v) = m /\ x \in Symbols /\ \A i \in 1 .. m : u[i] = v[i]
  BY <1>1
<1>3. u = Append(v, x)
  BY <1>1, <1>2, AppendIs
<1>4. QED
  BY <1>2, <1>3 DEF Strings, Add

(* What has none of a character has none in its parts. *)
LEMMA LacksLast ==
  ASSUME NEW v \in Strings, NEW x \in Symbols, NEW c, Lacks(Add(v, x), c)
  PROVE  Lacks(v, c) /\ x # c
<1> HIDE DEF Symbols
<1>1. v \in Seq(Symbols)
  BY DEF Strings
<1>2. /\ Len(Append(v, x)) = Len(v) + 1 /\ Len(v) \in Nat
      /\ Append(v, x)[Len(v) + 1] = x /\ \A i \in 1 .. Len(v) : Append(v, x)[i] = v[i]
  BY <1>1
<1>3. QED
  BY <1>2 DEF Lacks, Add

(* A replacement makes a string of a string. *)
LEMMA ReplaceType ==
  ASSUME NEW text \in Strings, NEW c, NEW by \in Strings
  PROVE  Replace(text, c, by) \in Strings
<1> HIDE DEF Symbols
<1>1. text \in Seq(Symbols) /\ by \in Seq(Symbols)
  BY DEF Strings
<1>2. Parts(text, c, by) \in Seq(Seq(Symbols))
  BY <1>1, PartsType
<1>3. FlattenSeq(Parts(text, c, by)) \in Seq(Symbols)
  BY <1>2, FlattenType
<1>4. QED
  BY <1>3 DEF Replace, ReplaceEach, Parts, Strings

(* There is nothing to replace in the empty string. *)
LEMMA ReplaceNone ==
  ASSUME NEW c, NEW by
  PROVE  ReplaceEach(<<>>, c, by) = <<>>
<1>1. Parts(<<>>, c, by) = <<>>
  BY DEF Parts
<1>2. QED
  BY <1>1, FlattenIs DEF ReplaceEach, Parts

(* A character more is replaced, or kept, behind what is made of those before. *)
LEMMA ReplaceNext ==
  ASSUME NEW text \in Strings, NEW x \in Symbols, NEW c, NEW by \in Strings
  PROVE  Replace(Add(text, x), c, by) = Cat(Replace(text, c, by), IF x = c THEN by ELSE One(x))
<1> HIDE DEF Symbols
<1> DEFINE y == IF x = c THEN by ELSE <<x>>
           W == Seq(Symbols)
           longer == Append(text, x)
           p == Parts(longer, c, by)
           q == Parts(text, c, by)
<1>1. text \in Seq(Symbols) /\ by \in Seq(Symbols)
  BY DEF Strings
<1>2. y \in W
  BY <1>1
<1>3. /\ longer \in Seq(Symbols) /\ Len(longer) = Len(text) + 1 /\ Len(text) \in Nat
      /\ longer[Len(text) + 1] = x /\ \A i \in 1 .. Len(text) : longer[i] = text[i]
      /\ DOMAIN text = 1 .. Len(text) /\ DOMAIN longer = 1 .. Len(text) + 1
  BY <1>1
<1>4. q \in Seq(W) /\ Len(q) = Len(text)
  BY <1>1, PartsType
<1> HIDE DEF longer
<1>5. p \in Seq(W) /\ Len(p) = Len(text) + 1
  BY <1>1, <1>3, PartsType
<1>6. p[Len(text) + 1] = y
  BY <1>3 DEF Parts
<1>7. \A i \in 1 .. Len(text) : p[i] = q[i]
  BY <1>3 DEF Parts
<1> HIDE DEF y, W, p, q
<1>8. p = Append(q, y)
  BY <1>2, <1>4, <1>5, <1>6, <1>7, AppendIs
<1>9. FlattenSeq(Append(q, y)) = FlattenSeq(q) \o y
  BY <1>2, <1>4, FlattenNext DEF W
<1>10. Replace(Add(text, x), c, by) = FlattenSeq(p) /\ Replace(text, c, by) = FlattenSeq(q)
  BY DEF Replace, ReplaceEach, Parts, Add, p, q, longer
<1>11. QED
  BY <1>8, <1>9, <1>10 DEF Cat, One, y

(* What has none of the character is left alone, behind whatever it stands. *)
LEMMA ReplaceTail ==
  ASSUME NEW c, NEW by \in Strings, NEW s \in Strings, NEW t \in Strings, Lacks(t, c)
  PROVE  Replace(Cat(s, t), c, by) = Cat(Replace(s, c, by), t)
<1> DEFINE r == Replace(s, c, by)
           S == {m \in Nat : \A u \in Strings : Len(u) = m /\ Lacks(u, c) =>
                    Replace(Cat(s, u), c, by) = Cat(r, u)}
<1>1. r \in Strings
  BY ReplaceType
<1>2. 0 \in S
  <2>1. ASSUME NEW u \in Strings, Len(u) = 0
        PROVE  Replace(Cat(s, u), c, by) = Cat(r, u)
    BY <1>1, <2>1, NoneIs
  <2>2. QED
    BY <2>1
<1>3. ASSUME NEW m \in Nat, m \in S PROVE m + 1 \in S
  <2>1. ASSUME NEW u \in Strings, Len(u) = m + 1, Lacks(u, c)
        PROVE  Replace(Cat(s, u), c, by) = Cat(r, u)
    <3>1. PICK v \in Strings, x \in Symbols : Len(v) = m /\ u = Add(v, x)
      BY <2>1, LastApart
    <3>2. Lacks(v, c) /\ x # c
      BY <2>1, <3>1, LacksLast
    <3>3. Replace(Cat(s, v), c, by) = Cat(r, v)
      BY <1>3, <3>1, <3>2
    <3>4. Cat(s, u) = Add(Cat(s, v), x) /\ Cat(s, v) \in Strings
      BY <3>1, CatIs
    <3>5. Replace(Add(Cat(s, v), x), c, by) = Cat(Cat(r, v), One(x))
      BY <3>2, <3>3, <3>4, ReplaceNext
    <3>6. Cat(Cat(r, v), One(x)) = Cat(r, u)
      BY <1>1, <3>1, CatIs
    <3>7. QED
      BY <3>4, <3>5, <3>6
  <2>2. m + 1 \in Nat
    OBVIOUS
  <2>3. QED
    BY <2>1, <2>2
<1>4. Len(t) \in Nat
  BY NoneIs
<1> HIDE DEF S
<1>5. \A m \in Nat : m \in S
  BY <1>2, <1>3, Induction
<1>6. QED
  BY <1>4, <1>5 DEF S

-----------------------------------------------------------------------------
(* The seven replacements. *)

(* A special character becomes an entity of harmless letters, another stays. *)
LEMMA EntityIs ==
  ASSUME NEW x
  PROVE  /\ x \in Special => Entity(x) \in Seq(Letters)
         /\ x \notin Special => Entity(x) = One(x)
<1>1. /\ Amp \in Seq(Letters) /\ Quot \in Seq(Letters) /\ Apos \in Seq(Letters)
      /\ Lt \in Seq(Letters) /\ Gt \in Seq(Letters) /\ NewLine \in Seq(Letters)
      /\ <<>> \in Seq(Letters)
  BY DEF Amp, Quot, Apos, Lt, Gt, NewLine, Letters
<1>2. QED
  BY <1>1 DEF Entity, Later, Special, One

(* Entities are written without the characters that are replaced later. *)
LEMMA SpecialChars == Special \subseteq Symbols /\ Letters \subseteq Symbols \ Later
BY DEF Special, Symbols, Letters, Later

(* An entity holds none of the characters that are replaced later. *)
LEMMA EntityType ==
  ASSUME NEW x \in Symbols
  PROVE  /\ Entity(x) \in Strings /\ Entity(x) \in Seq(Symbols \ Later)
         /\ x \in Special => \A c \in Later : Lacks(Entity(x), c)
<1> HIDE DEF Symbols, Later, Letters, Special
<1>1. ASSUME NEW s \in Seq(Letters)
      PROVE  s \in Seq(Symbols) /\ s \in Seq(Symbols \ Later) /\ \A c \in Later : Lacks(s, c)
  BY SpecialChars DEF Lacks
<1>2. CASE x \in Special
  BY <1>1, <1>2, EntityIs DEF Strings
<1>3. CASE x \notin Special
  <2>1. x \notin Later
    BY <1>3 DEF Special
  <2>2. <<x>> \in Seq(Symbols) /\ <<x>> \in Seq(Symbols \ Later)
    BY <2>1
  <2>3. QED
    BY <1>3, <2>2, EntityIs DEF Strings, One
<1>4. QED
  BY <1>2, <1>3

(* One of them, and what is written for a character when those of D are replaced. *)
Step(s, c) == ReplaceEach(s, c, Entity(c))
Written(x, D) == IF x \in D THEN Entity(x) ELSE <<x>>
Also(D, c) == D \cup {c}
Comes(c, D) == /\ c \in Special \ D /\ D \subseteq Special
               /\ D = {} \/ c \in Later

(* A character is not another. *)
LEMMA LacksOther ==
  ASSUME NEW x, NEW c, x # c
  PROVE  Lacks(One(x), c)
BY DEF Lacks, One

(* A character already replaced is left alone, its own becomes the entity, and *)
(* another stays.                                                              *)
LEMMA Stage ==
  ASSUME NEW s \in Strings, NEW x \in Symbols, NEW c, NEW D, Comes(c, D)
  PROVE  Step(Cat(s, Written(x, D)), c) = Cat(Step(s, c), Written(x, Also(D, c)))
<1> HIDE DEF Symbols, Later, Letters, Special
<1>1. c \in Symbols /\ Entity(c) \in Strings /\ One(x) \in Strings /\ Entity(x) \in Strings
  BY SpecialChars, EntityType, CatIs DEF Comes
<1>2. CASE x \in D
  <2>1. Lacks(Entity(x), c)
    BY <1>2, EntityType DEF Comes
  <2>2. Replace(Cat(s, Entity(x)), c, Entity(c)) = Cat(Replace(s, c, Entity(c)), Entity(x))
    BY <1>1, <2>1, ReplaceTail
  <2>3. QED
    BY <1>2, <2>2 DEF Step, Written, Replace, Also
<1>3. CASE x = c
  <2>1. Cat(s, One(x)) = Add(s, x)
    BY <1>1, CatIs
  <2>2. Replace(Add(s, x), c, Entity(c)) = Cat(Replace(s, c, Entity(c)), Entity(c))
    BY <1>1, <1>3, ReplaceNext
  <2>3. QED
    BY <1>3, <2>1, <2>2 DEF Step, Written, Replace, Also, Comes, One
<1>4. CASE x \notin D /\ x # c
  <2>1. Replace(Cat(s, One(x)), c, Entity(c)) = Cat(Replace(s, c, Entity(c)), One(x))
    BY <1>1, <1>4, LacksOther, ReplaceTail
  <2>2. QED
    BY <1>4, <2>1 DEF Step, Written, Replace, Also, One
<1>5. QED
  BY <1>2, <1>3, <1>4

(* One of the seven makes a string of a string. *)
LEMMA StepType ==
  ASSUME NEW s \in Strings, NEW c \in Special
  PROVE  Step(s, c) \in Strings
<1> HIDE DEF Symbols, Special
<1>1. Entity(c) \in Strings
  BY SpecialChars, EntityType
<1>2. QED
  BY <1>1, ReplaceType DEF Step, Replace

(* replace() is the seven, one after the other. *)
LEMMA ReplacedSteps ==
  ASSUME NEW s
  PROVE  Replaced(s) = Step(Step(Step(Step(Step(Step(Step(
           s, "&"), "\""), "'"), "<"), ">"), "\n"), "\r")
<1>1. /\ Entity("&") = Amp /\ Entity("\"") = Quot /\ Entity("'") = Apos /\ Entity("<") = Lt
      /\ Entity(">") = Gt /\ Entity("\n") = NewLine /\ Entity("\r") = <<>>
  BY DEF Entity
<1>2. QED
  BY <1>1 DEF Replaced, Step

(* A character more in the text is its entity more in the page. *)
LEMMA ReplacedNext ==
  ASSUME NEW text \in Strings, NEW x \in Symbols
  PROVE  Replaced(Add(text, x)) = Cat(Replaced(text), Entity(x))
<1> DEFINE D1 == Also({}, "&")
           D2 == Also(D1, "\"")
           D3 == Also(D2, "'")
           D4 == Also(D3, "<")
           D5 == Also(D4, ">")
           D6 == Also(D5, "\n")
           D7 == Also(D6, "\r")
           s1 == Step(text, "&")
           s2 == Step(s1, "\"")
           s3 == Step(s2, "'")
           s4 == Step(s3, "<")
           s5 == Step(s4, ">")
           s6 == Step(s5, "\n")
           s7 == Step(s6, "\r")
<1>1. /\ Comes("&", {}) /\ Comes("\"", D1) /\ Comes("'", D2) /\ Comes("<", D3)
      /\ Comes(">", D4) /\ Comes("\n", D5) /\ Comes("\r", D6)
  BY DEF Comes, Also, Later, Special
<1>2. /\ "&" \in Special /\ "\"" \in Special /\ "'" \in Special /\ "<" \in Special
      /\ ">" \in Special /\ "\n" \in Special /\ D7 = Special
  BY DEF Also, Later, Special
<1>3. Add(text, x) = Cat(text, Written(x, {}))
  BY CatIs DEF Written, One
<1>4. Step(Cat(text, Written(x, {})), "&") = Cat(s1, Written(x, D1))
  BY <1>1, Stage
<1>5. s1 \in Strings
  BY <1>2, StepType
<1> HIDE DEF D1, s1
<1>6. Step(Cat(s1, Written(x, D1)), "\"") = Cat(s2, Written(x, D2))
  BY <1>1, <1>5, Stage
<1>7. s2 \in Strings
  BY <1>2, <1>5, StepType
<1> HIDE DEF D2, s2
<1>8. Step(Cat(s2, Written(x, D2)), "'") = Cat(s3, Written(x, D3))
  BY <1>1, <1>7, Stage
<1>9. s3 \in Strings
  BY <1>2, <1>7, StepType
<1> HIDE DEF D3, s3
<1>10. Step(Cat(s3, Written(x, D3)), "<") = Cat(s4, Written(x, D4))
  BY <1>1, <1>9, Stage
<1>11. s4 \in Strings
  BY <1>2, <1>9, StepType
<1> HIDE DEF D4, s4
<1>12. Step(Cat(s4, Written(x, D4)), ">") = Cat(s5, Written(x, D5))
  BY <1>1, <1>11, Stage
<1>13. s5 \in Strings
  BY <1>2, <1>11, StepType
<1> HIDE DEF D5, s5
<1>14. Step(Cat(s5, Written(x, D5)), "\n") = Cat(s6, Written(x, D6))
  BY <1>1, <1>13, Stage
<1>15. s6 \in Strings
  BY <1>2, <1>13, StepType
<1> HIDE DEF D6, s6
<1>16. Step(Cat(s6, Written(x, D6)), "\r") = Cat(s7, Written(x, D7))
  BY <1>1, <1>15, Stage
<1>17. Written(x, D7) = Entity(x)
  BY <1>2, EntityIs DEF Written, One
<1>18. Replaced(text) = s7
  BY ReplacedSteps DEF s1, s2, s3, s4, s5, s6
<1> HIDE DEF D7, s7
<1>19. Replaced(Add(text, x)) = Cat(s7, Written(x, D7))
  BY <1>3, <1>4, <1>6, <1>8, <1>10, <1>12, <1>14, <1>16, ReplacedSteps
<1>20. QED
  BY <1>17, <1>18, <1>19

Entities(text) == [i \in DOMAIN text |-> Entity(text[i])]

(* The entities of a text are strings, without the characters that would end
   the script's string. *)
LEMMA EntitiesType ==
  ASSUME NEW text \in Seq(Symbols)
  PROVE  /\ Entities(text) \in Seq(Seq(Symbols)) /\ Len(Entities(text)) = Len(text)
         /\ Entities(text) \in Seq(Seq(Symbols \ Later))
<1> DEFINE W == Seq(Symbols)
           U == Seq(Symbols \ Later)
<1> HIDE DEF Symbols, Later
<1>1. ASSUME NEW i \in 1 .. Len(text) PROVE Entity(text[i]) \in W /\ Entity(text[i]) \in U
  <2>1. text[i] \in Symbols
    OBVIOUS
  <2>2. QED
    BY <2>1, EntityType DEF Strings
<1>2. DOMAIN text = 1 .. Len(text) /\ Len(text) \in Nat
  OBVIOUS
<1> HIDE DEF W, U
<1>3. Entities(text) \in [1 .. Len(text) -> W] /\ Entities(text) \in [1 .. Len(text) -> U]
  BY <1>1, <1>2 DEF Entities
<1>4. Entities(text) \in Seq(W) /\ Entities(text) \in Seq(U) /\ Len(Entities(text)) = Len(text)
  BY <1>2, <1>3
<1>5. QED
  BY <1>4 DEF W, U

(* The same, said of sequences. *)
LEMMA EntitiesNextSeq ==
  ASSUME NEW text \in Seq(Symbols), NEW x \in Symbols
  PROVE  FlattenSeq(Entities(Append(text, x))) = FlattenSeq(Entities(text)) \o Entity(x)
<1> HIDE DEF Symbols
<1> DEFINE y == Entity(x)
           W == Seq(Symbols)
           longer == Append(text, x)
           p == Entities(longer)
           q == Entities(text)
<1>1. /\ longer \in Seq(Symbols) /\ Len(longer) = Len(text) + 1 /\ Len(text) \in Nat
      /\ longer[Len(text) + 1] = x /\ \A i \in 1 .. Len(text) : longer[i] = text[i]
      /\ DOMAIN text = 1 .. Len(text) /\ DOMAIN longer = 1 .. Len(text) + 1
  OBVIOUS
<1>2. q \in Seq(W) /\ Len(q) = Len(text)
  BY EntitiesType
<1> HIDE DEF longer
<1>3. p \in Seq(W) /\ Len(p) = Len(text) + 1
  BY <1>1, EntitiesType
<1>4. p[Len(text) + 1] = y
  BY <1>1 DEF Entities
<1>5. \A i \in 1 .. Len(text) : p[i] = q[i]
  BY <1>1 DEF Entities
<1> HIDE DEF y, W, p, q
<1>6. y \in W
  <2>1. Len(text) + 1 \in 1 .. Len(p) /\ Len(p) \in Nat
    BY <1>1, <1>3
  <2>2. QED
    BY <1>3, <1>4, <2>1
<1>7. p = Append(q, y)
  BY <1>2, <1>3, <1>4, <1>5, <1>6, AppendIs
<1>8. FlattenSeq(Append(q, y)) = FlattenSeq(q) \o y
  BY <1>2, <1>6, FlattenNext DEF W
<1>9. QED
  BY <1>7, <1>8 DEF y, p, q, longer

(* The entities of a text with one character more. *)
LEMMA EntitiesNext ==
  ASSUME NEW text \in Strings, NEW x \in Symbols
  PROVE  FlattenSeq(Entities(Add(text, x))) = Cat(FlattenSeq(Entities(text)), Entity(x))
<1> HIDE DEF Symbols
<1>1. text \in Seq(Symbols)
  BY DEF Strings
<1>2. QED
  BY <1>1, EntitiesNextSeq DEF Add, Cat

(* replace() is the entity of each character, in a text of any length. *)
LEMMA ReplacedIs ==
  ASSUME NEW text \in Strings
  PROVE  Replaced(text) = FlattenSeq(Entities(text))
<1> DEFINE S == {m \in Nat : \A u \in Strings : Len(u) = m => Replaced(u) = FlattenSeq(Entities(u))}
<1>1. 0 \in S
  <2>1. Replaced(<<>>) = <<>>
    BY ReplaceNone DEF Replaced
  <2>2. FlattenSeq(Entities(<<>>)) = <<>>
    <3>1. Entities(<<>>) = <<>>
      BY DEF Entities
    <3>2. QED
      BY <3>1, FlattenIs
  <2>3. \A u \in Strings : Len(u) = 0 => u = <<>>
    BY NoneIs DEF None
  <2>4. QED
    BY <2>1, <2>2, <2>3
<1>2. ASSUME NEW m \in Nat, m \in S PROVE m + 1 \in S
  <2>1. ASSUME NEW u \in Strings, Len(u) = m + 1
        PROVE  Replaced(u) = FlattenSeq(Entities(u))
    <3>1. PICK v \in Strings, x \in Symbols : Len(v) = m /\ u = Add(v, x)
      BY <2>1, LastApart
    <3>2. Replaced(v) = FlattenSeq(Entities(v))
      BY <1>2, <3>1
    <3>3. QED
      BY <3>1, <3>2, ReplacedNext, EntitiesNext
  <2>2. m + 1 \in Nat
    OBVIOUS
  <2>3. QED
    BY <2>1, <2>2
<1>3. Len(text) \in Nat
  BY NoneIs DEF None
<1> HIDE DEF S
<1>4. \A m \in Nat : m \in S
  BY <1>1, <1>2, Induction
<1>5. QED
  BY <1>3, <1>4 DEF S

(* The seven replacements of replace() never touch what an earlier one has written,
   whatever the characters of the text and however long it is: each character
   becomes its own entity, and no quote, end of line or tag is left
   (console.cpp replace). *)
THEOREM EntityForEach == EachItsEntity
<1>1. SUFFICES ASSUME NEW text \in Texts
      PROVE  /\ Replaced(text) = FlattenSeq([i \in DOMAIN text |-> Entity(text[i])])
             /\ \A i \in DOMAIN Replaced(text) : Replaced(text)[i] \notin {"'", "\n", "<"}
  BY DEF EachItsEntity
<1> HIDE DEF Symbols, Later
<1>2. text \in Strings
  <2>1. PICK n \in 0 .. MaxText : text \in [1 .. n -> Alphabet]
    BY DEF Texts
  <2>2. n \in Nat /\ text \in [1 .. n -> Symbols]
    BY <2>1 DEF Symbols
  <2>3. QED
    BY <2>2 DEF Strings
<1>3. Replaced(text) = FlattenSeq(Entities(text))
  BY <1>2, ReplacedIs
<1>4. Replaced(text) \in Seq(Symbols \ Later)
  <2>1. Entities(text) \in Seq(Seq(Symbols \ Later))
    BY <1>2, EntitiesType DEF Strings
  <2>2. QED
    BY <1>3, <2>1, FlattenType
<1>5. \A i \in DOMAIN Replaced(text) : Replaced(text)[i] \notin Later
  BY <1>4
<1>6. QED
  BY <1>3, <1>5 DEF Entities, Later
=============================================================================
