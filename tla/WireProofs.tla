------------------------------ MODULE WireProofs ------------------------------
(* The bytes between server and client, for every number of values of a byte: how
   numbers are written and read, and that messages come through a connection.    *)
EXTENDS Frames, Codec, Search, SequenceTheorems, FiniteSetTheorems, TLAPS

IsSequence(s) == \E S : s \in Seq(S)

(* Values of a byte. *)
Octet == 0..Radix - 1

-----------------------------------------------------------------------------
(* Numbers *)

(* Induction over a set of numbers: a set with zero and every successor is all of Nat.
   (Had it a gap, one of the intervals from zero to a gap would be smallest.)   *)
LEMMA SetInduction ==
    ASSUME NEW T \in SUBSET Nat, 0 \in T, \A n \in T : n + 1 \in T
    PROVE  \A n \in Nat : n \in T
<1> DEFINE B == {n \in Nat : n \notin T}
           I == {0..n : n \in B}
<1>1. SUFFICES ASSUME NEW b \in Nat, b \notin T PROVE FALSE
  OBVIOUS
<1>2. \A n \in Nat : IsFiniteSet(0..n)
  BY FS_Interval
<1>3. I \subseteq FiniteSubsetsOf(Nat)
  BY <1>2 DEF FiniteSubsetsOf
<1>4. 0..b \in I
  BY <1>1
<1>5. PICK X \in I : \A Y \in I : ~ (<<Y, X>> \in StrictSubsetOrdering(Nat))
  <2> HIDE DEF I
  <2>1. I # {}
    BY <1>4
  <2>2. IsWellFoundedOn(StrictSubsetOrdering(Nat), FiniteSubsetsOf(Nat))
    BY FS_StrictSubsetOrderingWellFounded
  <2>3. QED BY <1>3, <2>1, <2>2, WFMin
<1>6. PICK n \in B : X = 0..n
  BY <1>5
<1>7. n \in Nat /\ n \notin T /\ n # 0 /\ n - 1 \in Nat /\ (n - 1) + 1 = n
  BY <1>6
<1>8. n - 1 \notin T
  BY <1>7
<1>9. 0..(n-1) \in I
  BY <1>7, <1>8
<1>10. 0..(n-1) \subseteq 0..n /\ n \in 0..n /\ n \notin 0..(n-1)
  BY <1>7
<1>11. 0..(n-1) \in SUBSET Nat /\ 0..n \in SUBSET Nat
  BY <1>7
<1>12. <<0..(n-1), 0..n>> \in StrictSubsetOrdering(Nat)
  BY <1>10, <1>11 DEF StrictSubsetOrdering
<1>13. QED BY <1>5, <1>6, <1>9, <1>12

(* The same up to a number, for whatever set. *)
LEMMA UpTo ==
    ASSUME NEW n \in Nat, NEW T, 0 \in T, \A k \in 0..(n - 1) : k \in T => k + 1 \in T
    PROVE  \A k \in 0..n : k \in T
<1> DEFINE U == {k \in Nat : k <= n => k \in T}
<1>1. 0 \in U
  OBVIOUS
<1>2. ASSUME NEW k \in U PROVE k + 1 \in U
  <2>1. k + 1 <= n => k \in 0..(n - 1) /\ k \in T
    BY <1>2
  <2>2. QED BY <2>1
<1>3. U \in SUBSET Nat
  OBVIOUS
<1> HIDE DEF U
<1>4. \A k \in Nat : k \in U
  BY <1>1, <1>2, <1>3, SetInduction
<1>5. QED BY <1>4 DEF U

(* A function may be defined step by step. *)
LEMMA Recursion ==
    ASSUME NEW S, NEW b \in S, NEW n \in Nat, NEW step \in [1..n -> [S -> S]]
    PROVE  \E f \in [0..n -> S] :
               f = [i \in 0..n |-> IF i = 0 THEN b ELSE step[i][f[i - 1]]]
<1> DEFINE Means(f, k) == /\ f \in [0..k -> S]
                          /\ f[0] = b
                          /\ \A i \in 1..k : f[i] = step[i][f[i - 1]]
           T == {k \in Nat : \E f : Means(f, k)}
<1>1. 0 \in T
  <2>1. Means([i \in 0..0 |-> b], 0)
    OBVIOUS
  <2>2. QED BY <2>1
<1>2. ASSUME NEW k \in 0..(n - 1), k \in T PROVE k + 1 \in T
  <2>1. PICK f : Means(f, k)
    BY <1>2
  <2> DEFINE g == [i \in 0..(k + 1) |-> IF i = k + 1 THEN step[k + 1][f[k]] ELSE f[i]]
  <2>2. /\ k \in Nat /\ k + 1 \in 1..n /\ f[k] \in S
        /\ g[k + 1] = step[k + 1][f[k]] /\ \A i \in 0..k : g[i] = f[i] /\ f[i] \in S
    BY <1>2, <2>1
  <2>3. step[k + 1][f[k]] \in S
    BY <2>2
  <2>4. g \in [0..(k + 1) -> S]
    <3>1. ASSUME NEW i \in 0..(k + 1), i # k + 1 PROVE f[i] \in S
      <4>1. i \in 0..k
        BY <2>2, <3>1
      <4>2. QED BY <2>2, <4>1
    <3>2. QED BY <2>3, <3>1
  <2>5. g[0] = b
    BY <2>1, <2>2
  <2>6. ASSUME NEW i \in 1..(k + 1) PROVE g[i] = step[i][g[i - 1]]
    <3> HIDE DEF g
    <3>1. CASE i = k + 1
      <4>1. i - 1 = k /\ k \in 0..k
        BY <2>2, <3>1
      <4>2. QED BY <2>2, <3>1, <4>1
    <3>2. CASE i # k + 1
      <4>1. i \in 1..k /\ i \in 0..k /\ i - 1 \in 0..k
        BY <2>2, <3>2
      <4>2. QED BY <2>1, <2>2, <4>1
    <3>3. QED BY <3>1, <3>2
  <2> HIDE DEF g
  <2>7. Means(g, k + 1)
    BY <2>4, <2>5, <2>6
  <2>8. QED BY <2>2, <2>7
<1>3. n \in T
  <2> HIDE DEF T
  <2>1. \A k \in 0..n : k \in T
    BY <1>1, <1>2, UpTo
  <2>2. QED BY <2>1
<1>4. PICK f : Means(f, n)
  BY <1>3
<1>5. QED BY <1>4

(* One byte more, and there are Radix times as many numbers. *)
LEMMA SpanFacts ==
    /\ Span(0) = 1
    /\ \A n \in Nat : Span(n) \in Nat \ {0} /\ Span(n + 1) = Radix * Span(n)
<1> DEFINE IsSpan(f, n) == f = [i \in 0..n |-> IF i = 0 THEN 1 ELSE Radix * f[i - 1]]
<1>1. ASSUME NEW n \in Nat PROVE \E f : IsSpan(f, n)
  <2> DEFINE S    == Nat \ {0}
             step == [i \in 1..n |-> [x \in S |-> Radix * x]]
  <2>1. step \in [1..n -> [S -> S]] /\ 1 \in S
    BY RadixAssumption
  <2> HIDE DEF S, step
  <2>2. PICK f \in [0..n -> S] : f = [i \in 0..n |-> IF i = 0 THEN 1 ELSE step[i][f[i - 1]]]
    BY <2>1, Recursion
  <2>3. ASSUME NEW i \in 1..n PROVE step[i][f[i - 1]] = Radix * f[i - 1]
    <3>1. i - 1 \in 0..n
      OBVIOUS
    <3>2. f[i - 1] \in S
      BY <2>2, <3>1
    <3>3. QED BY <3>2 DEF step
  <2>4. f = [i \in 0..n |-> IF i = 0 THEN 1 ELSE Radix * f[i - 1]]
    BY <2>2, <2>3
  <2>5. QED BY <2>4
<1>2. ASSUME NEW n \in Nat PROVE \E f : IsSpan(f, n) /\ Span(n) = f[n]
  BY <1>1 DEF Span
<1> HIDE DEF IsSpan
<1>3. ASSUME NEW f, NEW n \in Nat, IsSpan(f, n)
      PROVE  f[0] = 1 /\ \A i \in 1..n : f[i] = Radix * f[i - 1]
  BY <1>3 DEF IsSpan
<1>4. ASSUME NEW n \in Nat, NEW f, IsSpan(f, n), NEW g, IsSpan(g, n + 1)
      PROVE  f[n] = g[n] /\ f[n] \in Nat \ {0}
  <2> DEFINE T == {k \in 0..n : f[k] = g[k] /\ f[k] \in Nat \ {0}}
  <2>1. 0 \in T
    BY <1>3, <1>4
  <2>2. ASSUME NEW k \in 0..(n - 1), k \in T PROVE k + 1 \in T
    <3>1. k + 1 \in 1..n /\ k + 1 \in 1..(n + 1) /\ (k + 1) - 1 = k
      BY <2>2
    <3>2. f[k + 1] = Radix * f[k] /\ g[k + 1] = Radix * g[k]
      BY <1>3, <1>4, <3>1
    <3>3. Radix * f[k] \in Nat \ {0}
      BY <2>2, RadixAssumption
    <3>4. QED BY <2>2, <3>1, <3>2, <3>3
  <2>3. n \in T
    <3> HIDE DEF T
    <3>1. \A k \in 0..n : k \in T
      BY <2>1, <2>2, UpTo
    <3>2. QED BY <3>1
  <2>4. QED BY <2>3
<1>5. Span(0) = 1
  BY <1>2, <1>3
<1>6. ASSUME NEW n \in Nat PROVE Span(n) \in Nat \ {0} /\ Span(n + 1) = Radix * Span(n)
  <2>1. PICK f : IsSpan(f, n) /\ Span(n) = f[n]
    BY <1>2
  <2>2. PICK g : IsSpan(g, n + 1) /\ Span(n + 1) = g[n + 1]
    BY <1>2
  <2>3. f[n] = g[n] /\ f[n] \in Nat \ {0}
    BY <1>4, <2>1, <2>2
  <2>4. n + 1 \in 1..(n + 1) /\ (n + 1) - 1 = n
    OBVIOUS
  <2>5. g[n + 1] = Radix * g[n]
    BY <1>3, <2>2, <2>4
  <2>6. QED BY <2>1, <2>2, <2>3, <2>5
<1>7. QED BY <1>5, <1>6

(* Arithmetic of one byte more. *)
LEMMA ByteMore ==
    ASSUME NEW n \in Nat, NEW m \in Nat \ {0}
    PROVE  /\ (n \div m) % Radix \in Octet
           /\ (n % m) + ((n \div m) % Radix) * m = n % (Radix * m)
<1>1. Radix \in Nat \ {0}
  BY RadixAssumption
<1>2. (n \div m) % Radix \in Octet
  BY <1>1 DEF Octet
<1>3. \A r \in Nat \ {0} : (n % m) + ((n \div m) % r) * m = n % (r * m)
  OBVIOUS
<1>4. QED BY <1>1, <1>2, <1>3

(* What is written of a number in some bytes is read from them: the number, as far as
   it fits (encoding/binary, serializer.cpp).                                   *)
LEMMA NumberBack ==
    ASSUME NEW n \in Nat, NEW width \in Nat
    PROVE  /\ LittleEndian(n, width) \in Seq(Octet) /\ Len(LittleEndian(n, width)) = width
           /\ Number(LittleEndian(n, width)) = n % Span(width)
<1> DEFINE s == LittleEndian(n, width)
<1>1. \A i \in 0..width : Span(i) \in Nat \ {0}
  BY SpanFacts
<1>2. \A i \in 1..width : s[i] = (n \div Span(i - 1)) % Radix /\ s[i] \in Octet
  <2> SUFFICES ASSUME NEW i \in 1..width
               PROVE  s[i] = (n \div Span(i - 1)) % Radix /\ s[i] \in Octet
    OBVIOUS
  <2>1. s[i] = (n \div Span(i - 1)) % Radix
    BY DEF LittleEndian
  <2>2. Span(i - 1) \in Nat \ {0}
    BY <1>1
  <2>3. QED BY <2>1, <2>2, ByteMore
<1>3. s \in Seq(Octet) /\ Len(s) = width
  <2>1. s = [i \in 1..width |-> s[i]]
    BY DEF LittleEndian
  <2> HIDE DEF s
  <2>2. QED BY <1>2, <2>1
<1> HIDE DEF s
<1> DEFINE h == [i \in 0..width |-> n % Span(i)]
<1>4. h = [i \in 0..width |-> IF i = 0 THEN 0 ELSE h[i - 1] + s[i] * Span(i - 1)]
  <2>1. ASSUME NEW i \in 1..width PROVE h[i] = h[i - 1] + s[i] * Span(i - 1)
    <3>1. i - 1 \in 0..width /\ i \in 0..width /\ i - 1 \in Nat /\ (i - 1) + 1 = i
      OBVIOUS
    <3>2. Span(i - 1) \in Nat \ {0} /\ Span(i) = Radix * Span(i - 1)
      BY <3>1, SpanFacts
    <3>3. (n % Span(i - 1)) + ((n \div Span(i - 1)) % Radix) * Span(i - 1) = n % Span(i)
      BY <3>2, ByteMore
    <3>4. QED BY <1>2, <3>1, <3>3
  <2>2. h[0] = 0
    BY SpanFacts
  <2>3. \A i \in 0..width : h[i] = IF i = 0 THEN 0 ELSE h[i - 1] + s[i] * Span(i - 1)
    <3> SUFFICES ASSUME NEW i \in 0..width
                 PROVE  h[i] = IF i = 0 THEN 0 ELSE h[i - 1] + s[i] * Span(i - 1)
      OBVIOUS
    <3>1. i # 0 => i \in 1..width
      OBVIOUS
    <3> HIDE DEF h
    <3>2. QED BY <2>1, <2>2, <3>1
  <2>4. h = [i \in 0..width |-> h[i]]
    OBVIOUS
  <2> HIDE DEF h
  <2>5. QED BY <2>3, <2>4
<1>5. \E f : /\ Number(s) = f[width]
             /\ f = [i \in 0..width |-> IF i = 0 THEN 0 ELSE f[i - 1] + s[i] * Span(i - 1)]
  <2> DEFINE Is(f, k) == f = [i \in 0..k |-> IF i = 0 THEN 0 ELSE f[i - 1] + s[i] * Span(i - 1)]
  <2>1. \E f : Is(f, Len(s))
    <3> HIDE DEF h
    <3>1. QED BY <1>3, <1>4
  <2>2. \E f : Number(s) = f[Len(s)] /\ Is(f, Len(s))
    BY <2>1 DEF Number
  <2>3. QED BY <1>3, <2>2
<1>6. PICK f : /\ Number(s) = f[width]
               /\ f = [i \in 0..width |-> IF i = 0 THEN 0 ELSE f[i - 1] + s[i] * Span(i - 1)]
  BY <1>5
<1>7. f[width] = h[width]
  <2> DEFINE T == {k \in 0..width : f[k] = h[k]}
  <2>1. 0 \in T
    <3>1. 0 \in 0..width
      OBVIOUS
    <3> HIDE DEF h
    <3>2. h[0] = 0
      BY <1>4, <3>1
    <3>3. f[0] = 0
      BY <1>6, <3>1
    <3>4. QED BY <3>1, <3>2, <3>3
  <2>2. ASSUME NEW k \in 0..(width - 1), k \in T PROVE k + 1 \in T
    <3>1. k + 1 \in 0..width /\ k + 1 # 0 /\ (k + 1) - 1 = k
      BY <2>2
    <3> HIDE DEF h
    <3>2. f[k + 1] = f[k] + s[k + 1] * Span(k)
      BY <1>6, <3>1
    <3>3. h[k + 1] = h[k] + s[k + 1] * Span(k)
      BY <1>4, <3>1
    <3>4. QED BY <2>2, <3>1, <3>2, <3>3
  <2>3. width \in T
    <3> HIDE DEF T
    <3>1. \A k \in 0..width : k \in T
      BY <2>1, <2>2, UpTo
    <3>2. QED BY <3>1
  <2>4. QED BY <2>3
<1>8. QED BY <1>3, <1>6, <1>7 DEF s

-----------------------------------------------------------------------------
(* Frames *)

Message == [instruction : 0..Limit - 1, data : Seq(Octet)]

(* The length of such a message fits into its two bytes. *)
Fit(m) == m \in Message /\ Len(m.data) + 4 < Limit

(* What a receiver finds in front of it is what it has read, what is on the way, and
   what the sender has yet to write.                                            *)
Stream == got \o wire \o pending

(* The stream is the frames of the messages behind the first ones, one behind the
   other; e tells where each of them ends.                                      *)
Cut(e, stream, messages, first) ==
    /\ e \in [first..Len(messages) -> Nat]
    /\ e[first] = 0 /\ e[Len(messages)] = Len(stream)
    /\ \A i, k \in first..Len(messages) : i <= k => e[i] <= e[k]
    /\ \A i \in first + 1..Len(messages) :
          /\ e[i] = e[i - 1] + Len(Pack(messages[i]))
          /\ \A j \in 1..Len(Pack(messages[i])) : stream[e[i - 1] + j] = Pack(messages[i])[j]

FramesInv ==
    /\ crowded \in BOOLEAN
    /\ ~ crowded =>
        /\ sent \in Seq(Message) /\ \A i \in 1..Len(sent) : Fit(sent[i])
        /\ received \in Seq(Message) /\ Len(received) <= Len(sent)
        /\ \A i \in 1..Len(received) : received[i] = sent[i]
        /\ got \in Seq(Octet) /\ wire \in Seq(Octet) /\ pending \in Seq(Octet)
        /\ waiting = << >> /\ (sender = "client" => pending = << >>)
        /\ ~ broken
        /\ Len(got) <= 2 \/ Len(got) <= Length(got)
        /\ \E e : Cut(e, Stream, sent, Len(received))

(* One sequence behind another. *)
LEMMA Behind ==
    ASSUME NEW S, NEW s \in Seq(S), NEW t \in Seq(S)
    PROVE  /\ s \o t \in Seq(S) /\ Len(s) \in Nat /\ Len(t) \in Nat
           /\ Len(s \o t) = Len(s) + Len(t)
           /\ \A i \in 1..Len(s) : (s \o t)[i] = s[i]
           /\ \A i \in 1..Len(t) : (s \o t)[Len(s) + i] = t[i]
  OBVIOUS

(* Two bytes carry any number below the limit. *)
LEMMA TwoBytes ==
    ASSUME NEW n \in 0..Limit - 1
    PROVE  Uint16(n) \in Seq(Octet) /\ Len(Uint16(n)) = 2 /\ Number(Uint16(n)) = n
<1>1. Limit \in Nat /\ Limit = Span(2)
  <2>1. 2 \in Nat
    OBVIOUS
  <2>2. QED BY <2>1, SpanFacts DEF Limit
<1>2. n \in Nat /\ n % Span(2) = n
  BY <1>1
<1>3. QED BY <1>2, NumberBack DEF Uint16

(* The length is read off the first two bytes. *)
LEMMA LengthOfTwo ==
    ASSUME NEW s \in Seq(Octet), NEW t \in Seq(Octet), Len(s) >= 2, Len(t) >= 2,
           s[1] = t[1], s[2] = t[2]
    PROVE  Length(s) = Length(t)
<1>1. SubSeq(s, 1, 2) = SubSeq(t, 1, 2)
  <2>1. SubSeq(s, 1, 2) = [i \in 1..2 |-> s[i]] /\ SubSeq(t, 1, 2) = [i \in 1..2 |-> t[i]]
    OBVIOUS
  <2>2. \A i \in 1..2 : s[i] = t[i]
    OBVIOUS
  <2>3. QED BY <2>1, <2>2
<1>2. QED BY <1>1 DEF Length

(* A frame tells its own length, and is unpacked to what was packed. *)
LEMMA Framed ==
    ASSUME NEW m, Fit(m)
    PROVE  /\ Pack(m) \in Seq(Octet) /\ Len(Pack(m)) = Len(m.data) + 4
           /\ Len(Pack(m)) \in 4..Limit - 1
           /\ Length(Pack(m)) = Len(Pack(m)) /\ Unpack(Pack(m)) = m
<1> DEFINE length == Len(m.data) + 4
           a == Uint16(length)
           b == Uint16(m.instruction)
           p == Pack(m)
<1>1. Limit \in Nat
  <2>1. 2 \in Nat
    OBVIOUS
  <2>2. QED BY <2>1, SpanFacts DEF Limit
<1>2. /\ m.instruction \in 0..Limit - 1 /\ m.data \in Seq(Octet) /\ Len(m.data) \in Nat
      /\ length \in 0..Limit - 1 /\ length % Limit = length /\ length >= 4
      /\ m = [instruction |-> m.instruction, data |-> m.data]
  BY <1>1 DEF Fit, Message
<1>3. /\ a \in Seq(Octet) /\ Len(a) = 2 /\ Number(a) = length
      /\ b \in Seq(Octet) /\ Len(b) = 2 /\ Number(b) = m.instruction
  BY <1>2, TwoBytes
<1>4. p = a \o b \o m.data
  BY <1>2 DEF Pack
<1> HIDE DEF a, b, p, length
<1>5. /\ p \in Seq(Octet) /\ Len(p) = Len(m.data) + 4
      /\ SubSeq(p, 1, 2) = a /\ SubSeq(p, 3, 4) = b /\ SubSeq(p, 5, Len(p)) = m.data
  <2>1. /\ p \in Seq(Octet) /\ Len(p) = Len(m.data) + 4
        /\ \A i \in 1..2 : p[i] = a[i] /\ p[2 + i] = b[i]
        /\ \A i \in 1..Len(m.data) : p[4 + i] = m.data[i]
    <3> DEFINE head == a \o b
    <3>1. /\ head \in Seq(Octet) /\ Len(head) = 4
          /\ \A i \in 1..2 : head[i] = a[i] /\ head[2 + i] = b[i]
      <4>1. /\ head \in Seq(Octet) /\ Len(head) = Len(a) + Len(b)
            /\ \A i \in 1..Len(a) : head[i] = a[i]
            /\ \A i \in 1..Len(b) : head[Len(a) + i] = b[i]
        <5>1. a \in Seq(Octet) /\ b \in Seq(Octet)
          BY <1>3
        <5>2. QED BY <5>1, Behind
      <4> HIDE DEF head
      <4>2. QED BY <1>3, <4>1
    <3>2. p = head \o m.data
      BY <1>4
    <3> HIDE DEF head
    <3>3. /\ p \in Seq(Octet) /\ Len(p) = Len(m.data) + 4
          /\ \A i \in 1..4 : p[i] = head[i]
          /\ \A i \in 1..Len(m.data) : p[4 + i] = m.data[i]
      <4>1. /\ p \in Seq(Octet) /\ Len(p) = Len(head) + Len(m.data)
            /\ \A i \in 1..Len(head) : p[i] = head[i]
            /\ \A i \in 1..Len(m.data) : p[Len(head) + i] = m.data[i]
        <5>1. head \in Seq(Octet) /\ m.data \in Seq(Octet)
          BY <1>2, <3>1
        <5>2. QED BY <3>2, <5>1, Behind
      <4>2. QED BY <1>2, <3>1, <4>1
    <3>4. \A i \in 1..2 : i \in 1..4 /\ 2 + i \in 1..4
      OBVIOUS
    <3>5. QED BY <3>1, <3>3, <3>4
  <2>2. /\ SubSeq(p, 1, 2) \in Seq(Octet) /\ SubSeq(p, 3, 4) \in Seq(Octet)
        /\ SubSeq(p, 5, Len(p)) \in Seq(Octet)
        /\ Len(SubSeq(p, 1, 2)) = 2 /\ Len(SubSeq(p, 3, 4)) = 2
        /\ Len(SubSeq(p, 5, Len(p))) = Len(m.data)
        /\ \A i \in 1..2 : SubSeq(p, 1, 2)[i] = p[i] /\ SubSeq(p, 3, 4)[i] = p[2 + i]
        /\ \A i \in 1..Len(m.data) : SubSeq(p, 5, Len(p))[i] = p[4 + i]
    BY <1>2, <2>1
  <2>3. SubSeq(p, 1, 2) = a
    BY <1>3, <2>1, <2>2, SeqEqual
  <2>4. SubSeq(p, 3, 4) = b
    BY <1>3, <2>1, <2>2, SeqEqual
  <2>5. SubSeq(p, 5, Len(p)) = m.data
    <3> DEFINE d == SubSeq(p, 5, Len(p))
    <3>1. d \in Seq(Octet) /\ Len(d) = Len(m.data) /\ \A i \in 1..Len(m.data) : d[i] = p[4 + i]
      BY <2>2
    <3> HIDE DEF d
    <3>2. d = m.data
      BY <1>2, <2>1, <3>1, SeqEqual
    <3>3. QED BY <3>2 DEF d
  <2>6. QED BY <2>1, <2>3, <2>4, <2>5
<1>6. Length(p) = length /\ Unpack(p) = m
  BY <1>2, <1>3, <1>5 DEF Length, Unpack
<1>7. QED BY <1>1, <1>2, <1>5, <1>6 DEF p, length

(* A sequence is what is taken off its front and the rest. *)
LEMMA Split ==
    ASSUME NEW s \in Seq(Octet), NEW n \in Nat, n <= Len(s)
    PROVE  /\ First(s, n) \in Seq(Octet) /\ Len(First(s, n)) = n
           /\ SubSeq(s, n + 1, Len(s)) \in Seq(Octet)
           /\ First(s, n) \o SubSeq(s, n + 1, Len(s)) = s
<1>1. First(s, n) = SubSeq(s, 1, n)
  BY DEF First
<1>2. SubSeq(s, 1, n) \in Seq(Octet) /\ Len(SubSeq(s, 1, n)) = n
  OBVIOUS
<1>3. SubSeq(s, n + 1, Len(s)) \in Seq(Octet)
  OBVIOUS
<1>4. SubSeq(s, 1, n) \o SubSeq(s, n + 1, Len(s)) = SubSeq(s, 1, Len(s))
  <2>1. 1 \in 1..Len(s) + 1 /\ n \in 1 - 1..Len(s) /\ Len(s) \in n..Len(s)
    OBVIOUS
  <2>2. QED BY <2>1, ConcatAdjacentSubSeq
<1>5. QED BY <1>1, <1>2, <1>3, <1>4, SubSeqFull

(* The stream is made of bytes, and begins with what the receiver has read. *)
LEMMA StreamTypes ==
    ASSUME got \in Seq(Octet), wire \in Seq(Octet), pending \in Seq(Octet)
    PROVE  /\ Stream \in Seq(Octet) /\ Len(Stream) = Len(got) + Len(wire) + Len(pending)
           /\ \A i \in 1..Len(got) : Stream[i] = got[i]
           /\ \A i \in 1..Len(wire \o pending) : Stream[Len(got) + i] = (wire \o pending)[i]
<1> DEFINE t == wire \o pending
<1>1. t \in Seq(Octet) /\ Len(t) = Len(wire) + Len(pending)
  OBVIOUS
<1>2. Stream = got \o t
  BY DEF Stream
<1> HIDE DEF t
<1>3. /\ Stream \in Seq(Octet) /\ Len(Stream) = Len(got) + Len(t)
      /\ \A i \in 1..Len(got) : Stream[i] = got[i]
      /\ \A i \in 1..Len(t) : Stream[Len(got) + i] = t[i]
  <2>1. t \in Seq(Octet)
    BY <1>1
  <2>2. QED BY <1>2, <2>1, Behind
<1>4. QED BY <1>1, <1>3 DEF t

(* A message sent is one more frame at the end of the stream. *)
LEMMA OneMore ==
    ASSUME NEW all \in Seq(Message), \A i \in 1..Len(all) : Fit(all[i]),
           NEW lo \in Nat, lo <= Len(all), NEW stream \in Seq(Octet),
           NEW e, Cut(e, stream, all, lo), NEW m, Fit(m)
    PROVE  \E f : Cut(f, stream \o Pack(m), Append(all, m), lo)
<1> DEFINE hi   == Len(all)
           p    == Pack(m)
           more == Append(all, m)
           long == stream \o p
           f    == [i \in lo..(hi + 1) |-> IF i = hi + 1 THEN e[hi] + Len(p) ELSE e[i]]
<1>1. /\ hi \in Nat /\ Len(more) = hi + 1 /\ more[hi + 1] = m
      /\ \A i \in (lo + 1)..hi : more[i] = all[i] /\ Fit(all[i])
  BY DEF Fit
<1>2. p \in Seq(Octet) /\ Len(p) \in Nat
  BY Framed
<1>3. /\ Len(long) = Len(stream) + Len(p) /\ Len(stream) \in Nat
      /\ \A i \in 1..Len(stream) : long[i] = stream[i]
      /\ \A i \in 1..Len(p) : long[Len(stream) + i] = p[i]
  BY <1>2, Behind
<1>4. /\ e \in [lo..hi -> Nat] /\ e[lo] = 0 /\ e[hi] = Len(stream)
      /\ \A i, k \in lo..hi : i <= k => e[i] <= e[k]
      /\ \A i \in (lo + 1)..hi :
            /\ e[i] = e[i - 1] + Len(Pack(all[i]))
            /\ \A j \in 1..Len(Pack(all[i])) : stream[e[i - 1] + j] = Pack(all[i])[j]
  BY DEF Cut
<1>5. /\ f \in [lo..(hi + 1) -> Nat]
      /\ f[hi + 1] = Len(stream) + Len(p) /\ \A i \in lo..hi : f[i] = e[i]
  BY <1>1, <1>2, <1>4
<1> HIDE DEF f, p, hi, more, long
<1>6. f[lo] = 0 /\ f[hi + 1] = Len(long)
  BY <1>1, <1>3, <1>4, <1>5 DEF hi
<1>7. ASSUME NEW i \in lo..(hi + 1), NEW k \in lo..(hi + 1), i <= k PROVE f[i] <= f[k]
  <2>1. CASE k \in lo..hi
    BY <1>1, <1>4, <1>5, <1>7, <2>1
  <2>2. CASE k = hi + 1 /\ i \in lo..hi
    <3>1. hi \in lo..hi /\ i <= hi
      BY <1>1, <2>2 DEF hi
    <3>2. e[i] <= e[hi] /\ e[i] \in Nat /\ e[hi] \in Nat
      BY <1>4, <2>2, <3>1
    <3>3. QED BY <1>2, <1>3, <1>4, <1>5, <2>2, <3>2
  <2>3. CASE k = hi + 1 /\ i = hi + 1
    BY <1>1, <1>5, <2>3
  <2>4. QED BY <1>1, <1>7, <2>1, <2>2, <2>3
<1>8. ASSUME NEW i \in (lo + 1)..(hi + 1)
      PROVE  /\ f[i] = f[i - 1] + Len(Pack(more[i]))
             /\ \A j \in 1..Len(Pack(more[i])) : long[f[i - 1] + j] = Pack(more[i])[j]
  <2>1. CASE i = hi + 1
    <3>1. i - 1 = hi /\ hi \in lo..hi
      BY <1>1, <2>1 DEF hi
    <3>2. f[i - 1] = Len(stream) /\ Pack(more[i]) = p
      BY <1>1, <1>4, <1>5, <2>1, <3>1 DEF p
    <3>3. f[i] = f[i - 1] + Len(p)
      BY <1>5, <2>1, <3>2
    <3>4. QED BY <1>3, <3>2, <3>3
  <2>2. CASE i # hi + 1
    <3>1. i \in (lo + 1)..hi /\ i \in lo..hi /\ i - 1 \in lo..hi /\ hi \in lo..hi
      BY <1>1, <2>2 DEF hi
    <3>2. more[i] = all[i] /\ f[i] = e[i] /\ f[i - 1] = e[i - 1]
      BY <1>1, <1>5, <3>1
    <3>3. e[i - 1] \in Nat /\ e[i] \in Nat /\ e[i] <= Len(stream)
      <4>1. i <= hi
        BY <1>1, <3>1
      <4>2. e[i] <= e[hi]
        BY <1>4, <3>1, <4>1
      <4>3. e[i - 1] \in Nat /\ e[i] \in Nat
        BY <1>4, <3>1
      <4>4. QED BY <1>4, <4>2, <4>3
    <3> DEFINE q == Pack(all[i])
    <3>4. Len(q) \in Nat
      BY <1>1, <3>1, Framed
    <3>5. e[i] = e[i - 1] + Len(q) /\ \A j \in 1..Len(q) : stream[e[i - 1] + j] = q[j]
      BY <1>4, <3>1
    <3> HIDE DEF q
    <3>6. ASSUME NEW j \in 1..Len(q) PROVE long[e[i - 1] + j] = q[j]
      <4>1. j \in Nat /\ 1 <= j /\ j <= Len(q)
        BY <3>4, <3>6
      <4>2. e[i - 1] + j \in 1..Len(stream)
        BY <1>3, <3>3, <3>4, <3>5, <4>1
      <4>3. QED BY <1>3, <3>5, <3>6, <4>2
    <3>7. QED BY <3>2, <3>5, <3>6 DEF q
  <2>3. QED BY <2>1, <2>2
<1>9. Cut(f, long, more, lo)
  BY <1>1, <1>5, <1>6, <1>7, <1>8 DEF Cut
<1>10. QED BY <1>9 DEF long, more, p

(* What stands behind a sequence is found without it, as far nearer to the front. *)
LEMMA Shifted ==
    ASSUME NEW p \in Seq(Octet), NEW rest \in Seq(Octet), NEW q \in Seq(Octet), NEW x \in Nat,
           x >= Len(p), x + Len(q) <= Len(p) + Len(rest),
           \A j \in 1..Len(q) : (p \o rest)[x + j] = q[j]
    PROVE  \A j \in 1..Len(q) : rest[(x - Len(p)) + j] = q[j]
<1>1. SUFFICES ASSUME NEW j \in 1..Len(q) PROVE rest[(x - Len(p)) + j] = q[j]
  OBVIOUS
<1>2. Len(p) \in Nat /\ Len(rest) \in Nat /\ Len(q) \in Nat /\ j \in Nat /\ 1 <= j /\ j <= Len(q)
  OBVIOUS
<1> DEFINE k == (x - Len(p)) + j
<1>3. k \in 1..Len(rest) /\ Len(p) + k = x + j
  BY <1>2
<1> HIDE DEF k
<1>4. (p \o rest)[Len(p) + k] = rest[k]
  BY <1>3, Behind
<1>5. QED BY <1>1, <1>3, <1>4 DEF k

(* A message received is one frame less at its front. *)
LEMMA OneLess ==
    ASSUME NEW all \in Seq(Message), \A i \in 1..Len(all) : Fit(all[i]),
           NEW lo \in Nat, lo < Len(all), NEW rest \in Seq(Octet),
           NEW e, Cut(e, Pack(all[lo + 1]) \o rest, all, lo)
    PROVE  \E f : Cut(f, rest, all, lo + 1)
<1> DEFINE hi   == Len(all)
           p    == Pack(all[lo + 1])
           long == p \o rest
           f    == [i \in (lo + 1)..hi |-> e[i] - Len(p)]
<1>1. hi \in Nat /\ lo + 1 \in 1..hi /\ Fit(all[lo + 1])
  OBVIOUS
<1>2. p \in Seq(Octet) /\ Len(p) \in Nat
  BY <1>1, Framed
<1>3. /\ Len(long) = Len(p) + Len(rest) /\ Len(rest) \in Nat
      /\ \A i \in 1..Len(rest) : long[Len(p) + i] = rest[i]
  BY <1>2, Behind
<1>4. /\ e \in [lo..hi -> Nat] /\ e[lo] = 0 /\ e[hi] = Len(long)
      /\ \A i, k \in lo..hi : i <= k => e[i] <= e[k]
      /\ \A i \in (lo + 1)..hi :
            /\ e[i] = e[i - 1] + Len(Pack(all[i]))
            /\ \A j \in 1..Len(Pack(all[i])) : long[e[i - 1] + j] = Pack(all[i])[j]
  BY DEF Cut
<1> HIDE DEF p, long, hi
<1>5. e[lo + 1] = Len(p)
  <2>1. lo + 1 \in (lo + 1)..hi /\ (lo + 1) - 1 = lo
    BY <1>1
  <2>2. e[lo + 1] = e[lo] + Len(p)
    BY <1>4, <2>1 DEF p
  <2>3. QED BY <1>2, <1>4, <2>2
<1>6. ASSUME NEW i \in (lo + 1)..hi PROVE e[i] \in Nat /\ e[i] >= Len(p) /\ f[i] = e[i] - Len(p)
  <2>1. i \in lo..hi /\ lo + 1 \in lo..hi /\ lo + 1 <= i
    BY <1>1, <1>6
  <2>2. QED BY <1>4, <1>5, <2>1
<1>7. /\ f \in [(lo + 1)..hi -> Nat] /\ f[lo + 1] = 0 /\ f[hi] = Len(rest)
  <2>1. ASSUME NEW i \in (lo + 1)..hi PROVE e[i] - Len(p) \in Nat
    BY <1>2, <1>6
  <2>2. f \in [(lo + 1)..hi -> Nat]
    BY <2>1
  <2>3. lo + 1 \in (lo + 1)..hi /\ hi \in (lo + 1)..hi
    BY <1>1
  <2> HIDE DEF f
  <2>4. f[lo + 1] = e[lo + 1] - Len(p) /\ f[hi] = e[hi] - Len(p)
    BY <1>6, <2>3
  <2>5. QED BY <1>2, <1>3, <1>4, <1>5, <2>2, <2>4
<1> HIDE DEF f
<1>8. ASSUME NEW i \in (lo + 1)..hi, NEW k \in (lo + 1)..hi, i <= k PROVE f[i] <= f[k]
  <2>1. i \in lo..hi /\ k \in lo..hi
    BY <1>8
  <2>2. e[i] <= e[k]
    BY <1>4, <1>8, <2>1
  <2>3. QED BY <1>2, <1>6, <2>2
<1>9. ASSUME NEW i \in (lo + 2)..hi
      PROVE  /\ f[i] = f[i - 1] + Len(Pack(all[i]))
             /\ \A j \in 1..Len(Pack(all[i])) : rest[f[i - 1] + j] = Pack(all[i])[j]
  <2>1. i \in (lo + 1)..hi /\ i - 1 \in (lo + 1)..hi /\ hi \in lo..hi /\ i \in lo..hi
    BY <1>1
  <2> DEFINE q == Pack(all[i])
  <2>2. Len(q) \in Nat
    <3>1. i \in 1..Len(all)
      BY <2>1 DEF hi
    <3>2. QED BY <3>1, Framed
  <2>3. e[i] = e[i - 1] + Len(q) /\ \A j \in 1..Len(q) : long[e[i - 1] + j] = q[j]
    BY <1>4, <2>1
  <2>4. e[i] <= Len(p) + Len(rest)
    <3>1. i <= hi
      BY <1>1, <2>1
    <3>2. e[i] <= e[hi]
      BY <1>4, <2>1, <3>1
    <3>3. e[hi] = Len(p) + Len(rest)
      BY <1>3, <1>4
    <3>4. QED BY <3>2, <3>3
  <2> HIDE DEF q
  <2>5. /\ e[i] \in Nat /\ e[i - 1] \in Nat /\ e[i - 1] >= Len(p)
        /\ f[i] = e[i] - Len(p) /\ f[i - 1] = e[i - 1] - Len(p)
    BY <1>6, <2>1
  <2>6. \A j \in 1..Len(q) : rest[f[i - 1] + j] = q[j]
    <3> HIDE DEF f
    <3>1. q \in Seq(Octet)
      <4>1. i \in 1..Len(all)
        BY <2>1 DEF hi
      <4>2. QED BY <4>1, Framed DEF q
    <3>2. e[i - 1] + Len(q) <= Len(p) + Len(rest)
      BY <2>3, <2>4
    <3>3. \A j \in 1..Len(q) : (p \o rest)[e[i - 1] + j] = q[j]
      BY <2>3 DEF long
    <3>4. \A j \in 1..Len(q) : rest[(e[i - 1] - Len(p)) + j] = q[j]
      <4>1. e[i - 1] \in Nat /\ e[i - 1] >= Len(p)
        BY <2>5
      <4>2. QED BY <1>2, <3>1, <3>2, <3>3, <4>1, Shifted
    <3>5. QED BY <2>5, <3>4
  <2>7. f[i] = f[i - 1] + Len(q)
    BY <1>2, <2>2, <2>3, <2>5
  <2>8. QED BY <2>6, <2>7 DEF q
<1>10. Cut(f, rest, all, lo + 1)
  <2>1. (lo + 1) + 1 = lo + 2
    OBVIOUS
  <2>2. QED BY <1>7, <1>8, <1>9, <2>1 DEF Cut, hi
<1>11. QED BY <1>10

-----------------------------------------------------------------------------
(* The steps *)

(* The message to be received next. *)
Due == sent[Len(received) + 1]

(* Once two bytes are read there is a message to come, and they tell its length; what
   is read so far is the beginning of its frame.                                *)
LEMMA FrameDue ==
    ASSUME FramesInv, ~ crowded, Len(got) >= 2
    PROVE  /\ Len(received) < Len(sent) /\ Fit(Due)
           /\ Length(got) = Len(Pack(Due))
           /\ \A j \in 1..Len(got) : j <= Len(Pack(Due)) => got[j] = Pack(Due)[j]
<1> DEFINE lo == Len(received)
           hi == Len(sent)
           m  == sent[lo + 1]
           p  == Pack(m)
<1>1. /\ lo \in Nat /\ hi \in Nat /\ lo <= hi /\ \A i \in 1..hi : Fit(sent[i])
      /\ got \in Seq(Octet) /\ wire \in Seq(Octet) /\ pending \in Seq(Octet)
      /\ \E e : Cut(e, Stream, sent, lo)
  BY DEF FramesInv
<1>2. PICK e : Cut(e, Stream, sent, lo)
  BY <1>1
<1>3. /\ Stream \in Seq(Octet) /\ Len(Stream) = Len(got) + Len(wire) + Len(pending)
      /\ \A i \in 1..Len(got) : Stream[i] = got[i]
  BY <1>1, StreamTypes
<1>4. Len(got) \in Nat /\ Len(wire) \in Nat /\ Len(pending) \in Nat
  BY <1>1
<1>5. /\ e[lo] = 0 /\ e[hi] = Len(Stream)
      /\ \A i \in (lo + 1)..hi :
            /\ e[i] = e[i - 1] + Len(Pack(sent[i]))
            /\ \A j \in 1..Len(Pack(sent[i])) : Stream[e[i - 1] + j] = Pack(sent[i])[j]
  BY <1>2 DEF Cut
<1> HIDE DEF lo, hi
<1>6. lo < hi
  <2>1. e[lo] # e[hi]
    BY <1>3, <1>4, <1>5
  <2>2. QED BY <1>1, <2>1
<1>7. Fit(m)
  BY <1>1, <1>6
<1>8. p \in Seq(Octet) /\ Len(p) \in Nat /\ Len(p) >= 4 /\ Length(p) = Len(p)
  BY <1>7, Framed
<1>9. \A j \in 1..Len(p) : Stream[j] = p[j]
  <2>1. lo + 1 \in (lo + 1)..hi /\ (lo + 1) - 1 = lo
    BY <1>1, <1>6
  <2>2. \A j \in 1..Len(p) : Stream[e[lo] + j] = p[j]
    BY <1>5, <2>1
  <2>3. ASSUME NEW j \in 1..Len(p) PROVE Stream[j] = p[j]
    <3>1. e[lo] + j = j
      BY <1>5, <1>8
    <3>2. QED BY <2>2, <3>1
  <2>4. QED BY <2>3
<1> HIDE DEF m, p
<1>10. \A j \in 1..Len(got) : j <= Len(p) => got[j] = p[j]
  BY <1>3, <1>4, <1>8, <1>9
<1>11. Length(got) = Length(p)
  <2>1. got[1] = p[1] /\ got[2] = p[2] /\ Len(p) >= 2
    BY <1>4, <1>8, <1>10
  <2>2. QED BY <1>1, <1>8, <2>1, LengthOfTwo
<1>12. lo < hi /\ Fit(m) /\ Length(got) = Len(p)
  BY <1>6, <1>7, <1>8, <1>11
<1>13. m = Due
  BY DEF m, lo, Due
<1>14. p = Pack(Due)
  BY <1>13 DEF p
<1>15. Len(received) < Len(sent)
  BY <1>12 DEF lo, hi
<1>16. Fit(Due) /\ Length(got) = Len(Pack(Due))
  BY <1>12, <1>13, <1>14
<1>17. \A j \in 1..Len(got) : j <= Len(Pack(Due)) => got[j] = Pack(Due)[j]
  BY <1>10, <1>14
<1>18. QED BY <1>15, <1>16, <1>17

(* A message joins those sent when its frame gets behind the stream. *)
LEMMA SentStep ==
    ASSUME FramesInv, ~ crowded, NEW m, Fit(m), sent' = Append(sent, m), received' = received,
           Stream' = Stream \o Pack(m)
    PROVE  /\ sent' \in Seq(Message) /\ \A i \in 1..Len(sent') : Fit(sent'[i])
           /\ received' \in Seq(Message) /\ Len(received') <= Len(sent')
           /\ \A i \in 1..Len(received') : received'[i] = sent'[i]
           /\ \E e : Cut(e, Stream', sent', Len(received'))
<1>1. /\ sent \in Seq(Message) /\ \A i \in 1..Len(sent) : Fit(sent[i])
      /\ received \in Seq(Message) /\ Len(received) <= Len(sent)
      /\ \A i \in 1..Len(received) : received[i] = sent[i]
      /\ \E e : Cut(e, Stream, sent, Len(received))
      /\ got \in Seq(Octet) /\ wire \in Seq(Octet) /\ pending \in Seq(Octet)
  BY DEF FramesInv
<1>2. Stream \in Seq(Octet) /\ Len(received) \in Nat /\ Len(sent) \in Nat /\ m \in Message
  BY <1>1, StreamTypes DEF Fit
<1>3. \E f : Cut(f, Stream \o Pack(m), Append(sent, m), Len(received))
  BY <1>1, <1>2, OneMore
<1>4. /\ sent' \in Seq(Message) /\ Len(sent') = Len(sent) + 1 /\ sent'[Len(sent) + 1] = m
      /\ \A i \in 1..Len(sent) : sent'[i] = sent[i]
  BY <1>1, <1>2
<1>5. \A i \in 1..Len(sent') : Fit(sent'[i])
  BY <1>1, <1>2, <1>4
<1>6. Len(received') <= Len(sent') /\ \A i \in 1..Len(received') : received'[i] = sent'[i]
  BY <1>1, <1>2, <1>4
<1>7. QED BY <1>1, <1>3, <1>4, <1>5, <1>6

LEMMA Associative ==
    ASSUME NEW a \in Seq(Octet), NEW b \in Seq(Octet), NEW c \in Seq(Octet)
    PROVE  (a \o b) \o c = a \o (b \o c)
BY ConcatAssociative

LEMMA LimitIsNumber == Limit \in Nat /\ Limit = Span(2)
<1>1. 2 \in Nat
  OBVIOUS
<1>2. QED BY <1>1, SpanFacts DEF Limit

LEMMA FramesStart == Init => FramesInv
<1> SUFFICES ASSUME Init PROVE FramesInv
  OBVIOUS
<1>1. /\ sent = << >> /\ received = << >> /\ pending = << >> /\ wire = << >> /\ got = << >>
      /\ waiting = << >> /\ broken = FALSE /\ crowded = FALSE
  BY DEF Init
<1>2. /\ sent \in Seq(Message) /\ received \in Seq(Message) /\ Len(sent) = 0 /\ Len(received) = 0
      /\ pending \in Seq(Octet) /\ wire \in Seq(Octet) /\ got \in Seq(Octet) /\ Len(got) = 0
      /\ Len(wire) = 0 /\ Len(pending) = 0
  BY <1>1
<1>3. Len(Stream) = 0
  BY <1>2, StreamTypes
<1>4. Cut([i \in 0..0 |-> 0], Stream, sent, Len(received))
  <2>1. 0..0 = {0} /\ 0 + 1..0 = {}
    OBVIOUS
  <2>2. QED BY <1>2, <1>3, <2>1 DEF Cut
<1>5. QED BY <1>1, <1>2, <1>4 DEF FramesInv

(* Conn.Write: the frame of the message is what is pending. *)
LEMMA WriteKeeps ==
    ASSUME FramesInv, NEW m \in Messages(ServerData), Write(m)
    PROVE  FramesInv'
<1>1. /\ sender = "server" /\ pending = << >> /\ FitsServer(m)
      /\ sent' = Append(sent, m) /\ pending' = Pack(m) /\ sender' = sender
      /\ waiting' = waiting /\ wire' = wire /\ got' = got /\ received' = received
      /\ broken' = broken /\ crowded' = crowded
  BY DEF Write
<1>2. Fit(m)
  <2>1. m.instruction \in 0..Limit - 1 /\ m.data \in Seq(Octet)
        /\ m = [instruction |-> m.instruction, data |-> m.data]
    BY FramesAssumption DEF Messages, Limit, Octet
  <2>2. QED BY <1>1, <2>1 DEF Fit, Message, FitsServer
<1>3. SUFFICES ASSUME ~ crowded PROVE FramesInv'
  BY <1>1 DEF FramesInv
<1>4. /\ got \in Seq(Octet) /\ wire \in Seq(Octet) /\ pending \in Seq(Octet)
      /\ waiting = << >> /\ ~ broken /\ (Len(got) <= 2 \/ Len(got) <= Length(got))
  BY <1>3 DEF FramesInv
<1>5. Pack(m) \in Seq(Octet)
  BY <1>2, Framed
<1>6. Stream' = Stream \o Pack(m)
  <2>1. got \o wire \in Seq(Octet)
    BY <1>4, ConcatProperties
  <2>2. Stream = got \o wire
    BY <1>1, <2>1, ConcatEmptySeq DEF Stream
  <2>3. Stream' = (got \o wire) \o Pack(m)
    BY <1>1 DEF Stream
  <2>4. QED BY <2>2, <2>3
<1>7. /\ sent' \in Seq(Message) /\ \A i \in 1..Len(sent') : Fit(sent'[i])
      /\ received' \in Seq(Message) /\ Len(received') <= Len(sent')
      /\ \A i \in 1..Len(received') : received'[i] = sent'[i]
      /\ \E e : Cut(e, Stream', sent', Len(received'))
  BY <1>1, <1>2, <1>3, <1>6, SentStep
<1>8. crowded' \in BOOLEAN /\ sender' # "client"
  BY <1>1 DEF FramesInv
<1>9. Length(got') = Length(got)
  BY <1>1
<1>10. QED BY <1>1, <1>4, <1>5, <1>7, <1>8, <1>9 DEF FramesInv

(* What a step of the connection keeps when it sends and receives nothing: it is enough
   that the stream stays what it is.                                            *)
LEMMA MoveKeeps ==
    ASSUME FramesInv, ~ crowded,
           sent' = sent, received' = received, sender' = sender, waiting' = waiting,
           broken' = broken, crowded' = crowded, Stream' = Stream,
           got' \in Seq(Octet), wire' \in Seq(Octet), pending' \in Seq(Octet),
           sender = "client" => pending' = << >>,
           Len(got') <= 2 \/ Len(got') <= Length(got')
    PROVE  FramesInv'
<1>1. /\ crowded' \in BOOLEAN
      /\ sent' \in Seq(Message) /\ \A i \in 1..Len(sent') : Fit(sent'[i])
      /\ received' \in Seq(Message) /\ Len(received') <= Len(sent')
      /\ \A i \in 1..Len(received') : received'[i] = sent'[i]
      /\ waiting' = << >> /\ ~ broken'
  BY DEF FramesInv
<1>2. PICK e : Cut(e, Stream, sent, Len(received))
  BY DEF FramesInv
<1>3. Cut(e, Stream', sent', Len(received'))
  BY <1>2
<1>4. QED BY <1>1, <1>3 DEF FramesInv

(* Conn.Write goes on: bytes get from what is pending onto the connection. *)
LEMMA WriteSomeKeeps ==
    ASSUME FramesInv, NEW n \in 1..Limit, WriteSome(n)
    PROVE  FramesInv'
<1> DEFINE f == First(pending, n)
           r == SubSeq(pending, n + 1, Len(pending))
<1>1. /\ n <= Len(pending) /\ wire' = wire \o f /\ pending' = r
      /\ sender' = sender /\ sent' = sent /\ waiting' = waiting /\ got' = got
      /\ received' = received /\ broken' = broken /\ crowded' = crowded
  BY DEF WriteSome
<1>2. SUFFICES ASSUME ~ crowded PROVE FramesInv'
  BY <1>1 DEF FramesInv
<1>3. /\ got \in Seq(Octet) /\ wire \in Seq(Octet) /\ pending \in Seq(Octet)
      /\ sender = "client" => pending = << >>
      /\ Len(got) <= 2 \/ Len(got) <= Length(got)
  BY <1>2 DEF FramesInv
<1>4. n \in Nat /\ n >= 1
  BY LimitIsNumber
<1>5. f \in Seq(Octet) /\ r \in Seq(Octet) /\ f \o r = pending
  BY <1>1, <1>3, <1>4, Split
<1>6. sender # "client"
  BY <1>1, <1>3, <1>4
<1> HIDE DEF f, r
<1>7. Stream' = Stream
  <2>1. got \in Seq(Octet) /\ wire \in Seq(Octet) /\ f \in Seq(Octet) /\ r \in Seq(Octet)
    BY <1>3, <1>5
  <2>2. (got \o wire) \o f = got \o (wire \o f)
    BY <2>1, Associative
  <2>3. got \o wire \in Seq(Octet)
    BY <2>1, ConcatProperties
  <2>4. ((got \o wire) \o f) \o r = (got \o wire) \o (f \o r)
    BY <2>1, <2>3, Associative
  <2>5. Stream' = (got \o (wire \o f)) \o r
    BY <1>1 DEF Stream
  <2>6. QED BY <1>5, <2>2, <2>4, <2>5 DEF Stream
<1>8. wire' \in Seq(Octet)
  BY <1>1, <1>3, <1>5, ConcatProperties
<1>9. Length(got') = Length(got)
  BY <1>1
<1>10. QED BY <1>1, <1>2, <1>3, <1>5, <1>6, <1>7, <1>8, <1>9, MoveKeeps

(* What the receiver reads of its frame does not go beyond the frame. *)
LEMMA ReadSomeKeeps ==
    ASSUME FramesInv, NEW n \in 1..Limit, ReadSome(n)
    PROVE  FramesInv'
<1> DEFINE f == First(wire, n)
           r == SubSeq(wire, n + 1, Len(wire))
<1>1. /\ n <= Wanted /\ n <= Len(wire) /\ got' = got \o f /\ wire' = r
      /\ sender' = sender /\ sent' = sent /\ waiting' = waiting /\ pending' = pending
      /\ received' = received /\ broken' = broken /\ crowded' = crowded
  BY DEF ReadSome
<1>2. SUFFICES ASSUME ~ crowded PROVE FramesInv'
  BY <1>1 DEF FramesInv
<1>3. /\ got \in Seq(Octet) /\ wire \in Seq(Octet) /\ pending \in Seq(Octet)
      /\ sender = "client" => pending = << >>
      /\ Len(got) <= 2 \/ Len(got) <= Length(got)
  BY <1>2 DEF FramesInv
<1>4. n \in Nat /\ n >= 1 /\ Len(got) \in Nat
  BY <1>3, LimitIsNumber
<1>5. f \in Seq(Octet) /\ r \in Seq(Octet) /\ f \o r = wire /\ Len(f) = n
  BY <1>1, <1>3, <1>4, Split
<1> HIDE DEF f, r
<1>6. Stream' = Stream
  <2>1. got \in Seq(Octet) /\ f \in Seq(Octet) /\ r \in Seq(Octet) /\ pending \in Seq(Octet)
    BY <1>3, <1>5
  <2>2. (got \o f) \o r = got \o (f \o r)
    BY <2>1, Associative
  <2>3. Stream' = ((got \o f) \o r) \o pending
    BY <1>1 DEF Stream
  <2>4. QED BY <1>5, <2>2, <2>3 DEF Stream
<1>7. /\ got \o f \in Seq(Octet) /\ Len(got \o f) = Len(got) + n
      /\ \A i \in 1..Len(got) : (got \o f)[i] = got[i]
  BY <1>3, <1>5, Behind
<1>8. got' \in Seq(Octet) /\ Len(got') = Len(got) + n /\ \A i \in 1..Len(got) : got'[i] = got[i]
  BY <1>1, <1>7
<1>9. Len(got') <= 2 \/ Len(got') <= Length(got')
  <2>1. CASE Len(got) < 2
    BY <1>1, <1>4, <1>8, <2>1 DEF Wanted
  <2>2. CASE Len(got) >= 2
    <3>1. Length(got) = Len(Pack(Due)) /\ Len(Pack(Due)) \in Nat
      BY <1>2, <2>2, FrameDue, Framed
    <3>2. n <= Length(got) - Len(got)
      BY <1>1, <1>4, <2>2 DEF Wanted
    <3>3. got'[1] = got[1] /\ got'[2] = got[2] /\ Len(got') >= 2
      BY <1>4, <1>8, <2>2
    <3>4. Length(got') = Length(got)
      BY <1>3, <1>8, <2>2, <3>3, LengthOfTwo
    <3>5. QED BY <1>4, <1>8, <3>1, <3>2, <3>4
  <2>3. QED BY <1>4, <2>1, <2>2
<1>10. sender = "client" => pending' = << >>
  BY <1>1, <1>3
<1>11. wire' \in Seq(Octet) /\ pending' \in Seq(Octet)
  BY <1>1, <1>3, <1>5
<1>12. QED BY <1>1, <1>2, <1>6, <1>8, <1>9, <1>10, <1>11, MoveKeeps

(* send_instrution_data: a connection that takes the frame whole has it at once. *)
LEMMA SendKeeps ==
    ASSUME FramesInv, NEW m \in Messages(ClientData), Send(m)
    PROVE  FramesInv'
<1> DEFINE p      == Pack(m)
           length == Length(p)
           piece  == First(p, length)
<1>1. /\ sender = "client" /\ sent' = Append(sent, m)
      /\ crowded' = (crowded \/ length > Room \/ waiting # << >>)
      /\ IF length = 0 \/ (waiting = << >> /\ Room > 0)
         THEN wire' = wire \o First(piece, Room) /\ waiting' = waiting
         ELSE waiting' = Append(waiting, length) /\ wire' = wire
      /\ sender' = sender /\ pending' = pending /\ got' = got
      /\ received' = received /\ broken' = broken
  BY DEF Send
<1>2. crowded' \in BOOLEAN
  BY <1>1
<1>3. SUFFICES ASSUME ~ crowded' PROVE FramesInv'
  BY <1>2 DEF FramesInv
<1>4. ~ crowded /\ ~ (length > Room) /\ waiting = << >>
  BY <1>1, <1>3
<1>5. Fit(m)
  <2>1. /\ m.instruction \in 0..Limit - 1 /\ m.data \in Seq(Octet)
        /\ m.data \in ClientData /\ m = [instruction |-> m.instruction, data |-> m.data]
    BY FramesAssumption DEF Messages, Limit, Octet
  <2>2. Len(m.data) + 4 < Limit
    BY <2>1, FramesAssumption, LimitIsNumber
  <2>3. QED BY <2>1, <2>2 DEF Fit, Message
<1>6. p \in Seq(Octet) /\ Len(p) \in Nat /\ Len(p) >= 4 /\ length = Len(p)
  BY <1>5, Framed
<1>7. /\ got \in Seq(Octet) /\ wire \in Seq(Octet) /\ pending = << >> /\ pending \in Seq(Octet)
      /\ ~ broken /\ (Len(got) <= 2 \/ Len(got) <= Length(got))
  BY <1>1, <1>4 DEF FramesInv
<1> HIDE DEF p, length
<1>8. Room \in Int
  BY <1>7, FramesAssumption DEF Room
<1>9. First(piece, Room) = p
  <2>1. First(p, Len(p)) = SubSeq(p, 1, Len(p))
    BY <1>6 DEF First
  <2>2. piece = p
    BY <1>6, <2>1, SubSeqFull
  <2>3. First(p, Room) = SubSeq(p, 1, Len(p))
    <3>1. Room <= Len(p) => Room = Len(p)
      BY <1>4, <1>6, <1>8
    <3>2. QED BY <3>1 DEF First
  <2>4. QED BY <1>6, <2>2, <2>3, SubSeqFull
<1>10. wire' = wire \o p /\ waiting' = << >>
  <2>1. Room > 0
    BY <1>4, <1>6, <1>8
  <2> HIDE DEF piece
  <2>2. QED BY <1>1, <1>4, <1>9, <2>1
<1>11. wire' \in Seq(Octet)
  BY <1>6, <1>7, <1>10, ConcatProperties
<1>12. Stream' = Stream \o p
  <2>1. got \o wire \in Seq(Octet)
    BY <1>7, ConcatProperties
  <2>2. Stream = got \o wire
    BY <1>7, <2>1, ConcatEmptySeq DEF Stream
  <2>3. (got \o wire) \o p \in Seq(Octet)
    BY <1>6, <2>1, ConcatProperties
  <2>4. got \o (wire \o p) = (got \o wire) \o p
    BY <1>6, <1>7, Associative
  <2>5. ((got \o wire) \o p) \o << >> = (got \o wire) \o p
    BY <2>3, ConcatEmptySeq
  <2>6. Stream' = (got \o (wire \o p)) \o << >>
    BY <1>1, <1>7, <1>10 DEF Stream
  <2>7. QED BY <2>2, <2>4, <2>5, <2>6
<1>13. /\ sent' \in Seq(Message) /\ \A i \in 1..Len(sent') : Fit(sent'[i])
       /\ received' \in Seq(Message) /\ Len(received') <= Len(sent')
       /\ \A i \in 1..Len(received') : received'[i] = sent'[i]
       /\ \E e : Cut(e, Stream', sent', Len(received'))
  BY <1>1, <1>4, <1>5, <1>12, SentStep DEF p
<1>14. Length(got') = Length(got)
  BY <1>1
<1>15. QED BY <1>1, <1>2, <1>7, <1>10, <1>11, <1>13, <1>14 DEF FramesInv

(* Read hands on a message: what has been read is the frame of the message due. *)
LEMMA DeliverKeeps ==
    ASSUME FramesInv, Deliver
    PROVE  FramesInv'
<1>1. /\ Len(got) >= 2 /\ Wanted <= 0
      /\ IF Length(got) < 4
         THEN broken' = TRUE /\ received' = received /\ got' = got
         ELSE received' = Append(received, Unpack(got)) /\ got' = << >> /\ broken' = broken
      /\ sender' = sender /\ sent' = sent /\ pending' = pending /\ waiting' = waiting
      /\ wire' = wire /\ crowded' = crowded
  BY DEF Deliver
<1>2. SUFFICES ASSUME ~ crowded PROVE FramesInv'
  BY <1>1 DEF FramesInv
<1>3. /\ got \in Seq(Octet) /\ wire \in Seq(Octet) /\ pending \in Seq(Octet)
      /\ sender = "client" => pending = << >>
      /\ Len(got) <= 2 \/ Len(got) <= Length(got)
      /\ ~ broken /\ waiting = << >> /\ crowded \in BOOLEAN
      /\ sent \in Seq(Message) /\ \A i \in 1..Len(sent) : Fit(sent[i])
      /\ received \in Seq(Message) /\ Len(received) <= Len(sent)
      /\ \A i \in 1..Len(received) : received[i] = sent[i]
      /\ \E e : Cut(e, Stream, sent, Len(received))
  BY <1>2 DEF FramesInv
<1> DEFINE p    == Pack(Due)
           rest == wire \o pending
<1>4. /\ Len(received) < Len(sent) /\ Fit(Due) /\ Length(got) = Len(p)
      /\ \A j \in 1..Len(got) : j <= Len(p) => got[j] = p[j]
  BY <1>1, <1>2, FrameDue
<1>5. p \in Seq(Octet) /\ Len(p) \in Nat /\ Len(p) >= 4 /\ Unpack(p) = Due
  BY <1>4, Framed
<1> HIDE DEF p
<1>6. Len(got) \in Nat /\ Len(received) \in Nat /\ Len(sent) \in Nat
  BY <1>3
<1>7. Len(got) = Len(p)
  <2>1. Length(got) - Len(got) <= 0
    BY <1>1, <1>6 DEF Wanted
  <2>2. QED BY <1>3, <1>4, <1>5, <1>6, <2>1
<1>8. got = p
  <2>1. \A j \in 1..Len(got) : got[j] = p[j]
    BY <1>4, <1>6, <1>7
  <2>2. QED BY <1>3, <1>5, <1>7, <2>1, SeqEqual
<1>9. received' = Append(received, Due) /\ got' = << >> /\ ~ broken'
  BY <1>1, <1>3, <1>4, <1>5, <1>8
<1>10. rest \in Seq(Octet)
  BY <1>3, ConcatProperties
<1>11. Stream = p \o rest
  <2>1. (got \o wire) \o pending = got \o (wire \o pending)
    BY <1>3, Associative
  <2>2. QED BY <1>8, <2>1 DEF Stream
<1>12. Stream' = rest
  <2>1. << >> \o wire = wire
    BY <1>3, ConcatEmptySeq
  <2>2. Stream' = (<< >> \o wire) \o pending
    BY <1>1, <1>9 DEF Stream
  <2>3. QED BY <2>1, <2>2
<1> HIDE DEF rest
<1>13. PICK e : Cut(e, p \o rest, sent, Len(received))
  BY <1>3, <1>11
<1>14. PICK f : Cut(f, rest, sent, Len(received) + 1)
  <2>1. Cut(e, Pack(sent[Len(received) + 1]) \o rest, sent, Len(received))
    BY <1>13 DEF p, Due
  <2>2. QED BY <1>3, <1>4, <1>6, <1>10, <2>1, OneLess
<1>15. /\ received' \in Seq(Message) /\ Len(received') = Len(received) + 1
       /\ received'[Len(received) + 1] = Due
       /\ \A i \in 1..Len(received) : received'[i] = received[i]
  BY <1>3, <1>4, <1>9 DEF Fit
<1>16. Len(received') <= Len(sent') /\ \A i \in 1..Len(received') : received'[i] = sent'[i]
  <2>1. sent'[Len(received) + 1] = Due
    BY <1>1 DEF Due
  <2>2. QED BY <1>1, <1>3, <1>4, <1>6, <1>15, <2>1
<1>17. Cut(f, Stream', sent', Len(received'))
  BY <1>1, <1>12, <1>14, <1>15
<1>18. got' \in Seq(Octet) /\ Len(got') = 0
  BY <1>9
<1>19. QED BY <1>1, <1>3, <1>9, <1>15, <1>16, <1>17, <1>18 DEF FramesInv

LEMMA FramesStep == FramesInv /\ [Next]_vars => FramesInv'
<1> SUFFICES ASSUME FramesInv, [Next]_vars PROVE FramesInv'
  OBVIOUS
<1>1. ASSUME NEW m \in Messages(ServerData), Write(m) PROVE FramesInv'
  BY <1>1, WriteKeeps
<1>2. ASSUME NEW m \in Messages(ClientData), Send(m) PROVE FramesInv'
  BY <1>2, SendKeeps
<1>3. ASSUME NEW n \in 1..Limit, WriteSome(n) PROVE FramesInv'
  BY <1>3, WriteSomeKeeps
<1>4. ASSUME Ready PROVE FramesInv'
  (* Nothing waits as long as frames are taken whole. *)
  <2>1. crowded' = crowded /\ waiting # << >>
    BY <1>4 DEF Ready
  <2>2. QED BY <2>1 DEF FramesInv
<1>5. ASSUME NEW n \in 1..Limit, ReadSome(n) PROVE FramesInv'
  BY <1>5, ReadSomeKeeps
<1>6. ASSUME Deliver PROVE FramesInv'
  BY <1>6, DeliverKeeps
<1>7. CASE UNCHANGED vars
  <2>1. Stream' = Stream /\ Length(got') = Length(got)
    BY <1>7 DEF vars, Stream
  <2>2. QED BY <1>7, <2>1 DEF vars, FramesInv
<1>8. QED BY <1>1, <1>2, <1>3, <1>4, <1>5, <1>6, <1>7 DEF Next, Sending, Moving

LEMMA FramesInvAlways == Spec => []FramesInv
BY FramesStart, FramesStep, PTL DEF Spec

(* Whatever pieces the bytes come in, the messages received are the first ones of those
   sent, each as it was sent, and no receiver gives up, unless the connection could not
   take a frame of the client whole (idtcp.Conn, IdtcpSocket).                  *)
THEOREM ReceivedAsSent == Spec => []InOrder
<1>1. FramesInv => InOrder
  <2> SUFFICES ASSUME FramesInv, ~ crowded PROVE ~ broken /\ IsPrefix(received, sent)
    BY DEF InOrder
  <2>1. /\ ~ broken /\ received \in Seq(Message) /\ sent \in Seq(Message)
        /\ Len(received) <= Len(sent) /\ \A i \in 1..Len(received) : received[i] = sent[i]
    BY DEF FramesInv
  <2>2. SubSeq(received, 1, Len(received)) = SubSeq(sent, 1, Len(received))
    BY <2>1
  <2>3. QED BY <2>1, <2>2 DEF IsPrefix
<1>2. QED BY <1>1, FramesInvAlways, PTL

-----------------------------------------------------------------------------
(* Values and their bytes *)

(* The bytes of w stand in s behind a position. *)
Stands(s, at, w) ==
    at + Len(w) <= Len(s) /\ \A j \in 1..Len(w) : s[at + j] = w[j]

(* Only the first of them do: s ends before w does. *)
CutOff(s, at, w) ==
    /\ at <= Len(s) /\ Len(s) < at + Len(w)
    /\ \A j \in 1..(Len(s) - at) : s[at + j] = w[j]

LEMMA StandsParts ==
    ASSUME NEW s \in Seq(Octet), NEW at \in Nat, NEW a \in Seq(Octet), NEW b \in Seq(Octet),
           Stands(s, at, a \o b)
    PROVE  Stands(s, at, a) /\ Stands(s, at + Len(a), b)
<1>1. /\ Len(a) \in Nat /\ Len(b) \in Nat /\ Len(a \o b) = Len(a) + Len(b)
      /\ \A j \in 1..Len(a) : (a \o b)[j] = a[j]
      /\ \A j \in 1..Len(b) : (a \o b)[Len(a) + j] = b[j]
  BY Behind
<1>2. /\ at + (Len(a) + Len(b)) <= Len(s) /\ Len(s) \in Nat
      /\ \A j \in 1..(Len(a) + Len(b)) : s[at + j] = (a \o b)[j]
  BY <1>1 DEF Stands
<1>3. ASSUME NEW j \in 1..Len(a) PROVE s[at + j] = a[j]
  <2>1. j \in 1..(Len(a) + Len(b))
    BY <1>1
  <2>2. QED BY <1>1, <1>2, <2>1
<1>4. ASSUME NEW j \in 1..Len(b) PROVE s[(at + Len(a)) + j] = b[j]
  <2>1. Len(a) + j \in 1..(Len(a) + Len(b)) /\ (at + Len(a)) + j = at + (Len(a) + j)
    BY <1>1
  <2>2. QED BY <1>1, <1>2, <2>1
<1>5. at + Len(a) <= Len(s) /\ (at + Len(a)) + Len(b) <= Len(s)
  <2>1. \A x, y, z \in Nat : at + (x + y) <= z => at + x <= z /\ (at + x) + y <= z
    OBVIOUS
  <2>2. QED BY <1>1, <1>2, <2>1
<1>6. QED BY <1>3, <1>4, <1>5 DEF Stands

LEMMA CutOffParts ==
    ASSUME NEW s \in Seq(Octet), NEW at \in Nat, NEW a \in Seq(Octet), NEW b \in Seq(Octet),
           CutOff(s, at, a \o b)
    PROVE  CutOff(s, at, a) \/ (Stands(s, at, a) /\ CutOff(s, at + Len(a), b))
<1>1. /\ Len(a) \in Nat /\ Len(b) \in Nat /\ Len(a \o b) = Len(a) + Len(b)
      /\ \A j \in 1..Len(a) : (a \o b)[j] = a[j]
      /\ \A j \in 1..Len(b) : (a \o b)[Len(a) + j] = b[j]
  BY Behind
<1>2. /\ at <= Len(s) /\ Len(s) < at + (Len(a) + Len(b)) /\ Len(s) \in Nat
      /\ \A j \in 1..(Len(s) - at) : s[at + j] = (a \o b)[j]
  BY <1>1 DEF CutOff
<1>3. CASE Len(s) < at + Len(a)
  <2>1. ASSUME NEW j \in 1..(Len(s) - at) PROVE s[at + j] = a[j]
    <3>1. j \in 1..Len(a)
      BY <1>1, <1>2, <1>3
    <3>2. QED BY <1>1, <1>2, <3>1
  <2>2. QED BY <1>2, <1>3, <2>1 DEF CutOff
<1>4. CASE at + Len(a) <= Len(s)
  <2>1. ASSUME NEW j \in 1..Len(a) PROVE s[at + j] = a[j]
    <3>1. j \in 1..(Len(s) - at)
      BY <1>1, <1>2, <1>4
    <3>2. QED BY <1>1, <1>2, <3>1
  <2>2. ASSUME NEW j \in 1..(Len(s) - (at + Len(a))) PROVE s[(at + Len(a)) + j] = b[j]
    <3>1. /\ Len(a) + j \in 1..(Len(s) - at) /\ j \in 1..Len(b)
          /\ (at + Len(a)) + j = at + (Len(a) + j)
      BY <1>1, <1>2, <1>4
    <3>2. QED BY <1>1, <1>2, <3>1
  <2>3. (at + Len(a)) + Len(b) = at + (Len(a) + Len(b))
    BY <1>1
  <2>4. QED BY <1>1, <1>2, <1>4, <2>1, <2>2, <2>3 DEF Stands, CutOff
<1>5. QED BY <1>1, <1>2, <1>3, <1>4

(* A number is read back from the bytes it was written in, or from the first of them:
   as much as these can carry.                                                  *)
LEMMA UintBack ==
    ASSUME NEW reader, NEW s \in Seq(Octet), NEW at \in Nat, NEW v \in Nat,
           NEW width \in Nat, NEW more \in Nat, width <= more,
           Stands(s, at, LittleEndian(v, more))
    PROVE  ReadUint(reader, s, at, width) =
               [end |-> "ok", val |-> v % Span(width), at |-> at + width]
<1> DEFINE w == LittleEndian(v, width)
           t == SubSeq(s, at + 1, at + width)
<1>1. Len(LittleEndian(v, more)) = more
  BY NumberBack
<1>2. /\ at + more <= Len(s) /\ Len(s) \in Nat
      /\ \A j \in 1..more : s[at + j] = LittleEndian(v, more)[j]
  BY <1>1 DEF Stands
<1>3. w \in Seq(Octet) /\ Len(w) = width /\ Number(w) = v % Span(width)
  BY NumberBack
<1>4. t \in Seq(Octet) /\ Len(t) = width /\ \A j \in 1..width : t[j] = s[at + j]
  BY <1>2
<1>5. ASSUME NEW j \in 1..width PROVE s[at + j] = w[j]
  <2>1. j \in 1..more
    OBVIOUS
  <2>2. LittleEndian(v, more)[j] = (v \div Span(j - 1)) % Radix
    BY <2>1 DEF LittleEndian
  <2>3. w[j] = (v \div Span(j - 1)) % Radix
    BY DEF LittleEndian
  <2>4. QED BY <1>2, <2>1, <2>2, <2>3
<1>6. t = w
  <2> HIDE DEF t, w
  <2>1. \A j \in 1..Len(t) : t[j] = w[j]
    BY <1>4, <1>5
  <2>2. QED BY <1>3, <1>4, <2>1, SeqEqual
<1>7. at + width <= Len(s)
  BY <1>2
<1>8. ReadUint(reader, s, at, width) = [end |-> "ok", val |-> Number(t), at |-> at + width]
  BY <1>7 DEF ReadUint
<1>9. QED BY <1>3, <1>6, <1>8

(* Where its bytes are missing it is not read. *)
LEMMA UintCut ==
    ASSUME NEW reader, NEW s \in Seq(Octet), NEW at \in Nat, NEW width \in Nat,
           at + width > Len(s)
    PROVE  /\ ReadUint(reader, s, at, width).end \in {"error", "panic"}
           /\ reader # "Serializer" => ReadUint(reader, s, at, width).end = "error"
<1>1. ~ (at + width <= Len(s))
  <2>1. Len(s) \in Nat /\ at + width \in Nat
    OBVIOUS
  <2>2. QED BY <2>1
<1>2. CASE width = 1
  BY <1>1, <1>2 DEF ReadUint
<1>3. CASE width # 1
  BY <1>1, <1>3 DEF ReadUint, Failure
<1>4. QED BY <1>2, <1>3

LEMMA OneByteSpan == Span(1) = Radix
<1>1. 0 \in Nat /\ 0 + 1 = 1
  OBVIOUS
<1>2. Span(0 + 1) = Radix * Span(0)
  BY <1>1, SpanFacts
<1>3. QED BY <1>1, <1>2, SpanFacts, RadixAssumption

(* A truth value, of one byte or of the two that the client writes. *)
LEMMA BoolBack ==
    ASSUME NEW reader, NEW writer, NEW s \in Seq(Octet), NEW at \in Nat, NEW b \in BOOLEAN,
           Stands(s, at, BoolBytes(writer, b))
    PROVE  ReadBool(reader, s, at) = [end |-> "ok", val |-> b, at |-> at + 1]
<1> DEFINE v     == IF b THEN Radix - 1 ELSE 0
           width == IF writer = "client" THEN 2 ELSE 1
<1>1. v \in Nat /\ v \in {0, Radix - 1} /\ v % Radix = v /\ (v # 0 <=> b)
  BY RadixAssumption
<1>2. width \in Nat /\ 1 <= width /\ BoolBytes(writer, b) = LittleEndian(v, width)
  BY DEF BoolBytes
<1> HIDE DEF v, width
<1>3. ReadUint(reader, s, at, 1) = [end |-> "ok", val |-> v % Span(1), at |-> at + 1]
  <2>1. 1 \in Nat
    OBVIOUS
  <2>2. QED BY <1>1, <1>2, <2>1, UintBack
<1>4. ReadUint(reader, s, at, 1) = [end |-> "ok", val |-> v, at |-> at + 1]
  BY <1>1, <1>3, OneByteSpan
<1>5. ReadBool(reader, s, at) = [end |-> "ok", val |-> (v # 0), at |-> at + 1]
  BY <1>1, <1>4 DEF ReadBool
<1>6. (v # 0) = b
  BY <1>1
<1>7. QED BY <1>5, <1>6

LEMMA Fitting ==
    ASSUME NEW n \in Nat, NEW head \in Nat, Fits(n, head)
    PROVE  n % Span(head) = n
<1>1. Span(head) \in Nat \ {0}
  BY SpanFacts
<1>2. n < Span(head)
  BY DEF Fits
<1>3. QED BY <1>1, <1>2

(* A byte string behind its length. *)
LEMMA BytesBack ==
    ASSUME NEW reader, NEW s \in Seq(Octet), NEW at \in Nat, NEW v \in Seq(Octet), NEW head \in Nat,
           Fits(Len(v), head), Stands(s, at, Prefixed(v, head))
    PROVE  ReadBytes(reader, s, at, head) = [end |-> "ok", val |-> v, at |-> (at + head) + Len(v)]
<1> DEFINE a == LittleEndian(Len(v), head)
<1>1. Len(v) \in Nat /\ Len(v) % Span(head) = Len(v)
  <2>1. Len(v) \in Nat
    OBVIOUS
  <2>2. QED BY <2>1, Fitting
<1>2. a \in Seq(Octet) /\ Len(a) = head
  BY <1>1, NumberBack
<1>3. Stands(s, at, a) /\ Stands(s, at + head, v)
  <2>1. Stands(s, at, a \o v)
    BY DEF Prefixed
  <2> HIDE DEF a
  <2>2. QED BY <1>2, <2>1, StandsParts
<1>4. ReadUint(reader, s, at, head) = [end |-> "ok", val |-> Len(v) % Span(head), at |-> at + head]
  BY <1>1, <1>3, UintBack
<1>5. ReadUint(reader, s, at, head) = [end |-> "ok", val |-> Len(v), at |-> at + head]
  BY <1>1, <1>4
<1> DEFINE t == SubSeq(s, (at + head) + 1, (at + head) + Len(v))
<1>6. (at + head) + Len(v) <= Len(s) /\ \A j \in 1..Len(v) : s[(at + head) + j] = v[j]
  BY <1>3 DEF Stands
<1>7. t = v
  <2>1. t \in Seq(Octet) /\ Len(t) = Len(v) /\ \A j \in 1..Len(v) : t[j] = s[(at + head) + j]
    BY <1>1, <1>6
  <2> HIDE DEF t
  <2>2. \A j \in 1..Len(t) : t[j] = v[j]
    BY <1>6, <2>1
  <2>3. QED BY <2>1, <2>2, SeqEqual
<1>8. ReadBytes(reader, s, at, head) = [end |-> "ok", val |-> t, at |-> (at + head) + Len(v)]
  BY <1>5, <1>6 DEF ReadBytes
<1>9. QED BY <1>7, <1>8

LEMMA BytesCut ==
    ASSUME NEW reader, reader # "Serializer", NEW s \in Seq(Octet), NEW at \in Nat,
           NEW v \in Seq(Octet), NEW head \in Nat,
           Fits(Len(v), head), CutOff(s, at, Prefixed(v, head))
    PROVE  ReadBytes(reader, s, at, head).end = "error"
<1> DEFINE a == LittleEndian(Len(v), head)
<1>1. Len(v) \in Nat /\ Len(v) % Span(head) = Len(v)
  <2>1. Len(v) \in Nat
    OBVIOUS
  <2>2. QED BY <2>1, Fitting
<1>2. a \in Seq(Octet) /\ Len(a) = head
  BY <1>1, NumberBack
<1>3. CutOff(s, at, a) \/ (Stands(s, at, a) /\ CutOff(s, at + head, v))
  <2>1. CutOff(s, at, a \o v)
    BY DEF Prefixed
  <2> HIDE DEF a
  <2>2. CutOff(s, at, a) \/ (Stands(s, at, a) /\ CutOff(s, at + Len(a), v))
    BY <1>2, <2>1, CutOffParts
  <2>3. QED BY <1>2, <2>2
<1>4. CASE CutOff(s, at, a)
  <2>1. at + head > Len(s)
    BY <1>2, <1>4 DEF CutOff
  <2>2. ReadUint(reader, s, at, head).end = "error"
    BY <2>1, UintCut
  <2>3. QED BY <2>2 DEF ReadBytes
<1>5. CASE Stands(s, at, a) /\ CutOff(s, at + head, v)
  <2>1. ReadUint(reader, s, at, head) = [end |-> "ok", val |-> Len(v) % Span(head), at |-> at + head]
    BY <1>1, <1>5, UintBack
  <2>2. ReadUint(reader, s, at, head) = [end |-> "ok", val |-> Len(v), at |-> at + head]
    BY <1>1, <2>1
  <2>3. ~ ((at + head) + Len(v) <= Len(s))
    <3>1. Len(s) < (at + head) + Len(v) /\ Len(s) \in Nat
      BY <1>5 DEF CutOff
    <3>2. QED BY <1>1, <3>1
  <2>4. QED BY <2>2, <2>3 DEF ReadBytes, Failure
<1>6. QED BY <1>3, <1>4, <1>5

(* One sequence behind the other; e tells where each of them ends. *)
Joined(e, bytes, parts, n) ==
    /\ bytes \in Seq(Octet)
    /\ e \in [0..n -> Nat] /\ e[0] = 0 /\ e[n] = Len(bytes)
    /\ \A i \in 1..n :
          /\ e[i] = e[i - 1] + Len(parts[i])
          /\ \A j \in 1..Len(parts[i]) : bytes[e[i - 1] + j] = parts[i][j]

LEMMA Within ==
    ASSUME NEW x \in Nat, NEW l \in Nat, NEW y \in Nat, NEW z \in Nat, y = x + l, y <= z
    PROVE  \A j \in 1..l : x + j \in 1..z
OBVIOUS

LEMMA Longer ==
    ASSUME NEW x \in Nat, NEW y \in Nat, NEW l \in Nat, x <= y
    PROVE  x <= y + l
OBVIOUS

LEMMA PartFits ==
    ASSUME NEW a \in Nat, NEW x \in Nat, NEW l \in Nat, NEW y \in Nat, NEW z \in Nat, NEW t \in Nat,
           y = x + l, y <= z, a + z <= t
    PROVE  (a + x) + l <= t /\ y <= t - a /\ t - a \in Nat
OBVIOUS

LEMMA PartCut ==
    ASSUME NEW a \in Nat, NEW z \in Nat, NEW l \in Nat, NEW t \in Nat,
           a + z <= t, t < (a + z) + l
    PROVE  \A j \in 1..(t - (a + z)) : z + j \in 1..(t - a) /\ j \in 1..l
OBVIOUS

LEMMA Concatenations ==
    ASSUME NEW n \in Nat, NEW parts \in [1..n -> Seq(Octet)],
           NEW g, g[0] = << >>, \A k \in 1..n : g[k] = g[k - 1] \o parts[k]
    PROVE  \E e : Joined(e, g[n], parts, n)
<1>1. \A k \in 0..n : g[k] \in Seq(Octet)
  <2> DEFINE T == {k \in 0..n : g[k] \in Seq(Octet)}
  <2>1. 0 \in T
    <3>1. 0 \in 0..n /\ << >> \in Seq(Octet)
      OBVIOUS
    <3>2. g[0] \in Seq(Octet)
      BY <3>1
    <3>3. QED BY <3>1, <3>2
  <2>2. ASSUME NEW k \in 0..(n - 1), k \in T PROVE k + 1 \in T
    <3>1. k + 1 \in 1..n /\ k + 1 \in 0..n /\ (k + 1) - 1 = k
      OBVIOUS
    <3>2. g[k + 1] = g[k] \o parts[k + 1] /\ parts[k + 1] \in Seq(Octet) /\ g[k] \in Seq(Octet)
      BY <2>2, <3>1
    <3>3. g[k] \o parts[k + 1] \in Seq(Octet)
      BY <3>2, ConcatProperties
    <3>4. QED BY <3>1, <3>2, <3>3
  <2> HIDE DEF T
  <2>3. \A k \in 0..n : k \in T
    BY <2>1, <2>2, UpTo
  <2>4. QED BY <2>3 DEF T
<1> DEFINE e == [k \in 0..n |-> Len(g[k])]
<1>2. /\ e \in [0..n -> Nat] /\ \A k \in 0..n : e[k] = Len(g[k]) /\ e[k] \in Nat
  BY <1>1
<1> HIDE DEF e
<1>3. ASSUME NEW i \in 1..n
      PROVE  /\ parts[i] \in Seq(Octet) /\ Len(parts[i]) \in Nat /\ e[i - 1] \in Nat
             /\ e[i] = e[i - 1] + Len(parts[i])
             /\ \A j \in 1..e[i - 1] : g[i][j] = g[i - 1][j]
             /\ \A j \in 1..Len(parts[i]) : g[i][e[i - 1] + j] = parts[i][j]
  <2>1. i - 1 \in 0..n /\ i \in 0..n
    OBVIOUS
  <2>2. g[i - 1] \in Seq(Octet) /\ parts[i] \in Seq(Octet) /\ g[i] = g[i - 1] \o parts[i]
    BY <1>1, <2>1
  <2> DEFINE a == g[i - 1]
             b == parts[i]
  <2>3. a \in Seq(Octet) /\ b \in Seq(Octet)
    BY <2>2
  <2> HIDE DEF a, b
  <2>4. /\ Len(a \o b) = Len(a) + Len(b) /\ Len(b) \in Nat
        /\ \A j \in 1..Len(a) : (a \o b)[j] = a[j]
        /\ \A j \in 1..Len(b) : (a \o b)[Len(a) + j] = b[j]
    BY <2>3, Behind
  <2>5. e[i - 1] = Len(a) /\ e[i] = Len(g[i]) /\ g[i] = a \o b
    BY <1>2, <2>1, <2>2 DEF a, b
  <2>6. QED BY <1>2, <2>1, <2>2, <2>4, <2>5 DEF a, b
<1>4. \A k \in 0..n : \A i \in 1..k : e[i] <= e[k]
         /\ \A j \in 1..Len(parts[i]) : g[k][e[i - 1] + j] = parts[i][j]
  <2> DEFINE Is(k, i) == /\ e[i] <= e[k]
                         /\ \A j \in 1..Len(parts[i]) : g[k][e[i - 1] + j] = parts[i][j]
             T == {k \in 0..n : \A i \in 1..k : Is(k, i)}
  <2>1. 0 \in T
    OBVIOUS
  <2>2. ASSUME NEW k \in 0..(n - 1), k \in T PROVE k + 1 \in T
    <3>1. k + 1 \in 1..n /\ k + 1 \in 0..n /\ (k + 1) - 1 = k /\ k \in 0..n
      OBVIOUS
    <3>2. /\ e[k + 1] = e[k] + Len(parts[k + 1]) /\ Len(parts[k + 1]) \in Nat /\ e[k] \in Nat
          /\ \A j \in 1..e[k] : g[k + 1][j] = g[k][j]
          /\ \A j \in 1..Len(parts[k + 1]) : g[k + 1][e[k] + j] = parts[k + 1][j]
      BY <1>3, <3>1
    <3>3. Is(k + 1, k + 1)
      <4>1. e[k + 1] <= e[k + 1]
        BY <1>2, <3>1
      <4>2. \A j \in 1..Len(parts[k + 1]) : g[k + 1][e[(k + 1) - 1] + j] = parts[k + 1][j]
        BY <3>1, <3>2
      <4>3. QED BY <4>1, <4>2
    <3>4. ASSUME NEW i \in 1..k PROVE Is(k + 1, i)
      <4>1. i \in 1..n /\ i \in 0..n
        BY <3>1
      <4>2. /\ e[i] \in Nat /\ e[i - 1] \in Nat /\ Len(parts[i]) \in Nat
            /\ e[i] = e[i - 1] + Len(parts[i])
        BY <1>2, <1>3, <4>1
      <4>3. e[i] <= e[k] /\ \A j \in 1..Len(parts[i]) : g[k][e[i - 1] + j] = parts[i][j]
        BY <2>2
      <4>4. e[i] <= e[k] /\ e[k] \in Nat /\ e[k + 1] = e[k] + Len(parts[k + 1])
            /\ Len(parts[k + 1]) \in Nat
        BY <3>2, <4>3
      <4>5. ASSUME NEW j \in 1..Len(parts[i]) PROVE g[k + 1][e[i - 1] + j] = parts[i][j]
        <5>1. e[i - 1] + j \in 1..e[k]
          BY <4>2, <4>4, Within
        <5>2. QED BY <3>2, <4>3, <5>1
      <4>6. e[i] <= e[k + 1]
        BY <4>2, <4>4, Longer
      <4>7. QED BY <4>5, <4>6
    <3> HIDE DEF Is
    <3>5. ASSUME NEW i \in 1..(k + 1) PROVE Is(k + 1, i)
      <4>1. i = k + 1 \/ i \in 1..k
        OBVIOUS
      <4>2. QED BY <3>3, <3>4, <4>1
    <3>6. QED BY <3>1, <3>5
  <2> HIDE DEF T
  <2>3. \A k \in 0..n : k \in T
    BY <2>1, <2>2, UpTo
  <2>4. QED BY <2>3 DEF T
<1>5. Joined(e, g[n], parts, n)
  <2>1. n \in 0..n /\ 0 \in 0..n
    OBVIOUS
  <2>2. e[0] = 0
    BY <1>2, <2>1
  <2>3. \A i \in 1..n : /\ e[i] = e[i - 1] + Len(parts[i])
                        /\ \A j \in 1..Len(parts[i]) : g[n][e[i - 1] + j] = parts[i][j]
    BY <1>3, <1>4, <2>1
  <2>4. QED BY <1>1, <1>2, <2>1, <2>2, <2>3 DEF Joined
<1>6. QED BY <1>5

LEMMA Chain ==
    ASSUME NEW n \in Nat, NEW step \in [1..n -> [Seq(Octet) -> Seq(Octet)]]
    PROVE  \E f \in [0..n -> Seq(Octet)] :
               f = [i \in 0..n |-> IF i = 0 THEN << >> ELSE step[i][f[i - 1]]]
<1> DEFINE S == Seq(Octet)
           b == << >>
<1>1. b \in S /\ step \in [1..n -> [S -> S]]
  OBVIOUS
<1> HIDE DEF S, b
<1>2. \E f \in [0..n -> S] : f = [i \in 0..n |-> IF i = 0 THEN b ELSE step[i][f[i - 1]]]
  BY <1>1, Recursion
<1>3. QED BY <1>2 DEF S, b

LEMMA Flattened ==
    ASSUME NEW n \in Nat, NEW parts \in [1..n -> Seq(Octet)]
    PROVE  \E e : Joined(e, FlattenSeq(parts), parts, n)
<1>1. Len(parts) = n /\ \A i \in 1..n : parts[i] \in Seq(Octet)
  OBVIOUS
<1>2. CASE n = 0
  <2> DEFINE g == [k \in 0..0 |-> parts]
  <2>1. parts = << >> /\ g[0] = << >> /\ g[n] = parts
    BY <1>2
  <2>2. \E e : Joined(e, g[n], parts, n)
    <3> HIDE DEF g
    <3>1. \A k \in 1..n : g[k] = g[k - 1] \o parts[k]
      BY <1>2
    <3>2. QED BY <1>1, <2>1, <3>1, Concatenations
  <2>3. FlattenSeq(parts) = parts
    BY <1>1, <1>2 DEF FlattenSeq
  <2>4. QED BY <2>1, <2>2, <2>3
<1>3. CASE n # 0
  <2> DEFINE S    == Seq(Octet)
             step == [i \in 1..n |-> [x \in S |-> x \o parts[i]]]
             Is(f) == f = [i \in 1..n |-> IF i = 1 THEN parts[i] ELSE f[i - 1] \o parts[i]]
  <2>1. step \in [1..n -> [S -> S]]
    <3>1. ASSUME NEW i \in 1..n, NEW x \in S PROVE x \o parts[i] \in S
      BY <1>1, <3>1, ConcatProperties
    <3>2. QED BY <3>1
  <2> HIDE DEF step
  <2>2. PICK f \in [0..n -> S] : f = [i \in 0..n |-> IF i = 0 THEN << >> ELSE step[i][f[i - 1]]]
    BY <2>1, Chain
  <2> HIDE DEF S
  <2> DEFINE h == [i \in 1..n |-> f[i]]
  <2>3. Is(h)
    <3>1. ASSUME NEW i \in 1..n
          PROVE  h[i] = IF i = 1 THEN parts[i] ELSE h[i - 1] \o parts[i]
      <4>1. i \in 0..n /\ i - 1 \in 0..n /\ i # 0
        BY <1>1
      <4>2. f[i] = step[i][f[i - 1]] /\ f[i - 1] \in S
        BY <2>2, <4>1
      <4>3. step[i][f[i - 1]] = f[i - 1] \o parts[i]
        BY <4>2 DEF step, S
      <4>4. CASE i = 1
        <5>1. f[0] = << >>
          BY <1>1, <2>2
        <5>2. << >> \o parts[i] = parts[i]
          BY <1>1, ConcatEmptySeq
        <5>3. h[i] = f[i] /\ f[i - 1] = f[0]
          BY <4>4
        <5>4. QED BY <4>2, <4>3, <4>4, <5>1, <5>2, <5>3
      <4>5. CASE i # 1
        <5>1. i - 1 \in 1..n
          BY <1>1, <4>5
        <5>2. h[i] = f[i] /\ h[i - 1] = f[i - 1]
          BY <5>1
        <5>3. QED BY <4>2, <4>3, <4>5, <5>2
      <4>6. QED BY <4>4, <4>5
    <3>2. h = [i \in 1..n |-> h[i]]
      OBVIOUS
    <3> HIDE DEF h
    <3>3. QED BY <3>1, <3>2
  <2> HIDE DEF h
  <2>4. \E k : Is(k) /\ FlattenSeq(parts) = k[n]
    BY <1>1, <1>3, <2>3 DEF FlattenSeq
  <2>5. PICK k : Is(k) /\ FlattenSeq(parts) = k[n]
    BY <2>4
  <2> DEFINE g == [i \in 0..n |-> IF i = 0 THEN << >> ELSE k[i]]
  <2>6. g[0] = << >> /\ g[n] = k[n]
    BY <1>1, <1>3
  <2>7. ASSUME NEW i \in 1..n PROVE g[i] = g[i - 1] \o parts[i]
    <3>1. i \in 0..n /\ i - 1 \in 0..n /\ i # 0 /\ (i - 1 = 0 <=> i = 1)
      BY <1>1
    <3>2. g[i] = k[i] /\ g[i - 1] = IF i = 1 THEN << >> ELSE k[i - 1]
      BY <3>1
    <3>3. k[i] = IF i = 1 THEN parts[i] ELSE k[i - 1] \o parts[i]
      BY <2>5
    <3>4. << >> \o parts[i] = parts[i]
      BY <1>1, ConcatEmptySeq
    <3> HIDE DEF g
    <3>5. QED BY <3>2, <3>3, <3>4
  <2> HIDE DEF g
  <2>8. \E e : Joined(e, g[n], parts, n)
    BY <1>1, <2>6, <2>7, Concatenations
  <2>9. QED BY <2>5, <2>6, <2>8
<1>4. QED BY <1>2, <1>3

LEMMA EndsGrow ==
    ASSUME NEW n \in Nat, NEW parts \in [1..n -> Seq(Octet)], NEW e, NEW bytes,
           Joined(e, bytes, parts, n)
    PROVE  \A i, k \in 0..n : i <= k => e[i] <= e[k]
<1> SUFFICES ASSUME NEW i \in 0..n PROVE \A k \in 0..n : i <= k => e[i] <= e[k]
  OBVIOUS
<1>1. /\ \A k \in 0..n : e[k] \in Nat
      /\ \A k \in 1..n : e[k] = e[k - 1] + Len(parts[k])
  BY DEF Joined
<1>2. \A k \in 1..n : Len(parts[k]) \in Nat
  OBVIOUS
<1> DEFINE T == {k \in 0..n : i <= k => e[i] <= e[k]}
<1>3. 0 \in T
  BY <1>1
<1>4. ASSUME NEW k \in 0..(n - 1), k \in T PROVE k + 1 \in T
  <2>1. k + 1 \in 1..n /\ k + 1 \in 0..n /\ k \in 0..n /\ (k + 1) - 1 = k
    OBVIOUS
  <2>2. e[k + 1] = e[k] + Len(parts[k + 1]) /\ Len(parts[k + 1]) \in Nat
        /\ e[k] \in Nat /\ e[i] \in Nat /\ e[k + 1] \in Nat
    BY <1>1, <1>2, <2>1
  <2>3. CASE i = k + 1
    BY <2>1, <2>2, <2>3
  <2>4. CASE i <= k
    <3>1. e[i] <= e[k]
      BY <1>4, <2>4
    <3>2. e[i] <= e[k + 1]
      BY <2>2, <3>1, Longer
    <3>3. QED BY <2>1, <3>2
  <2>5. QED BY <2>1, <2>3, <2>4
<1> HIDE DEF T
<1>5. \A k \in 0..n : k \in T
  BY <1>3, <1>4, UpTo
<1>6. QED BY <1>5 DEF T

LEMMA StandsJoined ==
    ASSUME NEW s \in Seq(Octet), NEW at \in Nat, NEW n \in Nat, NEW parts \in [1..n -> Seq(Octet)],
           NEW e, NEW bytes, Joined(e, bytes, parts, n), Stands(s, at, bytes)
    PROVE  \A i \in 1..n : Stands(s, at + e[i - 1], parts[i])
<1> SUFFICES ASSUME NEW i \in 1..n PROVE Stands(s, at + e[i - 1], parts[i])
  OBVIOUS
<1>1. i \in 0..n /\ i - 1 \in 0..n /\ n \in 0..n /\ i <= n
  OBVIOUS
<1>2. /\ e[i - 1] \in Nat /\ e[i] \in Nat /\ e[n] \in Nat /\ e[n] = Len(bytes)
      /\ e[i] = e[i - 1] + Len(parts[i])
      /\ \A j \in 1..Len(parts[i]) : bytes[e[i - 1] + j] = parts[i][j]
  BY <1>1 DEF Joined
<1>3. e[i] <= e[n]
  BY <1>1, EndsGrow
<1>4. Len(parts[i]) \in Nat /\ Len(s) \in Nat
  OBVIOUS
<1>5. at + Len(bytes) <= Len(s) /\ \A j \in 1..Len(bytes) : s[at + j] = bytes[j]
  BY DEF Stands
<1>6. (at + e[i - 1]) + Len(parts[i]) <= Len(s)
  BY <1>2, <1>3, <1>4, <1>5
<1>7. ASSUME NEW j \in 1..Len(parts[i]) PROVE s[(at + e[i - 1]) + j] = parts[i][j]
  <2>1. e[i - 1] + j \in 1..Len(bytes)
    BY <1>2, <1>3, <1>4, Within
  <2>2. (at + e[i - 1]) + j = at + (e[i - 1] + j)
    BY <1>2, <1>4
  <2>3. QED BY <1>2, <1>5, <2>1, <2>2
<1>8. QED BY <1>6, <1>7 DEF Stands

LEMMA CutOffJoined ==
    ASSUME NEW s \in Seq(Octet), NEW at \in Nat, NEW n \in Nat, NEW parts \in [1..n -> Seq(Octet)],
           NEW e, NEW bytes, Joined(e, bytes, parts, n), CutOff(s, at, bytes)
    PROVE  \E k \in 0..(n - 1) : /\ \A i \in 1..k : Stands(s, at + e[i - 1], parts[i])
                                 /\ CutOff(s, at + e[k], parts[k + 1])
<1> DEFINE T == {k \in 0..n : at + e[k] <= Len(s)}
<1>1. /\ \A k \in 0..n : e[k] \in Nat
      /\ e[0] = 0 /\ e[n] = Len(bytes)
      /\ \A i \in 1..n : /\ e[i] = e[i - 1] + Len(parts[i])
                         /\ \A j \in 1..Len(parts[i]) : bytes[e[i - 1] + j] = parts[i][j]
  BY DEF Joined
<1>2. /\ at <= Len(s) /\ Len(s) < at + Len(bytes)
      /\ \A j \in 1..(Len(s) - at) : s[at + j] = bytes[j]
  BY DEF CutOff
<1>3. Len(s) \in Nat /\ \A i \in 1..n : Len(parts[i]) \in Nat
  OBVIOUS
<1>4. 0 \in T
  BY <1>1, <1>2
<1>5. n \notin T
  BY <1>1, <1>2, <1>3
<1>6. PICK k \in 0..(n - 1) : k \in T /\ k + 1 \notin T
  <2> HIDE DEF T
  <2>1. ~ \A k \in 0..(n - 1) : k \in T => k + 1 \in T
    <3>1. n \in 0..n
      OBVIOUS
    <3>2. QED BY <1>4, <1>5, <3>1, UpTo
  <2>2. QED BY <2>1
<1>7. /\ k \in 0..n /\ k + 1 \in 0..n /\ k + 1 \in 1..n /\ (k + 1) - 1 = k
      /\ e[k] \in Nat /\ e[k + 1] \in Nat
      /\ at + e[k] <= Len(s) /\ ~ (at + e[k + 1] <= Len(s))
  <2>1. k \in 0..n /\ k + 1 \in 0..n /\ k + 1 \in 1..n /\ (k + 1) - 1 = k
    OBVIOUS
  <2>2. QED BY <1>1, <1>6, <2>1
<1>8. ASSUME NEW i \in 1..k PROVE Stands(s, at + e[i - 1], parts[i])
  <2>1. i \in 1..n /\ i \in 0..n /\ i - 1 \in 0..n /\ i <= k
    BY <1>7
  <2>2. e[i] <= e[k]
    BY <1>7, <2>1, EndsGrow
  <2>3. /\ e[i] = e[i - 1] + Len(parts[i]) /\ e[i] \in Nat /\ e[i - 1] \in Nat
        /\ Len(parts[i]) \in Nat
    BY <1>1, <1>3, <2>1
  <2>4. \A j \in 1..Len(parts[i]) : bytes[e[i - 1] + j] = parts[i][j]
    BY <1>1, <2>1
  <2>5. (at + e[i - 1]) + Len(parts[i]) <= Len(s) /\ e[i] <= Len(s) - at /\ Len(s) - at \in Nat
    <3>1. at + e[k] <= Len(s) /\ e[k] \in Nat /\ Len(s) \in Nat
      BY <1>3, <1>7
    <3> DEFINE x == e[i - 1]
               l == Len(parts[i])
               y == e[i]
               z == e[k]
               t == Len(s)
    <3>2. /\ x \in Nat /\ l \in Nat /\ y \in Nat /\ z \in Nat /\ t \in Nat
          /\ y = x + l /\ y <= z /\ at + z <= t
      BY <2>2, <2>3, <3>1
    <3> HIDE DEF x, l, y, z, t
    <3>3. (at + x) + l <= t /\ y <= t - at /\ t - at \in Nat
      BY <3>2, PartFits
    <3>4. QED BY <3>3 DEF x, l, y, t
  <2>6. ASSUME NEW j \in 1..Len(parts[i]) PROVE s[(at + e[i - 1]) + j] = parts[i][j]
    <3>1. e[i - 1] + j \in 1..(Len(s) - at)
      BY <2>3, <2>5, Within
    <3>2. (at + e[i - 1]) + j = at + (e[i - 1] + j)
      BY <2>3
    <3>3. QED BY <1>2, <2>4, <3>1, <3>2
  <2>7. QED BY <2>5, <2>6 DEF Stands
<1>9. CutOff(s, at + e[k], parts[k + 1])
  <2>1. e[k + 1] = e[k] + Len(parts[k + 1]) /\ Len(parts[k + 1]) \in Nat
    BY <1>1, <1>3, <1>7
  <2>2. \A j \in 1..Len(parts[k + 1]) : bytes[e[k] + j] = parts[k + 1][j]
    BY <1>1, <1>7
  <2>3. Len(s) < (at + e[k]) + Len(parts[k + 1])
    BY <1>3, <1>7, <2>1
  <2>4. ASSUME NEW j \in 1..(Len(s) - (at + e[k])) PROVE s[(at + e[k]) + j] = parts[k + 1][j]
    <3>1. e[k] + j \in 1..(Len(s) - at) /\ j \in 1..Len(parts[k + 1])
      BY <1>3, <1>7, <2>1, <2>3, PartCut
    <3>2. (at + e[k]) + j = at + (e[k] + j)
      BY <1>3, <1>7
    <3>3. QED BY <1>2, <2>2, <3>1, <3>2
  <2>5. QED BY <1>7, <2>3, <2>4 DEF CutOff
<1>10. QED BY <1>8, <1>9

(* What has been read of n values, one after the other: the first k of q came out right. *)
Reads(r, n, k, e, vals, q) ==
    /\ r = [i \in 0..n |-> r[i]]
    /\ r[0] = [end |-> "ok", val |-> << >>, at |-> e[0]]
    /\ \A i \in 1..n : i <= k + 1 => r[i - 1].at = e[i - 1] /\ r[i] = With(r[i - 1], q[i])
    /\ \A i \in 1..n : i > k + 1 => \A x : r[i] = With(r[i - 1], x)
    /\ k = n => r[n] = [end |-> "ok", val |-> vals, at |-> e[n]]
    /\ k < n => r[n].end = q[k + 1].end

(* Reading goes on as long as the values q come out right, those of vals, each ending where
   the next begins; it ends where one does not.                                 *)
LEMMA ReadOn ==
    ASSUME NEW n \in Nat, NEW k \in 0..n, NEW e \in [0..n -> Nat], NEW V, NEW vals \in [1..n -> V],
           NEW q, \A i \in 1..k : q[i] = [end |-> "ok", val |-> vals[i], at |-> e[i]],
           k < n => q[k + 1].end # "ok"
    PROVE  \E r : Reads(r, n, k, e, vals, q)
<1> DEFINE pre(i) == [j \in 1..i |-> vals[j]]
           good(i) == [end |-> "ok", val |-> pre(i), at |-> e[i]]
           bad == [end |-> q[k + 1].end, val |-> pre(k), at |-> q[k + 1].at]
           r == [i \in 0..n |-> IF i <= k THEN good(i) ELSE bad]
<1>1. pre(0) = << >> /\ pre(n) = vals
  OBVIOUS
<1>2. ASSUME NEW i \in 1..n PROVE Append(pre(i - 1), vals[i]) = pre(i)
  <2>1. pre(i - 1) \in Seq(V) /\ Len(pre(i - 1)) = i - 1 /\ vals[i] \in V
    OBVIOUS
  <2>2. \A j \in 1..(i - 1) : pre(i - 1)[j] = vals[j]
    OBVIOUS
  <2>3. pre(i) \in Seq(V) /\ Len(pre(i)) = i /\ \A j \in 1..i : pre(i)[j] = vals[j]
    OBVIOUS
  <2> DEFINE t == Append(pre(i - 1), vals[i])
  <2>4. t \in Seq(V) /\ Len(t) = i /\ t[i] = vals[i] /\ \A j \in 1..(i - 1) : t[j] = vals[j]
    <3> DEFINE p == pre(i - 1)
               x == vals[i]
    <3>1. p \in Seq(V) /\ Len(p) = i - 1 /\ x \in V
      BY <2>1
    <3> HIDE DEF p, x
    <3>2. /\ Append(p, x) \in Seq(V) /\ Len(Append(p, x)) = i /\ Append(p, x)[i] = x
          /\ \A j \in 1..(i - 1) : Append(p, x)[j] = p[j]
      BY <3>1
    <3>3. QED BY <2>2, <3>2 DEF p, x
  <2> HIDE DEF t, pre
  <2>5. \A j \in 1..Len(t) : t[j] = pre(i)[j]
    BY <2>3, <2>4
  <2>6. t = pre(i)
    BY <2>3, <2>4, <2>5, SeqEqual
  <2>7. QED BY <2>6 DEF t
<1> HIDE DEF pre
<1>3. /\ \A i \in 0..n : i <= k => r[i] = good(i)
      /\ \A i \in 0..n : i > k => r[i] = bad
  OBVIOUS
<1>4. r = [i \in 0..n |-> r[i]]
  OBVIOUS
<1> HIDE DEF r
<1>5. r[0] = [end |-> "ok", val |-> << >>, at |-> e[0]]
  BY <1>1, <1>3
<1>6. ASSUME NEW i \in 1..n, i <= k + 1
      PROVE  r[i - 1].at = e[i - 1] /\ r[i] = With(r[i - 1], q[i])
  <2>1. i - 1 \in 0..n /\ i - 1 <= k /\ i \in 0..n
    BY <1>6
  <2>2. r[i - 1] = good(i - 1)
    BY <1>3, <2>1
  <2>3. CASE i <= k
    <3>1. q[i] = [end |-> "ok", val |-> vals[i], at |-> e[i]]
      BY <2>3
    <3>2. With(r[i - 1], q[i]) = [end |-> "ok", at |-> e[i], val |-> Append(pre(i - 1), vals[i])]
      BY <2>2, <3>1 DEF With
    <3>3. r[i] = good(i)
      BY <1>3, <2>1, <2>3
    <3>4. Append(pre(i - 1), vals[i]) = pre(i)
      BY <1>2
    <3>5. r[i - 1].at = e[i - 1]
      BY <2>2
    <3>6. QED BY <3>2, <3>3, <3>4, <3>5
  <2>4. CASE i = k + 1
    <3>1. q[i].end # "ok" /\ k < n
      BY <2>4
    <3>2. r[i] = bad /\ i - 1 = k
      BY <1>3, <2>1, <2>4
    <3>3. With(r[i - 1], q[i]) = [end |-> q[i].end, at |-> q[i].at, val |-> pre(k)]
      BY <2>2, <3>1, <3>2 DEF With
    <3>4. QED BY <2>2, <2>4, <3>2, <3>3
  <2>5. QED BY <1>6, <2>3, <2>4
<1>7. ASSUME NEW i \in 1..n, i > k + 1, NEW x PROVE r[i] = With(r[i - 1], x)
  <2>1. i - 1 \in 0..n /\ i - 1 > k /\ i \in 0..n /\ i > k /\ k < n
    BY <1>7
  <2>2. r[i - 1] = bad /\ r[i] = bad /\ bad.end # "ok"
    BY <1>3, <2>1
  <2>3. QED BY <2>2 DEF With
<1>8. k = n => r[n] = [end |-> "ok", val |-> vals, at |-> e[n]]
  BY <1>1, <1>3
<1>9. k < n => r[n].end = q[k + 1].end
  BY <1>3
<1>10. Reads(r, n, k, e, vals, q)
  BY <1>4, <1>5, <1>6, <1>7, <1>8, <1>9 DEF Reads
<1>11. QED BY <1>10

(* The prefixed strings of a list. *)
Items(v, head) == [i \in DOMAIN v |-> Prefixed(v[i], head)]

LEMMA PrefixedBytes ==
    ASSUME NEW v \in Seq(Octet), NEW head \in Nat
    PROVE  Prefixed(v, head) \in Seq(Octet) /\ Len(Prefixed(v, head)) = head + Len(v)
<1>1. Len(v) \in Nat
  OBVIOUS
<1> DEFINE a == LittleEndian(Len(v), head)
<1>2. a \in Seq(Octet) /\ Len(a) = head
  BY <1>1, NumberBack
<1> HIDE DEF a
<1>3. a \o v \in Seq(Octet) /\ Len(a \o v) = Len(a) + Len(v)
  <2>1. a \in Seq(Octet)
    BY <1>2
  <2>2. QED BY <2>1, Behind
<1>4. Prefixed(v, head) = a \o v
  BY DEF Prefixed, a
<1>5. QED BY <1>2, <1>3, <1>4

(* The count of a list is there, and its strings up to the kth, each where the one before
   it ends; the next one cannot be read.                                        *)
ReadUpTo(reader, s, at, count, head, n, vals, k, e) ==
    /\ ReadUint(reader, s, at, count) = [end |-> "ok", val |-> n, at |-> e[0]]
    /\ \A i \in 1..k : ReadBytes(reader, s, e[i - 1], head) =
                           [end |-> "ok", val |-> vals[i], at |-> e[i]]
    /\ k < n => ReadBytes(reader, s, e[k], head).end # "ok"

(* Then either all the strings came out, or the reading ends as that of the next one. *)
ListEnds(reader, s, at, count, head, n, vals, k, e) ==
    /\ k = n => ReadList(reader, s, at, List(count, head)) = [end |-> "ok", val |-> vals, at |-> e[n]]
    /\ k < n => ReadList(reader, s, at, List(count, head)).end =
                    ReadBytes(reader, s, e[k], head).end

(* A list is read string by string: all of them, or up to the first that cannot be read. *)
LEMMA ListRead ==
    ASSUME NEW reader, NEW s \in Seq(Octet), NEW at \in Nat, NEW count \in Nat, NEW head \in Nat,
           NEW n \in Nat, NEW vals \in [1..n -> Seq(Octet)], NEW k \in 0..n, NEW e \in [0..n -> Nat],
           ReadUpTo(reader, s, at, count, head, n, vals, k, e)
    PROVE  ListEnds(reader, s, at, count, head, n, vals, k, e)
<1>0. /\ ReadUint(reader, s, at, count) = [end |-> "ok", val |-> n, at |-> e[0]]
      /\ \A i \in 1..k : ReadBytes(reader, s, e[i - 1], head) =
                             [end |-> "ok", val |-> vals[i], at |-> e[i]]
      /\ k < n => ReadBytes(reader, s, e[k], head).end # "ok"
  BY DEF ReadUpTo
<1> DEFINE f == List(count, head)
           q == [i \in 1..n |-> ReadBytes(reader, s, e[i - 1], head)]
           Is(r) == r = [i \in 0..n |-> IF i = 0 THEN [end |-> "ok", val |-> << >>, at |-> e[0]]
                                        ELSE With(r[i - 1], ReadBytes(reader, s, r[i - 1].at, head))]
<1>1. \A i \in 1..k : q[i] = [end |-> "ok", val |-> vals[i], at |-> e[i]]
  BY <1>0
<1>2. k < n => q[k + 1] = ReadBytes(reader, s, e[k], head)
  <2>1. k < n => k + 1 \in 1..n /\ (k + 1) - 1 = k
    OBVIOUS
  <2>2. QED BY <2>1
<1>3. \A i \in 1..n : q[i] = ReadBytes(reader, s, e[i - 1], head)
  OBVIOUS
<1> HIDE DEF q
<1>4. PICK r : Reads(r, n, k, e, vals, q)
  <2>1. k < n => q[k + 1].end # "ok"
    BY <1>0, <1>2
  <2>2. QED BY <1>1, <2>1, ReadOn
<1>5. \A i \in 1..n : r[i] = With(r[i - 1], ReadBytes(reader, s, r[i - 1].at, head))
  <2> SUFFICES ASSUME NEW i \in 1..n
               PROVE  r[i] = With(r[i - 1], ReadBytes(reader, s, r[i - 1].at, head))
    OBVIOUS
  <2>1. CASE i <= k + 1
    BY <1>3, <1>4, <2>1 DEF Reads
  <2>2. CASE i > k + 1
    BY <1>4, <2>2 DEF Reads
  <2>3. QED BY <2>1, <2>2
<1>6. Is(r)
  <2>1. \A i \in 0..n : r[i] = IF i = 0 THEN [end |-> "ok", val |-> << >>, at |-> e[0]]
                               ELSE With(r[i - 1], ReadBytes(reader, s, r[i - 1].at, head))
    <3>1. \A i \in 0..n : i # 0 => i \in 1..n
      OBVIOUS
    <3>2. QED BY <1>4, <1>5, <3>1 DEF Reads
  <2>2. r = [i \in 0..n |-> r[i]]
    BY <1>4 DEF Reads
  <2>3. QED BY <2>1, <2>2
<1>7. \E g : Is(g) /\ ReadList(reader, s, at, f) = g[n]
  <2>1. f.count = count /\ f.head = head
    BY DEF List
  <2> HIDE DEF f
  <2> DEFINE u == ReadUint(reader, s, at, f.count)
             m == IF u.end = "ok" THEN u.val ELSE 0
             Raw(g) == g = [i \in 0..m |->
                              IF i = 0 THEN [end |-> u.end, val |-> << >>, at |-> u.at]
                              ELSE With(g[i - 1], ReadBytes(reader, s, g[i - 1].at, f.head))]
  <2>2. u.end = "ok" /\ u.at = e[0] /\ m = n
    BY <1>0, <2>1
  <2>3. \A g : Raw(g) <=> Is(g)
    <3> HIDE DEF u, m
    <3>1. QED BY <2>1, <2>2
  <2>4. \E g : Raw(g)
    <3> HIDE DEF Raw, Is
    <3>1. QED BY <1>6, <2>3
  <2>5. \E g : Raw(g) /\ ReadList(reader, s, at, f) = g[m]
    BY <2>4 DEF ReadList
  <2> HIDE DEF Raw, Is, m
  <2>6. QED BY <2>2, <2>3, <2>5
<1>8. PICK g : Is(g) /\ ReadList(reader, s, at, f) = g[n]
  BY <1>7
<1>9. g[n] = r[n]
  <2> DEFINE T == {i \in 0..n : g[i] = r[i]}
  <2>1. 0 \in T
    BY <1>4, <1>8 DEF Reads
  <2>2. ASSUME NEW i \in 0..(n - 1), i \in T PROVE i + 1 \in T
    <3>1. i + 1 \in 0..n /\ i + 1 \in 1..n /\ i + 1 # 0 /\ (i + 1) - 1 = i
      OBVIOUS
    <3>2. g[i + 1] = With(g[i], ReadBytes(reader, s, g[i].at, head))
      BY <1>8, <3>1
    <3>3. r[i + 1] = With(r[i], ReadBytes(reader, s, r[i].at, head))
      BY <1>5, <3>1
    <3>4. QED BY <2>2, <3>1, <3>2, <3>3
  <2> HIDE DEF T
  <2>3. \A i \in 0..n : i \in T
    BY <2>1, <2>2, UpTo
  <2>4. n \in 0..n
    OBVIOUS
  <2>5. QED BY <2>3, <2>4 DEF T
<1>10. ReadList(reader, s, at, f) = r[n]
  BY <1>8, <1>9
<1>11. QED BY <1>2, <1>4, <1>10 DEF Reads, f, ListEnds

(* A list whose count cannot be read is not read at all. *)
LEMMA ListHeadless ==
    ASSUME NEW reader, NEW s, NEW at, NEW count, NEW head,
           ReadUint(reader, s, at, count).end # "ok"
    PROVE  ReadList(reader, s, at, List(count, head)).end = ReadUint(reader, s, at, count).end
<1> DEFINE f == List(count, head)
           u == ReadUint(reader, s, at, f.count)
           m == IF u.end = "ok" THEN u.val ELSE 0
           Raw(g) == g = [i \in 0..m |->
                            IF i = 0 THEN [end |-> u.end, val |-> << >>, at |-> u.at]
                            ELSE With(g[i - 1], ReadBytes(reader, s, g[i - 1].at, f.head))]
<1>1. f.count = count
  BY DEF List
<1> HIDE DEF f
<1>2. m = 0
  BY <1>1
<1>3. \E g : Raw(g)
  <2> DEFINE g == [i \in 0..0 |-> [end |-> u.end, val |-> << >>, at |-> u.at]]
  <2>1. Raw(g)
    BY <1>2
  <2>2. QED BY <2>1
<1>4. \E g : Raw(g) /\ ReadList(reader, s, at, f) = g[m]
  BY <1>3 DEF ReadList
<1>5. PICK g : Raw(g) /\ ReadList(reader, s, at, f) = g[m]
  BY <1>4
<1>6. g[0] = [end |-> u.end, val |-> << >>, at |-> u.at]
  BY <1>2, <1>5
<1>7. ReadList(reader, s, at, f).end = u.end
  BY <1>2, <1>5, <1>6
<1>8. QED BY <1>1, <1>7 DEF f

(* A list that was written whole, and one whose end is missing. *)
ListBytes(n, v, count, head) == LittleEndian(n, count) \o FlattenSeq(Items(v, head))

ListComes(reader, s, at, n, v, count, head) ==
    LET w == ListBytes(n, v, count, head)
    IN  /\ w \in Seq(Octet)
        /\ Stands(s, at, w) => ReadList(reader, s, at, List(count, head)) =
                                   [end |-> "ok", val |-> v, at |-> at + Len(w)]
        /\ CutOff(s, at, w) /\ reader # "Serializer" =>
             ReadList(reader, s, at, List(count, head)).end = "error"

LEMMA ListBack ==
    ASSUME NEW reader, NEW s \in Seq(Octet), NEW at \in Nat, NEW count \in Nat, NEW head \in Nat,
           NEW n \in Nat, NEW v \in [1..n -> Seq(Octet)],
           Fits(n, count), \A i \in 1..n : Fits(Len(v[i]), head)
    PROVE  ListComes(reader, s, at, n, v, count, head)
<1> DEFINE a     == LittleEndian(n, count)
           items == Items(v, head)
           flat  == FlattenSeq(items)
           f     == List(count, head)
           w     == a \o flat
<1>1. n \in Nat /\ \A i \in 1..n : v[i] \in Seq(Octet)
  OBVIOUS
<1>2. Fits(n, count) /\ \A i \in 1..n : Fits(Len(v[i]), head)
  OBVIOUS
<1> HIDE DEF f
<1>3. a \in Seq(Octet) /\ Len(a) = count /\ n % Span(count) = n
  BY <1>1, <1>2, NumberBack, Fitting
<1>4. /\ items \in [1..n -> Seq(Octet)]
      /\ \A i \in 1..n : items[i] = Prefixed(v[i], head) /\ Len(items[i]) = head + Len(v[i])
  <2>1. DOMAIN v = 1..n
    OBVIOUS
  <2>2. \A i \in 1..n : v[i] \in Seq(Octet)
    BY <1>1
  <2>3. \A i \in 1..n : /\ Prefixed(v[i], head) \in Seq(Octet)
                        /\ Len(Prefixed(v[i], head)) = head + Len(v[i])
    BY <2>2, PrefixedBytes
  <2>4. items = [i \in 1..n |-> Prefixed(v[i], head)]
    BY <2>1 DEF Items
  <2> HIDE DEF items
  <2>5. QED BY <2>3, <2>4
<1> HIDE DEF items
<1>5. PICK e : Joined(e, flat, items, n)
  BY <1>1, <1>4, Flattened
<1>6. flat \in Seq(Octet) /\ Len(flat) = e[n] /\ e[0] = 0 /\ e \in [0..n -> Nat]
      /\ \A i \in 1..n : e[i] = e[i - 1] + Len(items[i])
  BY <1>5 DEF Joined
<1> HIDE DEF a, flat
<1>7. w \in Seq(Octet) /\ Len(w) = count + e[n]
  <2>1. a \in Seq(Octet) /\ flat \in Seq(Octet)
    BY <1>3, <1>6
  <2>2. a \o flat \in Seq(Octet) /\ Len(a \o flat) = Len(a) + Len(flat)
    BY <2>1, Behind
  <2>3. QED BY <1>3, <1>6, <2>2
<1> HIDE DEF w
<1> DEFINE from == at + count
           d    == [i \in 0..n |-> from + e[i]]
<1>8. from \in Nat /\ d \in [0..n -> Nat] /\ d[0] = from /\ \A i \in 0..n : d[i] = from + e[i]
  BY <1>1, <1>6
<1> HIDE DEF from, d
<1>9. ASSUME Stands(s, at, a)
      PROVE  ReadUint(reader, s, at, count) = [end |-> "ok", val |-> n, at |-> d[0]]
  <2>1. ReadUint(reader, s, at, count) = [end |-> "ok", val |-> n % Span(count), at |-> at + count]
    BY <1>1, <1>9, UintBack DEF a
  <2>2. QED BY <1>3, <1>8, <2>1 DEF from
<1>10. ASSUME NEW i \in 1..n, Stands(s, from + e[i - 1], items[i])
       PROVE  ReadBytes(reader, s, d[i - 1], head) = [end |-> "ok", val |-> v[i], at |-> d[i]]
  <2>1. i - 1 \in 0..n /\ i \in 0..n
    BY <1>1
  <2>2. d[i - 1] = from + e[i - 1] /\ d[i] = from + e[i] /\ e[i] = e[i - 1] + (head + Len(v[i]))
    BY <1>4, <1>6, <1>8, <2>1
  <2>3. /\ v[i] \in Seq(Octet) /\ Fits(Len(v[i]), head)
        /\ d[i - 1] \in Nat /\ e[i - 1] \in Nat /\ Len(v[i]) \in Nat
    <3>1. v[i] \in Seq(Octet) /\ Fits(Len(v[i]), head)
      BY <1>1, <1>2
    <3>2. Len(v[i]) \in Nat
      BY <3>1
    <3>3. d[i - 1] \in Nat /\ e[i - 1] \in Nat
      BY <1>6, <1>8, <2>1
    <3>4. QED BY <3>1, <3>2, <3>3
  <2>4. Stands(s, d[i - 1], Prefixed(v[i], head))
    BY <1>4, <1>10, <2>2
  <2> DEFINE x == v[i]
             p == d[i - 1]
  <2>5. ReadBytes(reader, s, p, head) = [end |-> "ok", val |-> x, at |-> (p + head) + Len(x)]
    <3>1. x \in Seq(Octet) /\ p \in Nat /\ Fits(Len(x), head) /\ Stands(s, p, Prefixed(x, head))
      BY <2>3, <2>4
    <3> HIDE DEF x, p
    <3>2. QED BY <3>1, BytesBack
  <2>6. (d[i - 1] + head) + Len(v[i]) = d[i]
    <3>1. from \in Nat
      BY <1>8
    <3>2. QED BY <2>2, <2>3, <3>1
  <2>7. QED BY <2>5, <2>6
<1>11. ASSUME Stands(s, at, w)
       PROVE  ReadList(reader, s, at, f) = [end |-> "ok", val |-> v, at |-> at + Len(w)]
  <2>1. Stands(s, at, a) /\ Stands(s, from, flat)
    BY <1>3, <1>6, <1>11, StandsParts DEF from, w
  <2>2. \A i \in 1..n : Stands(s, from + e[i - 1], items[i])
    BY <1>1, <1>4, <1>5, <1>8, <2>1, StandsJoined
  <2>3. \A i \in 1..n : ReadBytes(reader, s, d[i - 1], head) = [end |-> "ok", val |-> v[i], at |-> d[i]]
    BY <1>10, <2>2
  <2>4. ReadUint(reader, s, at, count) = [end |-> "ok", val |-> n, at |-> d[0]]
    BY <1>9, <2>1
  <2>5. n \in 0..n /\ ~ (n < n)
    BY <1>1
  <2>6. ReadList(reader, s, at, f) = [end |-> "ok", val |-> v, at |-> d[n]]
    <3>1. ReadUpTo(reader, s, at, count, head, n, v, n, d)
      BY <2>3, <2>4, <2>5 DEF ReadUpTo
    <3>2. d \in [0..n -> Nat] /\ n \in 0..n
      BY <1>8, <2>5
    <3>3. ListEnds(reader, s, at, count, head, n, v, n, d)
      BY <3>1, <3>2, ListRead
    <3>4. QED BY <3>3 DEF ListEnds, f
  <2>7. d[n] = at + Len(w)
    <3>1. e[n] \in Nat /\ d[n] = (at + count) + e[n]
      BY <1>6, <1>8, <2>5 DEF from
    <3>2. QED BY <1>7, <3>1
  <2>8. QED BY <2>6, <2>7
<1>12. ASSUME CutOff(s, at, w), reader # "Serializer"
       PROVE  ReadList(reader, s, at, f).end = "error"
  <2>1. CutOff(s, at, a) \/ (Stands(s, at, a) /\ CutOff(s, from, flat))
    BY <1>3, <1>6, <1>12, CutOffParts DEF from, w
  <2>2. CASE CutOff(s, at, a)
    <3>1. at + count > Len(s)
      BY <1>3, <2>2 DEF CutOff
    <3>2. ReadUint(reader, s, at, count).end = "error"
      BY <1>12, <3>1, UintCut
    <3>3. ReadList(reader, s, at, f).end = "error"
      BY <3>2, ListHeadless DEF f
    <3>4. QED BY <3>3
  <2>3. CASE Stands(s, at, a) /\ CutOff(s, from, flat)
    <3>1. PICK k \in 0..(n - 1) : /\ \A i \in 1..k : Stands(s, from + e[i - 1], items[i])
                                  /\ CutOff(s, from + e[k], items[k + 1])
      BY <1>1, <1>4, <1>5, <1>8, <2>3, CutOffJoined
    <3>2. k \in 0..n /\ k < n /\ k + 1 \in 1..n /\ k \in Nat /\ k # n
      BY <1>1
    <3>3. \A i \in 1..k : ReadBytes(reader, s, d[i - 1], head) = [end |-> "ok", val |-> v[i], at |-> d[i]]
      <4>1. \A i \in 1..k : i \in 1..n
        OBVIOUS
      <4>2. QED BY <1>10, <3>1, <4>1
    <3>4. ReadBytes(reader, s, d[k], head).end = "error"
      <4>1. v[k + 1] \in Seq(Octet) /\ Fits(Len(v[k + 1]), head) /\ d[k] \in Nat
        BY <1>1, <1>2, <1>8, <3>2
      <4>2. CutOff(s, d[k], Prefixed(v[k + 1], head))
        BY <1>4, <1>8, <3>1, <3>2
      <4>3. QED BY <1>12, <4>1, <4>2, BytesCut
    <3>5. ReadUint(reader, s, at, count) = [end |-> "ok", val |-> n, at |-> d[0]]
      BY <1>9, <2>3
    <3>6. ReadList(reader, s, at, f).end = ReadBytes(reader, s, d[k], head).end
      <4>1. k < n => ReadBytes(reader, s, d[k], head).end # "ok"
        BY <3>4
      <4>2. ReadUpTo(reader, s, at, count, head, n, v, k, d)
        BY <3>3, <3>5, <4>1 DEF ReadUpTo
      <4>3. d \in [0..n -> Nat] /\ k \in 0..n /\ k < n
        BY <1>8, <3>2
      <4>4. ReadList(reader, s, at, List(count, head)).end = ReadBytes(reader, s, d[k], head).end
        <5>1. ListEnds(reader, s, at, count, head, n, v, k, d)
          BY <4>2, <4>3, ListRead
        <5>2. QED BY <4>3, <5>1 DEF ListEnds
      <4>5. QED BY <4>4 DEF f
    <3>7. QED BY <3>4, <3>6
  <2>4. QED BY <2>1, <2>2, <2>3
<1>13. w = ListBytes(n, v, count, head)
  BY DEF ListBytes, w, a, flat, items
<1>14. QED BY <1>7, <1>11, <1>12, <1>13 DEF f, ListComes

-----------------------------------------------------------------------------
(* Fields *)

Field(f) == \/ \E width \in Nat : f = Uint(width)
            \/ f = Bool
            \/ \E head \in Nat : f = Bytes(head)
            \/ \E count, head \in Nat : f = List(count, head)

(* What a field can hold. *)
Holds(f, v) ==
    /\ f.kind = "uint"  => v \in Nat
    /\ f.kind = "bool"  => v \in BOOLEAN
    /\ f.kind = "bytes" => v \in Seq(Octet)
    /\ f.kind = "list"  => v \in Seq(Seq(Octet))

(* A field can be read as itself, and a number as the front of itself. *)
ReadAs(f, g) ==
    Field(f) /\ (f = g \/ \E more, width \in Nat : f = Uint(more) /\ g = Uint(width) /\ width <= more)

(* The client writes a truth value in two bytes, and reads it from one. *)
Uneven(writer, f) == writer = "client" /\ f = Bool

(* What a reader keeps of a number: as many bytes as it reads. *)
Kept(f, v) == IF f.kind = "uint" THEN v % Span(f.width) ELSE v

(* g is read where v was written as f, and the next field begins behind it. *)
FieldRead(reader, s, at, writer, f, g, v) ==
    \E to \in Nat :
        /\ ReadField(reader, s, at, g) = [end |-> "ok", val |-> Kept(g, v), at |-> to]
        /\ f = g /\ ~ Uneven(writer, f) => to = at + Len(Written(writer, f, v))

(* A field that was written whole, and one whose end is missing. *)
Comes(reader, s, at, writer, f, g, v) ==
    LET w == Written(writer, f, v)
    IN  /\ w \in Seq(Octet)
        /\ Stands(s, at, w) => FieldRead(reader, s, at, writer, f, g, v)
        /\ CutOff(s, at, w) /\ reader # "Serializer" /\ ~ Uneven(writer, f) =>
             ReadField(reader, s, at, f).end = "error"

LEMMA UintField ==
    ASSUME NEW reader, NEW writer, NEW s \in Seq(Octet), NEW at \in Nat, NEW v \in Nat,
           NEW more \in Nat, NEW width \in Nat, width <= more
    PROVE  Comes(reader, s, at, writer, Uint(more), Uint(width), v)
<1> DEFINE w == LittleEndian(v, more)
<1>1. Written(writer, Uint(more), v) = w
  BY DEF Written, Uint
<1>2. w \in Seq(Octet) /\ Len(w) = more
  BY NumberBack
<1>3. /\ ReadField(reader, s, at, Uint(width)) = ReadUint(reader, s, at, width)
      /\ ReadField(reader, s, at, Uint(more)) = ReadUint(reader, s, at, more)
      /\ Kept(Uint(width), v) = v % Span(width)
  BY DEF ReadField, Uint, Kept
<1>4. Uint(more) = Uint(width) => more = width
  BY DEF Uint
<1>5. ASSUME Stands(s, at, w) PROVE FieldRead(reader, s, at, writer, Uint(more), Uint(width), v)
  <2>1. ReadUint(reader, s, at, width) = [end |-> "ok", val |-> v % Span(width), at |-> at + width]
    BY <1>5, UintBack
  <2>2. at + width \in Nat
    OBVIOUS
  <2> HIDE DEF w
  <2>3. QED BY <1>1, <1>2, <1>3, <1>4, <2>1, <2>2 DEF FieldRead
<1>6. ASSUME CutOff(s, at, w), reader # "Serializer"
      PROVE  ReadField(reader, s, at, Uint(more)).end = "error"
  <2>1. at + more > Len(s)
    BY <1>2, <1>6 DEF CutOff
  <2>2. ReadUint(reader, s, at, more).end = "error"
    BY <1>6, <2>1, UintCut
  <2>3. QED BY <1>3, <2>2
<1> HIDE DEF w
<1>7. QED BY <1>1, <1>2, <1>5, <1>6 DEF Comes

LEMMA BoolField ==
    ASSUME NEW reader, NEW writer, NEW s \in Seq(Octet), NEW at \in Nat, NEW b \in BOOLEAN
    PROVE  Comes(reader, s, at, writer, Bool, Bool, b)
<1> DEFINE v     == IF b THEN Radix - 1 ELSE 0
           width == IF writer = "client" THEN 2 ELSE 1
           w     == BoolBytes(writer, b)
<1>1. v \in Nat /\ width \in Nat /\ w = LittleEndian(v, width)
  BY RadixAssumption DEF BoolBytes
<1> HIDE DEF v
<1>2. w \in Seq(Octet) /\ Len(w) = width
  BY <1>1, NumberBack
<1>3. Written(writer, Bool, b) = w
  BY DEF Written, Bool
<1>4. ReadField(reader, s, at, Bool) = ReadBool(reader, s, at) /\ Kept(Bool, b) = b
  BY DEF ReadField, Bool, Kept
<1> HIDE DEF w
<1>5. ASSUME Stands(s, at, w) PROVE FieldRead(reader, s, at, writer, Bool, Bool, b)
  <2>1. ReadBool(reader, s, at) = [end |-> "ok", val |-> b, at |-> at + 1]
    BY <1>5, BoolBack DEF w
  <2>2. at + 1 \in Nat
    OBVIOUS
  <2>3. ~ Uneven(writer, Bool) => width = 1
    BY DEF Uneven
  <2> HIDE DEF width
  <2>4. QED BY <1>2, <1>3, <1>4, <2>1, <2>2, <2>3 DEF FieldRead
<1>6. ASSUME CutOff(s, at, w), reader # "Serializer", ~ Uneven(writer, Bool)
      PROVE  ReadField(reader, s, at, Bool).end = "error"
  <2>1. at + 1 > Len(s)
    BY <1>2, <1>6 DEF CutOff, Uneven
  <2>2. ReadUint(reader, s, at, 1).end = "error"
    <3>1. 1 \in Nat
      OBVIOUS
    <3>2. QED BY <1>6, <2>1, <3>1, UintCut
  <2>3. ReadBool(reader, s, at).end = "error"
    BY <2>2 DEF ReadBool
  <2>4. QED BY <1>4, <2>3
<1> HIDE DEF width
<1>7. QED BY <1>2, <1>3, <1>5, <1>6 DEF Comes

LEMMA BytesField ==
    ASSUME NEW reader, NEW writer, NEW s \in Seq(Octet), NEW at \in Nat,
           NEW v \in Seq(Octet), NEW head \in Nat, Fits(Len(v), head)
    PROVE  Comes(reader, s, at, writer, Bytes(head), Bytes(head), v)
<1> DEFINE w == Prefixed(v, head)
<1>1. Written(writer, Bytes(head), v) = w
  BY DEF Written, Bytes
<1>2. w \in Seq(Octet) /\ Len(w) = head + Len(v) /\ Len(v) \in Nat
  BY PrefixedBytes
<1>3. ReadField(reader, s, at, Bytes(head)) = ReadBytes(reader, s, at, head) /\ Kept(Bytes(head), v) = v
  BY DEF ReadField, Bytes, Kept
<1>4. ASSUME Stands(s, at, w) PROVE FieldRead(reader, s, at, writer, Bytes(head), Bytes(head), v)
  <2>1. ReadBytes(reader, s, at, head) = [end |-> "ok", val |-> v, at |-> (at + head) + Len(v)]
    BY <1>4, BytesBack
  <2>2. (at + head) + Len(v) \in Nat /\ (at + head) + Len(v) = at + (head + Len(v))
    BY <1>2
  <2> HIDE DEF w
  <2>3. QED BY <1>1, <1>2, <1>3, <2>1, <2>2 DEF FieldRead
<1>5. ASSUME CutOff(s, at, w), reader # "Serializer"
      PROVE  ReadField(reader, s, at, Bytes(head)).end = "error"
  <2>1. ReadBytes(reader, s, at, head).end = "error"
    BY <1>5, BytesCut
  <2>2. QED BY <1>3, <2>1
<1> HIDE DEF w
<1>6. QED BY <1>1, <1>2, <1>4, <1>5 DEF Comes

LEMMA ListField ==
    ASSUME NEW reader, NEW writer, NEW s \in Seq(Octet), NEW at \in Nat,
           NEW v \in Seq(Seq(Octet)), NEW count \in Nat, NEW head \in Nat,
           Fits(Len(v), count), \A i \in DOMAIN v : Fits(Len(v[i]), head)
    PROVE  Comes(reader, s, at, writer, List(count, head), List(count, head), v)
<1> DEFINE n == Len(v)
           w == ListBytes(n, v, count, head)
<1>1. n \in Nat /\ v \in [1..n -> Seq(Octet)] /\ DOMAIN v = 1..n
  OBVIOUS
<1>2. Fits(n, count) /\ \A i \in 1..n : Fits(Len(v[i]), head)
  BY <1>1
<1>3. Written(writer, List(count, head), v) = w
  BY DEF Written, List, ListBytes, Items
<1>4. ReadField(reader, s, at, List(count, head)) = ReadList(reader, s, at, List(count, head))
      /\ Kept(List(count, head), v) = v
  BY DEF ReadField, List, Kept
<1> HIDE DEF n
<1>5. /\ w \in Seq(Octet)
      /\ Stands(s, at, w) => ReadList(reader, s, at, List(count, head)) =
                                 [end |-> "ok", val |-> v, at |-> at + Len(w)]
      /\ CutOff(s, at, w) /\ reader # "Serializer" =>
           ReadList(reader, s, at, List(count, head)).end = "error"
  <2>1. ListComes(reader, s, at, n, v, count, head)
    BY <1>1, <1>2, ListBack
  <2>2. QED BY <2>1 DEF ListComes
<1> HIDE DEF w
<1>6. at + Len(w) \in Nat
  BY <1>5
<1>7. QED BY <1>3, <1>4, <1>5, <1>6 DEF FieldRead, Comes

(* What was written as one field is read back as the other, and a field cut off is noticed. *)
LEMMA FieldBack ==
    ASSUME NEW reader, NEW writer, NEW s \in Seq(Octet), NEW at \in Nat,
           NEW f, NEW g, NEW v, ReadAs(f, g), Holds(f, v), CanWrite(f, v)
    PROVE  Comes(reader, s, at, writer, f, g, v)
<1>1. CASE \E more, width \in Nat : f = Uint(more) /\ g = Uint(width) /\ width <= more
  <2>1. PICK more \in Nat, width \in Nat : f = Uint(more) /\ g = Uint(width) /\ width <= more
    BY <1>1
  <2>2. v \in Nat
    BY <2>1 DEF Holds, Uint
  <2>3. QED BY <2>1, <2>2, UintField
<1>2. CASE f = g /\ \E width \in Nat : f = Uint(width)
  <2>1. PICK width \in Nat : f = Uint(width)
    BY <1>2
  <2>2. v \in Nat /\ width <= width
    BY <2>1 DEF Holds, Uint
  <2>3. QED BY <1>2, <2>1, <2>2, UintField
<1>3. CASE f = g /\ f = Bool
  <2>1. v \in BOOLEAN
    BY <1>3 DEF Holds, Bool
  <2>2. QED BY <1>3, <2>1, BoolField
<1>4. CASE f = g /\ \E head \in Nat : f = Bytes(head)
  <2>1. PICK head \in Nat : f = Bytes(head)
    BY <1>4
  <2>2. v \in Seq(Octet) /\ Fits(Len(v), head)
    BY <2>1 DEF Holds, Bytes, CanWrite
  <2>3. QED BY <1>4, <2>1, <2>2, BytesField
<1>5. CASE f = g /\ \E count, head \in Nat : f = List(count, head)
  <2>1. PICK count \in Nat, head \in Nat : f = List(count, head)
    BY <1>5
  <2>2. v \in Seq(Seq(Octet)) /\ Fits(Len(v), count) /\ \A i \in DOMAIN v : Fits(Len(v[i]), head)
    BY <2>1 DEF Holds, List, CanWrite
  <2>3. QED BY <1>5, <2>1, <2>2, ListField
<1>6. QED BY <1>1, <1>2, <1>3, <1>4, <1>5 DEF ReadAs, Field

-----------------------------------------------------------------------------
(* Messages *)

(* The fields up to the kth can be read, each where the one before it ends; the next one
   cannot.                                                                      *)
FieldsUpTo(reader, s, fields, n, vals, k, e) ==
    /\ \A i \in 1..k : ReadField(reader, s, e[i - 1], fields[i]) =
                           [end |-> "ok", val |-> vals[i], at |-> e[i]]
    /\ k < n => ReadField(reader, s, e[k], fields[k + 1]).end # "ok"

(* Then either all the values came out, or the reading ends as that of the next field. *)
FieldsEnd(reader, s, fields, n, vals, k, e) ==
    /\ k = n => ReadFields(reader, s, e[0], fields) = [end |-> "ok", val |-> vals, at |-> e[n]]
    /\ k < n => ReadFields(reader, s, e[0], fields).end =
                    ReadField(reader, s, e[k], fields[k + 1]).end

LEMMA FieldsRead ==
    ASSUME NEW reader, NEW s, NEW fields, NEW n \in Nat, Len(fields) = n,
           NEW V, NEW vals \in [1..n -> V], NEW k \in 0..n, NEW e \in [0..n -> Nat],
           FieldsUpTo(reader, s, fields, n, vals, k, e)
    PROVE  FieldsEnd(reader, s, fields, n, vals, k, e)
<1>0. /\ \A i \in 1..k : ReadField(reader, s, e[i - 1], fields[i]) =
                             [end |-> "ok", val |-> vals[i], at |-> e[i]]
      /\ k < n => ReadField(reader, s, e[k], fields[k + 1]).end # "ok"
  BY DEF FieldsUpTo
<1> DEFINE q == [i \in 1..n |-> ReadField(reader, s, e[i - 1], fields[i])]
           Is(r) == r = [i \in 0..n |->
                           IF i = 0 THEN [end |-> "ok", at |-> e[0], val |-> << >>]
                           ELSE With(r[i - 1], ReadField(reader, s, r[i - 1].at, fields[i]))]
<1>1. \A i \in 1..k : q[i] = [end |-> "ok", val |-> vals[i], at |-> e[i]]
  BY <1>0
<1>2. k < n => q[k + 1] = ReadField(reader, s, e[k], fields[k + 1])
  <2>1. k < n => k + 1 \in 1..n /\ (k + 1) - 1 = k
    OBVIOUS
  <2>2. QED BY <2>1
<1>3. \A i \in 1..n : q[i] = ReadField(reader, s, e[i - 1], fields[i])
  OBVIOUS
<1> HIDE DEF q
<1>4. PICK r : Reads(r, n, k, e, vals, q)
  <2>1. k < n => q[k + 1].end # "ok"
    BY <1>0, <1>2
  <2>2. QED BY <1>1, <2>1, ReadOn
<1>5. \A i \in 1..n : r[i] = With(r[i - 1], ReadField(reader, s, r[i - 1].at, fields[i]))
  <2> SUFFICES ASSUME NEW i \in 1..n
               PROVE  r[i] = With(r[i - 1], ReadField(reader, s, r[i - 1].at, fields[i]))
    OBVIOUS
  <2>1. CASE i <= k + 1
    <3>1. r[i - 1].at = e[i - 1] /\ r[i] = With(r[i - 1], q[i])
      BY <1>4, <2>1 DEF Reads
    <3>2. q[i] = ReadField(reader, s, e[i - 1], fields[i])
      BY <1>3
    <3>3. QED BY <3>1, <3>2
  <2>2. CASE i > k + 1
    BY <1>4, <2>2 DEF Reads
  <2>3. QED BY <2>1, <2>2
<1>6. Is(r)
  <2>1. \A i \in 0..n : r[i] = IF i = 0 THEN [end |-> "ok", at |-> e[0], val |-> << >>]
                               ELSE With(r[i - 1], ReadField(reader, s, r[i - 1].at, fields[i]))
    <3>1. \A i \in 0..n : i # 0 => i \in 1..n
      OBVIOUS
    <3>2. QED BY <1>4, <1>5, <3>1 DEF Reads
  <2>2. r = [i \in 0..n |-> r[i]]
    BY <1>4 DEF Reads
  <2>3. QED BY <2>1, <2>2
<1>7. \E g : Is(g) /\ ReadFields(reader, s, e[0], fields) = g[n]
  <2> DEFINE m == Len(fields)
             Raw(g) == g = [i \in 0..m |->
                              IF i = 0 THEN [end |-> "ok", at |-> e[0], val |-> << >>]
                              ELSE With(g[i - 1], ReadField(reader, s, g[i - 1].at, fields[i]))]
  <2>1. m = n
    OBVIOUS
  <2>2. \A g : Raw(g) <=> Is(g)
    <3> HIDE DEF m
    <3>1. QED BY <2>1
  <2>3. \E g : Raw(g)
    <3> HIDE DEF Raw, Is
    <3>1. QED BY <1>6, <2>2
  <2>4. \E g : Raw(g) /\ ReadFields(reader, s, e[0], fields) = g[m]
    BY <2>3 DEF ReadFields
  <2> HIDE DEF Raw, Is, m
  <2>5. QED BY <2>1, <2>2, <2>4
<1>8. PICK g : Is(g) /\ ReadFields(reader, s, e[0], fields) = g[n]
  BY <1>7
<1>9. g[n] = r[n]
  <2> DEFINE T == {i \in 0..n : g[i] = r[i]}
  <2>1. 0 \in T
    BY <1>4, <1>8 DEF Reads
  <2>2. ASSUME NEW i \in 0..(n - 1), i \in T PROVE i + 1 \in T
    <3>1. i + 1 \in 0..n /\ i + 1 \in 1..n /\ i + 1 # 0 /\ (i + 1) - 1 = i
      OBVIOUS
    <3>2. g[i + 1] = With(g[i], ReadField(reader, s, g[i].at, fields[i + 1]))
      BY <1>8, <3>1
    <3>3. r[i + 1] = With(r[i], ReadField(reader, s, r[i].at, fields[i + 1]))
      BY <1>5, <3>1
    <3>4. QED BY <2>2, <3>1, <3>2, <3>3
  <2> HIDE DEF T
  <2>3. \A i \in 0..n : i \in T
    BY <2>1, <2>2, UpTo
  <2>4. n \in 0..n
    OBVIOUS
  <2>5. QED BY <2>3, <2>4 DEF T
<1>10. ReadFields(reader, s, e[0], fields) = r[n]
  BY <1>8, <1>9
<1>11. QED BY <1>2, <1>4, <1>10 DEF Reads, FieldsEnd

(* A message whose fields its reader can read, and whose values can be written. *)
Legible(writer, fs, gs, vals, n) ==
    /\ n \in Nat /\ Len(gs) = n /\ DOMAIN fs = 1..n
    /\ \A i \in 1..n : ReadAs(fs[i], gs[i]) /\ Holds(fs[i], vals[i]) /\ CanWrite(fs[i], vals[i])
    /\ \A i \in 1..n : i < n => fs[i] = gs[i] /\ ~ Uneven(writer, fs[i])

Parts(writer, fs, vals) == [i \in DOMAIN fs |-> Written(writer, fs[i], vals[i])]

(* What its reader gets out of it. *)
Gist(gs, vals, n) == [i \in 1..n |-> Kept(gs[i], vals[i])]

LEMMA MessageParts ==
    ASSUME NEW writer, NEW fs, NEW gs, NEW vals, NEW n, Legible(writer, fs, gs, vals, n)
    PROVE  /\ Parts(writer, fs, vals) \in [1..n -> Seq(Octet)]
           /\ \A i \in 1..n : Parts(writer, fs, vals)[i] = Written(writer, fs[i], vals[i])
           /\ \E e : Joined(e, Encoded(writer, fs, vals), Parts(writer, fs, vals), n)
<1> DEFINE parts == Parts(writer, fs, vals)
<1>1. n \in Nat /\ DOMAIN fs = 1..n
  BY DEF Legible
<1>2. ASSUME NEW i \in 1..n PROVE Written(writer, fs[i], vals[i]) \in Seq(Octet)
  <2>1. ReadAs(fs[i], gs[i]) /\ Holds(fs[i], vals[i]) /\ CanWrite(fs[i], vals[i])
    BY DEF Legible
  <2>2. << >> \in Seq(Octet) /\ 0 \in Nat
    OBVIOUS
  <2>3. Comes("client", << >>, 0, writer, fs[i], gs[i], vals[i])
    BY <2>1, <2>2, FieldBack
  <2>4. QED BY <2>3 DEF Comes
<1>3. parts \in [1..n -> Seq(Octet)] /\ \A i \in 1..n : parts[i] = Written(writer, fs[i], vals[i])
  BY <1>1, <1>2 DEF Parts
<1>4. Encoded(writer, fs, vals) = FlattenSeq(parts)
  BY DEF Encoded, Parts
<1> HIDE DEF parts
<1>5. \E e : Joined(e, FlattenSeq(parts), parts, n)
  BY <1>1, <1>3, Flattened
<1>6. QED BY <1>3, <1>4, <1>5 DEF parts

(* A whole message gives its reader what was put into it. *)
Recovered(reader, writer, fs, gs, vals, n) ==
    \E to : ReadFields(reader, Encoded(writer, fs, vals), 0, gs) =
                [end |-> "ok", val |-> Gist(gs, vals, n), at |-> to]

LEMMA MessageBack ==
    ASSUME NEW reader, NEW writer, NEW fs, NEW gs, NEW vals, NEW n,
           Legible(writer, fs, gs, vals, n)
    PROVE  Recovered(reader, writer, fs, gs, vals, n)
<1> DEFINE bytes == Encoded(writer, fs, vals)
           parts == Parts(writer, fs, vals)
           gist  == Gist(gs, vals, n)
<1>1. n \in Nat /\ Len(gs) = n
  BY DEF Legible
<1>2. /\ parts \in [1..n -> Seq(Octet)]
      /\ \A i \in 1..n : parts[i] = Written(writer, fs[i], vals[i])
  BY MessageParts
<1>3. PICK w : Joined(w, bytes, parts, n)
  BY MessageParts
<1> HIDE DEF bytes, parts
<1>4. /\ bytes \in Seq(Octet) /\ Len(bytes) \in Nat /\ w \in [0..n -> Nat] /\ w[0] = 0
      /\ \A i \in 1..n : w[i] = w[i - 1] + Len(parts[i])
  BY <1>3 DEF Joined
<1>5. Stands(bytes, 0, bytes)
  BY <1>4 DEF Stands
<1>6. \A i \in 1..n : Stands(bytes, 0 + w[i - 1], parts[i])
  <2>1. 0 \in Nat
    OBVIOUS
  <2>2. QED BY <1>1, <1>2, <1>3, <1>4, <1>5, <2>1, StandsJoined
<1>7. ASSUME NEW i \in 1..n
      PROVE  FieldRead(reader, bytes, w[i - 1], writer, fs[i], gs[i], vals[i])
  <2>1. ReadAs(fs[i], gs[i]) /\ Holds(fs[i], vals[i]) /\ CanWrite(fs[i], vals[i])
    BY DEF Legible
  <2>2. i - 1 \in 0..n
    BY <1>1
  <2>3. w[i - 1] \in Nat /\ 0 + w[i - 1] = w[i - 1]
    BY <1>4, <2>2
  <2>4. Comes(reader, bytes, w[i - 1], writer, fs[i], gs[i], vals[i])
    BY <1>4, <2>1, <2>3, FieldBack
  <2>5. Stands(bytes, w[i - 1], Written(writer, fs[i], vals[i]))
    BY <1>2, <1>6, <2>3
  <2>6. QED BY <2>4, <2>5 DEF Comes
<1> DEFINE last == ReadField(reader, bytes, w[n - 1], gs[n]).at
           e    == [i \in 0..n |-> IF i = n /\ n # 0 THEN last ELSE w[i]]
<1>8. ASSUME NEW i \in 1..n
      PROVE  /\ e[i] \in Nat
             /\ ReadField(reader, bytes, e[i - 1], gs[i]) =
                    [end |-> "ok", val |-> gist[i], at |-> e[i]]
  <2>1. /\ i \in 0..n /\ i - 1 \in 0..n /\ i - 1 # n /\ n # 0 /\ (i # n => i < n)
        /\ w[i] \in Nat
    BY <1>1, <1>4
  <2>2. e[i - 1] = w[i - 1] /\ gist[i] = Kept(gs[i], vals[i])
    BY <2>1 DEF Gist
  <2> HIDE DEF gist
  <2>3. PICK to \in Nat :
          /\ ReadField(reader, bytes, w[i - 1], gs[i]) =
                 [end |-> "ok", val |-> Kept(gs[i], vals[i]), at |-> to]
          /\ (fs[i] = gs[i] /\ ~ Uneven(writer, fs[i])) =>
                 to = w[i - 1] + Len(Written(writer, fs[i], vals[i]))
    BY <1>7 DEF FieldRead
  <2>4. CASE i = n
    <3>1. last = to
      BY <2>3, <2>4
    <3>2. e[i] = last
      BY <2>1, <2>4
    <3>3. QED BY <2>2, <2>3, <3>1, <3>2
  <2>5. CASE i # n
    <3>1. e[i] = w[i]
      BY <2>1, <2>5
    <3>2. fs[i] = gs[i] /\ ~ Uneven(writer, fs[i])
      BY <2>1, <2>5 DEF Legible
    <3>3. to = w[i - 1] + Len(parts[i])
      BY <1>2, <2>3, <3>2
    <3>4. w[i] = w[i - 1] + Len(parts[i])
      BY <1>4
    <3>5. e[i] = to
      BY <3>1, <3>3, <3>4
    <3>6. QED BY <2>2, <2>3, <3>5
  <2>6. QED BY <2>4, <2>5
<1>9. /\ e = [i \in 0..n |-> e[i]] /\ e[0] = 0
      /\ \A i \in 0..n : i # 0 => i \in 1..n
  BY <1>1, <1>4
<1> HIDE DEF e
<1>10. e \in [0..n -> Nat] /\ e[0] = 0
  <2>1. \A i \in 1..n : e[i] \in Nat
    BY <1>8
  <2>2. \A i \in 0..n : e[i] \in Nat
    BY <1>9, <2>1
  <2>3. QED BY <1>9, <2>2
<1> DEFINE V == {gist[i] : i \in 1..n}
<1>11. gist \in [1..n -> V] /\ n \in 0..n /\ ~ (n < n)
  BY <1>1 DEF Gist
<1> HIDE DEF gist, V
<1>12. FieldsUpTo(reader, bytes, gs, n, gist, n, e)
  BY <1>8, <1>11 DEF FieldsUpTo
<1>13. FieldsEnd(reader, bytes, gs, n, gist, n, e)
  BY <1>1, <1>10, <1>11, <1>12, FieldsRead
<1>14. ReadFields(reader, bytes, 0, gs) = [end |-> "ok", val |-> gist, at |-> e[n]]
  BY <1>10, <1>13 DEF FieldsEnd
<1>15. QED BY <1>14 DEF bytes, gist, Recovered

(* One that lacks its end gives Unmarshal and the client an error. *)
LEMMA MessageCut ==
    ASSUME NEW reader, NEW writer, NEW fs, NEW vals, NEW n, NEW missing \in Nat \ {0},
           Legible(writer, fs, fs, vals, n), \A i \in 1..n : ~ Uneven(writer, fs[i]),
           reader # "Serializer", NEW bytes, bytes = Encoded(writer, fs, vals),
           missing <= Len(bytes)
    PROVE  ReadFields(reader, SubSeq(bytes, 1, Len(bytes) - missing), 0, fs).end = "error"
<1> DEFINE parts == Parts(writer, fs, vals)
           s     == SubSeq(bytes, 1, Len(bytes) - missing)
           gist  == Gist(fs, vals, n)
<1>1. n \in Nat /\ Len(fs) = n
  BY DEF Legible
<1>2. /\ parts \in [1..n -> Seq(Octet)]
      /\ \A i \in 1..n : parts[i] = Written(writer, fs[i], vals[i])
  BY MessageParts
<1>3. PICK e : Joined(e, bytes, parts, n)
  BY MessageParts
<1> HIDE DEF parts
<1>4. bytes \in Seq(Octet) /\ Len(bytes) \in Nat /\ e \in [0..n -> Nat] /\ e[0] = 0
      /\ \A i \in 1..n : e[i] = e[i - 1] + Len(parts[i])
  BY <1>3 DEF Joined
<1>5. /\ s \in Seq(Octet) /\ Len(s) = Len(bytes) - missing
      /\ \A j \in 1..Len(s) : s[j] = bytes[j]
  BY <1>4
<1> HIDE DEF s
<1>6. CutOff(s, 0, bytes)
  <2>1. Len(s) \in Nat /\ Len(s) < Len(bytes) /\ Len(s) - 0 = Len(s) /\ 0 + Len(bytes) = Len(bytes)
    BY <1>4, <1>5
  <2>2. \A j \in 1..Len(s) : s[0 + j] = bytes[j]
    BY <1>5
  <2>3. QED BY <2>1, <2>2 DEF CutOff
<1>7. PICK k \in 0..(n - 1) : /\ \A i \in 1..k : Stands(s, 0 + e[i - 1], parts[i])
                              /\ CutOff(s, 0 + e[k], parts[k + 1])
  <2>1. 0 \in Nat
    OBVIOUS
  <2>2. QED BY <1>1, <1>2, <1>3, <1>5, <1>6, <2>1, CutOffJoined
<1>8. k \in 0..n /\ k < n /\ k # n /\ k + 1 \in 1..n /\ \A i \in 1..k : i \in 1..n
  BY <1>1
<1>9. ASSUME NEW i \in 1..n
      PROVE  /\ e[i - 1] \in Nat /\ e[i] = e[i - 1] + Len(Written(writer, fs[i], vals[i]))
             /\ 0 + e[i - 1] = e[i - 1] /\ gist[i] = Kept(fs[i], vals[i])
             /\ Comes(reader, s, e[i - 1], writer, fs[i], fs[i], vals[i])
  <2>1. ReadAs(fs[i], fs[i]) /\ Holds(fs[i], vals[i]) /\ CanWrite(fs[i], vals[i])
    BY DEF Legible
  <2>2. i - 1 \in 0..n
    BY <1>1
  <2>3. e[i - 1] \in Nat /\ 0 + e[i - 1] = e[i - 1]
    BY <1>4, <2>2
  <2>4. Comes(reader, s, e[i - 1], writer, fs[i], fs[i], vals[i])
    BY <1>5, <2>1, <2>3, FieldBack
  <2>5. e[i] = e[i - 1] + Len(Written(writer, fs[i], vals[i]))
    BY <1>2, <1>4
  <2>6. gist[i] = Kept(fs[i], vals[i])
    BY DEF Gist
  <2>7. QED BY <2>3, <2>4, <2>5, <2>6
<1> DEFINE V == {gist[i] : i \in 1..n}
<1>10. gist \in [1..n -> V]
  BY DEF Gist
<1> HIDE DEF gist, V
<1>11. ASSUME NEW i \in 1..k
       PROVE  ReadField(reader, s, e[i - 1], fs[i]) = [end |-> "ok", val |-> gist[i], at |-> e[i]]
  <2>1. i \in 1..n /\ ~ Uneven(writer, fs[i])
    BY <1>8
  <2>2. Stands(s, e[i - 1], Written(writer, fs[i], vals[i]))
    BY <1>2, <1>7, <1>9, <2>1
  <2>3. FieldRead(reader, s, e[i - 1], writer, fs[i], fs[i], vals[i])
    BY <1>9, <2>1, <2>2 DEF Comes
  <2>4. QED BY <1>9, <2>1, <2>3 DEF FieldRead
<1>12. ReadField(reader, s, e[k], fs[k + 1]).end = "error"
  <2>1. (k + 1) - 1 = k
    BY <1>1
  <2>2. CutOff(s, e[k], Written(writer, fs[k + 1], vals[k + 1])) /\ ~ Uneven(writer, fs[k + 1])
    BY <1>2, <1>7, <1>8, <1>9, <2>1
  <2>3. Comes(reader, s, e[k], writer, fs[k + 1], fs[k + 1], vals[k + 1])
    BY <1>8, <1>9, <2>1
  <2>4. QED BY <2>2, <2>3 DEF Comes
<1>13. FieldsUpTo(reader, s, fs, n, gist, k, e)
  BY <1>11, <1>12 DEF FieldsUpTo
<1>14. FieldsEnd(reader, s, fs, n, gist, k, e)
  BY <1>1, <1>4, <1>8, <1>10, <1>13, FieldsRead
<1>15. ReadFields(reader, s, 0, fs).end = "error"
  BY <1>4, <1>8, <1>12, <1>14 DEF FieldsEnd
<1>16. QED BY <1>15 DEF s

-----------------------------------------------------------------------------
(* The protocol *)

Kinds == {Bool, Uint(1), Uint(4), Uint(8), Bytes(1), Bytes(2), List(1, 1)}

LEMMA KindsAreFields == \A f \in Kinds : Field(f)
<1>1. {1, 2, 4, 8} \subseteq Nat
  OBVIOUS
<1>2. QED BY <1>1 DEF Kinds, Field

LEMMA KindMembers ==
    /\ Bool \in Kinds /\ U8 \in Kinds /\ Uint(4) \in Kinds /\ Uint(8) \in Kinds
    /\ Head8 \in Kinds /\ Head16 \in Kinds
    /\ U8 # Bool /\ Head8 # Bool /\ Head16 # Bool
<1>1. U8 # Bool /\ Head8 # Bool /\ Head16 # Bool
  BY DEF U8, Head8, Head16, Uint, Bytes, Bool
<1>2. QED BY <1>1 DEF Kinds, U8, Head8, Head16

(* The fields of a message. *)
Fields(fs) == Len(fs) \in Nat /\ DOMAIN fs = 1..Len(fs) /\ \A i \in 1..Len(fs) : fs[i] \in Kinds

(* A format that is read as it is written, of more than a truth value from the client. *)
Plain(F) ==
    /\ Fields(F.writes) /\ F.reads = F.writes
    /\ \A i \in 1..Len(F.writes) : ~ Uneven(F.writer, F.writes[i])

LEMMA PlainFormats ==
    \A m \in {"you_join", "other_join", "leave", "start", "placed", "chat", "denied", "fatal",
              "join", "stone", "ask_info", "say"} : Plain(Protocol[m])
<1>1. Plain(Protocol["you_join"])
  <2>1. Protocol["you_join"].writer # "client" /\ Protocol["you_join"].reads = RoomFields
        /\ Protocol["you_join"].writes = RoomFields
    BY DEF Protocol
  <2>2. Fields(RoomFields)
    BY DEF Fields, RoomFields, Kinds, U8, Head8
  <2>3. QED BY <2>1, <2>2 DEF Plain, Uneven
<1>2. Plain(Protocol["other_join"])
  BY DEF Protocol, Plain, Fields, Kinds, Uneven, U8, Head8
<1>3. Plain(Protocol["leave"])
  BY DEF Protocol, Plain, Fields, Kinds, Uneven, Head8
<1>4. Plain(Protocol["start"])
  BY DEF Protocol, Plain, Fields, Kinds, Uneven, Head8
<1>5. Plain(Protocol["placed"])
  BY DEF Protocol, Plain, Fields, Kinds, Uneven, U8
<1>6. Plain(Protocol["chat"])
  <2>1. /\ Protocol["chat"].writes = <<Uint(8), Head8, Head16>> /\ Protocol["chat"].reads = <<Uint(8), Head8, Head16>>
        /\ Protocol["chat"].writer # "client"
    BY DEF Protocol
  <2>2. QED BY <2>1, KindMembers DEF Plain, Fields, Uneven
<1>7. Plain(Protocol["denied"])
  BY DEF Protocol, Plain, Fields, Kinds, Uneven
<1>8. Plain(Protocol["fatal"])
  <2>1. /\ Protocol["fatal"].writes = <<Uint(4), Head8>> /\ Protocol["fatal"].reads = <<Uint(4), Head8>>
        /\ Protocol["fatal"].writer # "client"
    BY DEF Protocol
  <2>2. QED BY <2>1, KindMembers DEF Plain, Fields, Uneven
<1>9. Plain(Protocol["join"])
  <2>1. /\ Protocol["join"].writes = <<U8, Head8, Head16, U8>> /\ Protocol["join"].reads = <<U8, Head8, Head16, U8>>
        /\ Protocol["join"].writer = "client"
    BY DEF Protocol
  <2>2. QED BY <2>1, KindMembers DEF Plain, Fields, Uneven
<1>10. Plain(Protocol["stone"])
  <2>1. /\ Protocol["stone"].writes = <<U8, U8>> /\ Protocol["stone"].reads = <<U8, U8>>
        /\ Protocol["stone"].writer = "client"
    BY DEF Protocol
  <2>2. QED BY <2>1, KindMembers DEF Plain, Fields, Uneven
<1>11. Plain(Protocol["ask_info"])
  BY KindMembers DEF Protocol, Plain, Fields, Uneven
<1>12. Plain(Protocol["say"])
  BY KindMembers DEF Protocol, Plain, Fields, Uneven
<1>13. QED BY <1>1, <1>2, <1>3, <1>4, <1>5, <1>6, <1>7, <1>8, <1>9, <1>10, <1>11, <1>12

(* A format whose reader can read what its writer writes, field by field. *)
Matching(F) ==
    /\ Fields(F.writes) /\ Len(F.reads) = Len(F.writes)
    /\ \A i \in 1..Len(F.writes) :
          /\ ReadAs(F.writes[i], F.reads[i])
          /\ i < Len(F.writes) => F.writes[i] = F.reads[i] /\ ~ Uneven(F.writer, F.writes[i])

LEMMA Names ==
    \A m \in DOMAIN Protocol :
        m \in {"you_join", "other_join", "leave", "start", "placed", "chat", "denied", "fatal",
               "join", "stone", "ask_info", "say", "agree", "user_info", "over"}
BY DEF Protocol

LEMMA PlainMatches == ASSUME NEW F, Plain(F) PROVE Matching(F)
<1>1. \A i \in 1..Len(F.writes) : ReadAs(F.writes[i], F.reads[i])
  BY KindsAreFields DEF Plain, Fields, ReadAs
<1>2. QED BY <1>1 DEF Plain, Matching

LEMMA FormatsMatch == \A m \in DOMAIN Protocol : m # "over" => Matching(Protocol[m])
<1>1. Matching(Protocol["agree"])
  <2>1. Protocol["agree"].writes = <<Bool>> /\ Protocol["agree"].reads = <<Bool>>
    BY DEF Protocol
  <2>2. ReadAs(Bool, Bool)
    BY DEF ReadAs, Field
  <2>3. QED BY <2>1, <2>2 DEF Matching, Fields, Kinds
<1>2. Matching(Protocol["user_info"])
  <2>1. /\ Protocol["user_info"].writer = "Serializer"
        /\ Protocol["user_info"].writes = <<Bytes(1), Uint(4), Uint(4), Uint(4), Uint(4), Uint(8)>>
        /\ Protocol["user_info"].reads = <<Bytes(1), Uint(4), Uint(4), Uint(4), Uint(4), Uint(4)>>
    BY DEF Protocol, Head8
  <2>2. 1 \in Nat /\ 4 \in Nat /\ 8 \in Nat /\ 4 <= 8
    OBVIOUS
  <2>3. ReadAs(Bytes(1), Bytes(1)) /\ ReadAs(Uint(4), Uint(4)) /\ ReadAs(Uint(8), Uint(4))
    BY <2>2 DEF ReadAs, Field
  <2>4. Fields(Protocol["user_info"].writes)
    BY <2>1 DEF Fields, Kinds
  <2>5. QED BY <2>1, <2>3, <2>4 DEF Matching, Uneven
<1>3. QED BY <1>1, <1>2, Names, PlainFormats, PlainMatches

LEMMA OverFormat ==
    /\ Fields(Protocol["over"].writes) /\ Len(Protocol["over"].reads) # Len(Protocol["over"].writes)
BY DEF Protocol, Fields, Kinds, U8

LEMMA FormatsWell ==
    \A m \in DOMAIN Protocol :
        /\ Fields(Protocol[m].writes)
        /\ Protocol[m].reads = Protocol[m].writes /\ Protocol[m].reader # "Serializer" =>
             m # "over" /\ Plain(Protocol[m])
<1>1. Protocol["agree"].reader = "Serializer"
  BY DEF Protocol
<1>2. Protocol["user_info"].reads # Protocol["user_info"].writes
  <2>1. Protocol["user_info"].reads[6] = Uint(4) /\ Protocol["user_info"].writes[6] = Uint(8)
    BY DEF Protocol
  <2>2. Uint(4) # Uint(8)
    BY DEF Uint
  <2>3. QED BY <2>1, <2>2
<1>3. QED BY <1>1, <1>2, Names, PlainFormats, FormatsMatch, OverFormat DEF Matching

-----------------------------------------------------------------------------
(* A message on its way *)

Contents == Nat \cup BOOLEAN \cup Seq(Octet) \cup Seq(Seq(Octet))

(* A number has no more bytes than the field it is put into. *)
InWidth(f, v) == f.kind = "uint" => v < Span(f.width)

(* What the sender has set stands in the fields it belongs to. *)
Filled ==
    /\ name \in DOMAIN Protocol /\ whole \in BOOLEAN
    /\ values \in Seq(Contents) /\ Len(values) <= Len(Format.writes)
    /\ \A i \in 1..Len(values) : /\ Holds(Format.writes[i], values[i])
                                 /\ InWidth(Format.writes[i], values[i])

(* Every field is set, and none is too long. *)
Complete == Len(values) = Len(Format.writes) /\ ~ Refused(Format.writes, values)

(* The inductive invariant: what is under way is what was written or, once it was cut, the
   front of it; the values a reader ends with are those that were put in.       *)
CodecInv ==
    /\ Filled
    /\ stage = "sent" /\ whole =>
         Complete /\ raw = Encoded(Format.writer, Format.writes, values)
    /\ whole /\ name # "over" =>
         /\ stage \in {"new", "refused", "sent", "ok"}
         /\ stage = "ok" => out = Gist(Format.reads, values, Len(values))
    /\ ~ whole /\ Format.reads = Format.writes /\ Format.reader # "Serializer" =>
         /\ stage \in {"sent", "error"}
         /\ stage = "sent" =>
              /\ Complete
              /\ \E missing \in Nat \ {0} :
                    LET bytes == Encoded(Format.writer, Format.writes, values)
                    IN  missing <= Len(bytes) /\ raw = SubSeq(bytes, 1, Len(bytes) - missing)

(* What may be put into a field fits its kind. *)
LEMMA FieldValuesHold ==
    ASSUME NEW f \in Kinds, NEW v \in FieldValues(f)
    PROVE  Holds(f, v) /\ InWidth(f, v) /\ v \in Contents
<1>1. CASE f = Bool
  BY <1>1 DEF FieldValues, Bool, Holds, InWidth, Contents
<1>2. CASE f \in {Uint(1), Uint(4), Uint(8)}
  <2>1. PICK width \in {1, 4, 8} : f = Uint(width)
    BY <1>2
  <2>2. v \in Numbers[width]
    BY <2>1 DEF FieldValues, Uint
  <2>3. Numbers[width] \subseteq 0..Span(width) - 1
    BY <2>1, CodecAssumption
  <2>4. width \in Nat /\ Span(width) \in Nat
    BY <2>1, SpanFacts
  <2>5. v \in Nat /\ v < Span(width)
    BY <2>2, <2>3, <2>4
  <2>6. QED BY <2>1, <2>5 DEF Holds, InWidth, Uint, Contents
<1>3. CASE f \in {Bytes(1), Bytes(2)}
  <2>1. v \in Seq(Octet)
    BY <1>3, CodecAssumption DEF FieldValues, Bytes, Octet
  <2>2. QED BY <1>3, <2>1 DEF Holds, InWidth, Bytes, Contents
<1>4. CASE f = List(1, 1)
  <2>1. v \in Seq(Seq(Octet))
    BY <1>4, CodecAssumption DEF FieldValues, List, Octet
  <2>2. QED BY <1>4, <2>1 DEF Holds, InWidth, List, Contents
<1>5. QED BY <1>1, <1>2, <1>3, <1>4 DEF Kinds

(* A complete message can be read. *)
LEMMA CompleteIsLegible ==
    ASSUME Filled, Complete
    PROVE  /\ name # "over" =>
                Legible(Format.writer, Format.writes, Format.reads, values, Len(values))
           /\ Plain(Format) =>
                Legible(Format.writer, Format.writes, Format.writes, values, Len(values))
<1> DEFINE n == Len(values)
           fs == Format.writes
<1>1. /\ name \in DOMAIN Protocol /\ n \in Nat /\ Len(fs) = n
      /\ \A i \in 1..n : Holds(fs[i], values[i])
  BY DEF Filled, Complete
<1>2. Fields(fs)
  BY <1>1, FormatsWell DEF Format
<1>3. DOMAIN fs = 1..n
  BY <1>1, <1>2 DEF Fields
<1>4. \A i \in 1..n : CanWrite(fs[i], values[i])
  BY <1>3 DEF Complete, Refused
<1>5. ASSUME Matching(Format) PROVE Legible(Format.writer, fs, Format.reads, values, n)
  <2>1. Len(Format.reads) = n
    BY <1>1, <1>5 DEF Matching
  <2>2. \A i \in 1..n : /\ ReadAs(fs[i], Format.reads[i])
                        /\ i < n => fs[i] = Format.reads[i] /\ ~ Uneven(Format.writer, fs[i])
    BY <1>1, <1>5 DEF Matching
  <2> HIDE DEF n, fs
  <2>3. QED BY <1>1, <1>3, <1>4, <2>1, <2>2 DEF Legible
<1>6. name # "over" => Matching(Format)
  BY <1>1, FormatsMatch DEF Format
<1>7. Plain(Format) => Matching(Format) /\ Format.reads = fs
  BY PlainMatches DEF Plain
<1>8. QED BY <1>5, <1>6, <1>7

LEMMA CodecStart == CodecInit => CodecInv
<1> SUFFICES ASSUME CodecInit PROVE CodecInv
  OBVIOUS
<1>1. /\ name \in DOMAIN Protocol /\ values = << >> /\ whole = TRUE /\ stage = "new"
  BY DEF CodecInit
<1>2. << >> \in Seq(Contents) /\ Len(<< >>) = 0
  OBVIOUS
<1>3. Len(Format.writes) \in Nat
  BY <1>1, FormatsWell DEF Format, Fields
<1>4. Filled
  BY <1>1, <1>2, <1>3 DEF Filled
<1>5. QED BY <1>1, <1>4 DEF CodecInv

LEMMA FillKeeps ==
    ASSUME CodecInv, Len(values) < Len(Format.writes),
           NEW v \in FieldValues(Format.writes[Len(values) + 1]), Fill(v)
    PROVE  CodecInv'
<1> DEFINE f == Format.writes[Len(values) + 1]
<1>1. /\ stage = "new" /\ stage' = "new" /\ values' = Append(values, v)
      /\ name' = name /\ whole' = whole /\ Format' = Format
  BY DEF Fill, Format
<1>2. /\ name \in DOMAIN Protocol /\ whole \in BOOLEAN
      /\ values \in Seq(Contents) /\ Len(values) <= Len(Format.writes)
      /\ \A i \in 1..Len(values) : /\ Holds(Format.writes[i], values[i])
                                   /\ InWidth(Format.writes[i], values[i])
  BY DEF CodecInv, Filled
<1>3. Fields(Format.writes)
  BY <1>2, FormatsWell DEF Format
<1>4. f \in Kinds
  <2>1. Len(values) + 1 \in 1..Len(Format.writes)
    BY <1>2, <1>3 DEF Fields
  <2>2. QED BY <1>3, <2>1 DEF Fields
<1>5. Holds(f, v) /\ InWidth(f, v) /\ v \in Contents
  BY <1>4, FieldValuesHold
<1> HIDE DEF f
<1>6. /\ Append(values, v) \in Seq(Contents) /\ Len(Append(values, v)) = Len(values) + 1
      /\ \A i \in 1..Len(values) : Append(values, v)[i] = values[i]
      /\ Append(values, v)[Len(values) + 1] = v
  BY <1>2, <1>5
<1>7. ASSUME NEW i \in 1..(Len(values) + 1) 
      PROVE  /\ Holds(Format.writes[i], Append(values, v)[i])
             /\ InWidth(Format.writes[i], Append(values, v)[i])
  <2>1. CASE i \in 1..Len(values)
    BY <1>2, <1>6, <2>1
  <2>2. CASE i = Len(values) + 1
    BY <1>5, <1>6, <2>2 DEF f
  <2>3. QED BY <1>2, <2>1, <2>2
<1>8. Len(values) + 1 <= Len(Format.writes)
  BY <1>2, <1>3 DEF Fields
<1>9. Filled'
  BY <1>1, <1>2, <1>6, <1>7, <1>8 DEF Filled
<1>10. whole \/ ~ (Format.reads = Format.writes /\ Format.reader # "Serializer")
  BY <1>1, <1>2 DEF CodecInv
<1>11. QED BY <1>1, <1>9, <1>10 DEF CodecInv

LEMMA EncodeKeeps == CodecInv /\ Encode => CodecInv'
<1> SUFFICES ASSUME CodecInv, Encode PROVE CodecInv'
  OBVIOUS
<1>1. /\ stage = "new" /\ Len(values) = Len(Format.writes) /\ stage' \in {"refused", "sent"}
      /\ values' = values /\ name' = name /\ whole' = whole /\ Format' = Format
      /\ stage' = "sent" => /\ ~ Refused(Format.writes, values)
                            /\ raw' = Encoded(Format.writer, Format.writes, values)
  BY DEF Encode, Format
<1>2. Filled'
  BY <1>1 DEF CodecInv, Filled
<1>3. stage' = "sent" => Complete'
  BY <1>1 DEF Complete
<1>4. whole \/ ~ (Format.reads = Format.writes /\ Format.reader # "Serializer")
  BY <1>1 DEF CodecInv, Filled
<1>5. QED BY <1>1, <1>2, <1>3, <1>4 DEF CodecInv

LEMMA ShortenKeeps ==
    ASSUME CodecInv, NEW missing \in 1..MaxCut, Shorten(missing)
    PROVE  CodecInv'
<1> DEFINE bytes == Encoded(Format.writer, Format.writes, values)
<1>1. /\ stage = "sent" /\ whole /\ missing <= Len(raw)
      /\ raw' = SubSeq(raw, 1, Len(raw) - missing) /\ whole' = FALSE
      /\ stage' = stage /\ values' = values /\ name' = name /\ Format' = Format
  BY DEF Shorten, Format
<1>2. Filled /\ Complete /\ raw = bytes
  BY <1>1 DEF CodecInv
<1>3. Filled' /\ Complete'
  BY <1>1, <1>2 DEF Filled, Complete
<1>4. missing \in Nat \ {0}
  BY CodecAssumption
<1>5. raw' = SubSeq(bytes, 1, Len(bytes) - missing) /\ missing <= Len(bytes) /\ bytes' = bytes
  BY <1>1, <1>2
<1> HIDE DEF bytes
<1>6. \E k \in Nat \ {0} : k <= Len(bytes) /\ raw' = SubSeq(bytes, 1, Len(bytes) - k)
  BY <1>4, <1>5
<1>7. QED BY <1>1, <1>3, <1>5, <1>6 DEF CodecInv, bytes

LEMMA DecodeKeeps == CodecInv /\ Decode => CodecInv'
<1> SUFFICES ASSUME CodecInv, Decode PROVE CodecInv'
  OBVIOUS
<1> DEFINE result == ReadFields(Format.reader, raw, 0, Format.reads)
           bytes  == Encoded(Format.writer, Format.writes, values)
           n      == Len(values)
           tame   == Format.reads = Format.writes /\ Format.reader # "Serializer"
<1>1. /\ stage = "sent" /\ stage' = result.end /\ out' = result.val
      /\ raw' = raw /\ whole' = whole /\ values' = values /\ name' = name /\ Format' = Format
  BY DEF Decode, Format
<1>2. Filled /\ Filled'
  BY <1>1 DEF CodecInv, Filled
<1>3. stage' = "sent" /\ whole' => Complete' /\ raw' = bytes'
  BY <1>1 DEF CodecInv, Complete
<1>4. ASSUME whole, name # "over"
      PROVE  result.end = "ok" /\ result.val = Gist(Format.reads, values, n)
  <2>1. Complete /\ raw = bytes
    BY <1>1, <1>4 DEF CodecInv
  <2>2. Legible(Format.writer, Format.writes, Format.reads, values, n)
    BY <1>2, <1>4, <2>1, CompleteIsLegible
  <2> HIDE DEF n
  <2>3. \E to : ReadFields(Format.reader, bytes, 0, Format.reads) =
                    [end |-> "ok", val |-> Gist(Format.reads, values, n), at |-> to]
    <3>1. Recovered(Format.reader, Format.writer, Format.writes, Format.reads, values, n)
      BY <2>2, MessageBack
    <3>2. QED BY <3>1 DEF Recovered
  <2>4. QED BY <2>1, <2>3
<1>5. ASSUME ~ whole, tame
      PROVE  result.end = "error"
  <2>1. /\ Complete
        /\ \E missing \in Nat \ {0} :
              missing <= Len(bytes) /\ raw = SubSeq(bytes, 1, Len(bytes) - missing)
    BY <1>1, <1>5 DEF CodecInv
  <2>2. PICK missing \in Nat \ {0} :
           missing <= Len(bytes) /\ raw = SubSeq(bytes, 1, Len(bytes) - missing)
    BY <2>1
  <2>3. name \in DOMAIN Protocol
    BY <1>2 DEF Filled
  <2>4. Plain(Format)
    BY <1>5, <2>3, FormatsWell DEF Format
  <2>5. /\ Legible(Format.writer, Format.writes, Format.writes, values, n)
        /\ Len(Format.writes) = n
    BY <1>2, <2>1, <2>4, CompleteIsLegible DEF Complete
  <2>6. \A i \in 1..n : ~ Uneven(Format.writer, Format.writes[i])
    BY <2>4, <2>5 DEF Plain
  <2> HIDE DEF n
  <2>7. ReadFields(Format.reader, SubSeq(bytes, 1, Len(bytes) - missing), 0, Format.writes).end
            = "error"
    <3>1. Format.reader # "Serializer" /\ missing <= Len(bytes)
      BY <1>5, <2>2
    <3>2. bytes = Encoded(Format.writer, Format.writes, values)
      OBVIOUS
    <3> HIDE DEF bytes
    <3>3. QED BY <2>5, <2>6, <3>1, <3>2, MessageCut
  <2>8. QED BY <1>5, <2>2, <2>7
<1> HIDE DEF result, bytes
<1>6. whole' /\ name' # "over" =>
        /\ stage' \in {"new", "refused", "sent", "ok"}
        /\ stage' = "ok" => out' = Gist(Format.reads, values, n)'
  BY <1>1, <1>4
<1>7. ~ whole' /\ tame' => stage' = "error"
  BY <1>1, <1>5
<1>8. QED BY <1>2, <1>3, <1>6, <1>7 DEF CodecInv, bytes

LEMMA CodecStep == CodecInv /\ [CodecNext]_codecVars => CodecInv'
<1> SUFFICES ASSUME CodecInv, [CodecNext]_codecVars PROVE CodecInv'
  OBVIOUS
<1>1. CASE /\ Len(values) < Len(Format.writes)
           /\ \E v \in FieldValues(Format.writes[Len(values) + 1]) : Fill(v)
  BY <1>1, FillKeeps
<1>2. CASE Encode
  BY <1>2, EncodeKeeps
<1>3. CASE \E missing \in 1..MaxCut : Shorten(missing)
  BY <1>3, ShortenKeeps
<1>4. CASE Decode
  BY <1>4, DecodeKeeps
<1>5. CASE UNCHANGED codecVars
  BY <1>5 DEF codecVars, CodecInv, Filled, Complete, Format
<1>6. QED BY <1>1, <1>2, <1>3, <1>4, <1>5 DEF CodecNext

LEMMA CodecInvAlways == CodecSpec => []CodecInv
<1>1. QED BY CodecStart, CodecStep, PTL DEF CodecSpec

(* The reader goes through the fields the writer went through; only of the last number of
   user_info it takes four bytes. *)
LEMMA ReadsAsWritten ==
    ASSUME NEW m \in DOMAIN Protocol, m # "over", NEW i \in 1..Len(Protocol[m].writes)
    PROVE  \/ Protocol[m].reads[i] = Protocol[m].writes[i]
           \/ m = "user_info" /\ i = 6 /\ Protocol[m].reads[i] = Uint(4)
<1>1. CASE m = "agree"
  <2>1. Protocol["agree"].writes = <<Bool>> /\ Protocol["agree"].reads = <<Bool>>
    BY DEF Protocol
  <2>2. QED BY <1>1, <2>1
<1>2. CASE m = "user_info"
  <2>1. /\ Protocol["user_info"].writes = <<Bytes(1), Uint(4), Uint(4), Uint(4), Uint(4), Uint(8)>>
        /\ Protocol["user_info"].reads = <<Bytes(1), Uint(4), Uint(4), Uint(4), Uint(4), Uint(4)>>
    BY DEF Protocol, Head8
  <2>2. i \in {1, 2, 3, 4, 5, 6}
    BY <1>2, <2>1
  <2>3. QED BY <1>2, <2>1, <2>2
<1>3. CASE m \notin {"agree", "user_info"}
  <2>1. Plain(Protocol[m])
    BY <1>3, Names, PlainFormats
  <2>2. QED BY <2>1 DEF Plain
<1>4. QED BY <1>1, <1>2, <1>3

(* A field that is wide enough keeps all of a value. *)
LEMMA KeptFits ==
    ASSUME NEW f \in Kinds, NEW v, Holds(f, v), InWidth(f, v)
    PROVE  Kept(f, v) = v
<1>1. CASE f.kind = "uint"
  <2>1. v \in Nat /\ v < Span(f.width)
    BY <1>1 DEF Holds, InWidth
  <2>2. f.width \in Nat
    BY <1>1 DEF Kinds, Bool, Uint, Bytes, List
  <2>3. Span(f.width) \in Nat \ {0}
    BY <2>2, SpanFacts
  <2>4. \A k \in Nat \ {0} : v < k => v % k = v
    BY <2>1
  <2>5. QED BY <1>1, <2>1, <2>3, <2>4 DEF Kept
<1>2. CASE f.kind # "uint"
  BY <1>2 DEF Kept
<1>3. QED BY <1>1, <1>2

(* What comes out of a whole message is what was put in. *)
LEMMA FieldUnderstood ==
    ASSUME Filled, name # "over", NEW i \in 1..Len(values)
    PROVE  Kept(Format.reads[i], values[i]) = values[i] \/ Overlong(i)
<1>1. /\ name \in DOMAIN Protocol /\ Fields(Format.writes) /\ i \in 1..Len(Format.writes)
      /\ Holds(Format.writes[i], values[i]) /\ InWidth(Format.writes[i], values[i])
  <2>1. name \in DOMAIN Protocol /\ Len(values) \in Nat /\ Len(values) <= Len(Format.writes)
        /\ Holds(Format.writes[i], values[i]) /\ InWidth(Format.writes[i], values[i])
    BY DEF Filled
  <2>2. Fields(Format.writes)
    BY <2>1, FormatsWell DEF Format
  <2>3. Len(Format.writes) \in Nat
    BY <2>2 DEF Fields
  <2>4. QED BY <2>1, <2>2, <2>3
<1>2. Format.writes[i] \in Kinds
  BY <1>1 DEF Fields
<1>3. CASE Format.reads[i] = Format.writes[i]
  BY <1>1, <1>2, <1>3, KeptFits
<1>4. CASE name = "user_info" /\ i = 6 /\ Format.reads[i] = Uint(4) /\ values[i] < Span(4)
  <2>1. Format.writes[i] = Uint(8)
    BY <1>4 DEF Format, Protocol
  <2>2. Holds(Uint(4), values[i]) /\ InWidth(Uint(4), values[i]) /\ Uint(4) \in Kinds
    BY <1>1, <1>4, <2>1 DEF Holds, InWidth, Uint, Kinds
  <2>3. QED BY <1>4, <2>2, KeptFits
<1>5. CASE name = "user_info" /\ i = 6 /\ ~ (values[i] < Span(4))
  <2>1. Format.writes[i] = Uint(8)
    BY <1>5 DEF Format, Protocol
  <2>2. values[i] \in Nat
    BY <1>1, <2>1 DEF Holds, Uint
  <2>3. Span(4) \in Nat
    BY SpanFacts
  <2>4. values[i] >= Span(4)
    BY <1>5, <2>2, <2>3
  <2>5. QED BY <1>5, <2>4 DEF Overlong
<1>6. \/ Format.reads[i] = Format.writes[i]
      \/ name = "user_info" /\ i = 6 /\ Format.reads[i] = Uint(4)
  BY <1>1, ReadsAsWritten DEF Format
<1>7. QED BY <1>3, <1>4, <1>5, <1>6

(* Every message of the protocol, whoever writes it (Marshal, the old Serializer, the client)
   and whoever reads it, comes out as it was put in, whatever its values and however close
   to the limits of its numbers and prefixes; or its sender refuses it.  Only the end of a
   game and the duration of user_info that needs more than four bytes are left out: there
   the lists of the server and the client differ.                               *)
THEOREM EveryMessageUnderstood == CodecSpec => []Understood
<1>1. CodecInv => Understood
  <2> SUFFICES ASSUME CodecInv, whole, name # "over", stage \in {"ok", "error", "panic"}
               PROVE  /\ stage = "ok" /\ Len(out) = Len(values)
                      /\ \A i \in DOMAIN out : out[i] = values[i] \/ Overlong(i)
    BY DEF Understood
  <2>1. stage = "ok" /\ out = Gist(Format.reads, values, Len(values)) /\ Len(values) \in Nat
    BY DEF CodecInv, Filled
  <2> DEFINE n == Len(values)
             V == {Kept(Format.reads[i], values[i]) : i \in 1..n}
  <2>2. out = [i \in 1..n |-> Kept(Format.reads[i], values[i])] /\ n \in Nat
    BY <2>1 DEF Gist
  <2>3. \A i \in 1..n : Kept(Format.reads[i], values[i]) = values[i] \/ Overlong(i)
    BY FieldUnderstood DEF CodecInv
  <2> HIDE DEF n
  <2>4. out \in [1..n -> V]
    BY <2>2
  <2>5. Len(out) = n /\ DOMAIN out = 1..n
    <3> HIDE DEF V
    <3>1. QED BY <2>2, <2>4
  <2>6. \A i \in 1..n : out[i] = Kept(Format.reads[i], values[i])
    BY <2>2
  <2>7. \A i \in 1..n : out[i] = values[i] \/ Overlong(i)
    BY <2>3, <2>6
  <2>8. QED BY <2>1, <2>5, <2>7 DEF n
<1>2. QED BY <1>1, CodecInvAlways, PTL

(* A message whose end is missing, wherever it was cut, ends the reading of Unmarshal and of
   the client in an error: none of its first fields is taken for all of them.   *)
THEOREM EveryCutNoticed == CodecSpec => []CutNoticed
<1>1. CodecInv => CutNoticed
  BY DEF CodecInv, CutNoticed
<1>2. QED BY <1>1, CodecInvAlways, PTL

-----------------------------------------------------------------------------
(* Rooms that are told of *)

(* Two rows of sequences, one behind the other. *)
LEMMA JoinedBehind ==
    ASSUME NEW n \in Nat, NEW m \in Nat, NEW p \in [1..n -> Seq(Octet)], NEW q \in [1..m -> Seq(Octet)],
           NEW b, NEW d, NEW x, NEW y, Joined(b, x, p, n), Joined(d, y, q, m),
           NEW both, \A j \in 1..n : both[j] = p[j], \A j \in 1..m : both[n + j] = q[j]
    PROVE  \E e : Joined(e, x \o y, both, n + m)
<1>1. /\ x \in Seq(Octet) /\ b \in [0..n -> Nat] /\ b[0] = 0 /\ b[n] = Len(x) /\ Len(x) \in Nat
      /\ \A i \in 1..n : /\ b[i] = b[i - 1] + Len(p[i])
                         /\ \A j \in 1..Len(p[i]) : x[b[i - 1] + j] = p[i][j]
  BY DEF Joined
<1>2. /\ y \in Seq(Octet) /\ d \in [0..m -> Nat] /\ d[0] = 0 /\ d[m] = Len(y) /\ Len(y) \in Nat
      /\ \A i \in 1..m : /\ d[i] = d[i - 1] + Len(q[i])
                         /\ \A j \in 1..Len(q[i]) : y[d[i - 1] + j] = q[i][j]
  BY DEF Joined
<1>3. /\ x \o y \in Seq(Octet) /\ Len(x \o y) = Len(x) + Len(y)
      /\ \A j \in 1..Len(x) : (x \o y)[j] = x[j]
      /\ \A j \in 1..Len(y) : (x \o y)[Len(x) + j] = y[j]
  BY <1>1, <1>2, Behind
<1> DEFINE e == [i \in 0..(n + m) |-> IF i <= n THEN b[i] ELSE Len(x) + d[i - n]]
<1>4. /\ \A i \in 0..n : e[i] = b[i]
      /\ \A i \in 0..m : e[n + i] = Len(x) + d[i]
  <2>1. ASSUME NEW i \in 0..n PROVE e[i] = b[i]
    <3>1. i \in 0..(n + m) /\ i <= n
      OBVIOUS
    <3>2. QED BY <3>1
  <2>2. ASSUME NEW i \in 0..m PROVE e[n + i] = Len(x) + d[i]
    <3>1. n + i \in 0..(n + m) /\ (n + i) - n = i /\ (n + i <= n <=> i = 0)
      OBVIOUS
    <3>2. CASE i = 0
      BY <1>1, <1>2, <3>1, <3>2
    <3>3. CASE i # 0
      BY <3>1, <3>3
    <3>4. QED BY <3>2, <3>3
  <2>3. QED BY <2>1, <2>2
<1>5. e \in [0..(n + m) -> Nat]
  <2>1. ASSUME NEW i \in 0..(n + m) PROVE e[i] \in Nat
    <3>1. CASE i <= n
      BY <1>1, <1>4, <3>1
    <3>2. CASE i > n
      <4>1. i - n \in 0..m /\ n + (i - n) = i
        BY <3>2
      <4>2. e[i] = Len(x) + d[i - n] /\ d[i - n] \in Nat
        BY <1>2, <1>4, <4>1
      <4>3. QED BY <1>1, <4>2
    <3>3. QED BY <3>1, <3>2
  <2>2. e = [i \in 0..(n + m) |-> e[i]]
    OBVIOUS
  <2> HIDE DEF e
  <2>3. QED BY <2>1, <2>2
<1> HIDE DEF e
<1>6. e[0] = 0 /\ e[n + m] = Len(x \o y)
  <2>1. 0 \in 0..n /\ m \in 0..m
    OBVIOUS
  <2>2. QED BY <1>1, <1>2, <1>3, <1>4, <2>1
<1>7. ASSUME NEW i \in 1..(n + m)
      PROVE  /\ e[i] = e[i - 1] + Len(both[i])
             /\ \A j \in 1..Len(both[i]) : (x \o y)[e[i - 1] + j] = both[i][j]
  <2>1. CASE i <= n
    <3>1. i \in 1..n /\ i \in 0..n /\ i - 1 \in 0..n /\ n \in 0..n
      BY <2>1
    <3>2. e[i] = b[i] /\ e[i - 1] = b[i - 1] /\ both[i] = p[i]
      BY <1>4, <3>1
    <3>3. b[i] <= b[n] /\ b[i] = b[i - 1] + Len(p[i]) /\ b[i - 1] \in Nat /\ Len(p[i]) \in Nat
      <4>1. b[i] <= b[n]
        BY <2>1, <3>1, EndsGrow
      <4>2. Len(p[i]) \in Nat
        BY <3>1
      <4>3. QED BY <1>1, <3>1, <4>1, <4>2
    <3>4. ASSUME NEW j \in 1..Len(p[i]) PROVE (x \o y)[b[i - 1] + j] = p[i][j]
      <4>1. b[i - 1] + j \in 1..Len(x)
        BY <1>1, <3>1, <3>3, Within
      <4>2. QED BY <1>1, <1>3, <3>1, <4>1
    <3>5. QED BY <3>2, <3>3, <3>4
  <2>2. CASE i > n
    <3> DEFINE k == i - n
    <3>1. k \in 1..m /\ k \in 0..m /\ k - 1 \in 0..m /\ n + k = i /\ n + (k - 1) = i - 1 /\ m \in 0..m
      BY <2>2
    <3> HIDE DEF k
    <3>2. e[i] = Len(x) + d[k] /\ e[i - 1] = Len(x) + d[k - 1] /\ both[i] = q[k]
      BY <1>4, <3>1
    <3>3. d[k] <= d[m] /\ d[k] = d[k - 1] + Len(q[k]) /\ d[k - 1] \in Nat /\ Len(q[k]) \in Nat
      <4>1. d[k] <= d[m]
        <5>1. k <= m
          BY <3>1
        <5>2. QED BY <3>1, <5>1, EndsGrow
      <4>2. Len(q[k]) \in Nat
        BY <3>1
      <4>3. QED BY <1>2, <3>1, <4>1, <4>2
    <3>4. ASSUME NEW j \in 1..Len(q[k]) PROVE (x \o y)[(Len(x) + d[k - 1]) + j] = q[k][j]
      <4>1. d[k - 1] + j \in 1..Len(y) /\ (Len(x) + d[k - 1]) + j = Len(x) + (d[k - 1] + j)
        <5>1. d[k - 1] + j \in 1..Len(y)
          BY <1>2, <3>1, <3>3, Within
        <5>2. QED BY <1>1, <3>3, <5>1
      <4>2. y[d[k - 1] + j] = q[k][j]
        BY <1>2, <3>1
      <4>3. QED BY <1>3, <4>1, <4>2
    <3>5. Len(x) + d[k] = (Len(x) + d[k - 1]) + Len(q[k])
      BY <1>1, <3>3
    <3>6. e[i] = e[i - 1] + Len(both[i])
      BY <3>2, <3>5
    <3>7. \A j \in 1..Len(both[i]) : (x \o y)[e[i - 1] + j] = both[i][j]
      BY <3>2, <3>4
    <3>8. QED BY <3>6, <3>7
  <2>3. i <= n \/ i > n
    OBVIOUS
  <2>4. QED BY <2>1, <2>2, <2>3
<1>8. Joined(e, x \o y, both, n + m)
  BY <1>3, <1>5, <1>6, <1>7 DEF Joined
<1>9. QED BY <1>8

LEMMA OnePart ==
    ASSUME NEW w \in Seq(Octet), NEW p, p[1] = w
    PROVE  \E e : Joined(e, w, p, 1)
<1> DEFINE e == [i \in 0..1 |-> IF i = 0 THEN 0 ELSE Len(w)]
<1>1. e \in [0..1 -> Nat] /\ e[0] = 0 /\ e[1] = Len(w) /\ Len(w) \in Nat
  OBVIOUS
<1> HIDE DEF e
<1>2. ASSUME NEW i \in 1..1
      PROVE  e[i] = e[i - 1] + Len(p[i]) /\ \A j \in 1..Len(p[i]) : w[e[i - 1] + j] = p[i][j]
  <2>1. i = 1 /\ i - 1 = 0
    OBVIOUS
  <2>2. \A j \in 1..Len(w) : 0 + j = j
    OBVIOUS
  <2>3. QED BY <1>1, <2>1, <2>2
<1>3. Joined(e, w, p, 1)
  BY <1>1, <1>2 DEF Joined
<1>4. QED BY <1>3

(* Fields that stand somewhere in s. *)
WrittenAt(writer, s, start, fs, vals, n, bytes) ==
    /\ Legible(writer, fs, fs, vals, n) /\ \A i \in 1..n : ~ Uneven(writer, fs[i])
    /\ \E w : \E parts \in [1..n -> Seq(Octet)] :
          /\ \A i \in 1..n : parts[i] = Written(writer, fs[i], vals[i])
          /\ Joined(w, bytes, parts, n)
    /\ s \in Seq(Octet) /\ start \in Nat /\ Stands(s, start, bytes)

ReadBack(reader, s, start, fs, vals, n, bytes) ==
    ReadFields(reader, s, start, fs) =
        [end |-> "ok", val |-> Gist(fs, vals, n), at |-> start + Len(bytes)]

(* They are all read as they were written. *)
LEMMA FieldsBack ==
    ASSUME NEW reader, NEW writer, NEW s, NEW start, NEW fs, NEW vals, NEW n, NEW bytes,
           WrittenAt(writer, s, start, fs, vals, n, bytes)
    PROVE  ReadBack(reader, s, start, fs, vals, n, bytes)
<1>0. PICK w : \E parts \in [1..n -> Seq(Octet)] :
          /\ \A i \in 1..n : parts[i] = Written(writer, fs[i], vals[i])
          /\ Joined(w, bytes, parts, n)
  BY DEF WrittenAt
<1>1. PICK parts \in [1..n -> Seq(Octet)] :
          /\ \A i \in 1..n : parts[i] = Written(writer, fs[i], vals[i])
          /\ Joined(w, bytes, parts, n)
  BY <1>0
<1>2. /\ Legible(writer, fs, fs, vals, n) /\ \A i \in 1..n : ~ Uneven(writer, fs[i])
      /\ s \in Seq(Octet) /\ start \in Nat /\ Stands(s, start, bytes)
  BY DEF WrittenAt
<1> DEFINE gist == Gist(fs, vals, n)
           e    == [i \in 0..n |-> start + w[i]]
<1>3. n \in Nat /\ Len(fs) = n
  BY <1>2 DEF Legible
<1>4. /\ w \in [0..n -> Nat] /\ w[0] = 0 /\ w[n] = Len(bytes)
      /\ \A i \in 1..n : w[i] = w[i - 1] + Len(parts[i])
  BY <1>1 DEF Joined
<1>5. \A i \in 1..n : Stands(s, start + w[i - 1], parts[i])
  BY <1>1, <1>2, <1>3, StandsJoined
<1>6. e \in [0..n -> Nat] /\ \A i \in 0..n : e[i] = start + w[i]
  BY <1>2, <1>4
<1> HIDE DEF e
<1>7. e[0] = start /\ e[n] = start + Len(bytes)
  <2>1. 0 \in 0..n /\ n \in 0..n
    BY <1>3
  <2>2. e[0] = start + 0 /\ e[n] = start + Len(bytes)
    BY <1>4, <1>6, <2>1
  <2>3. start + 0 = start
    BY <1>2
  <2>4. QED BY <2>2, <2>3
<1> DEFINE V == {gist[i] : i \in 1..n}
<1>8. gist \in [1..n -> V] /\ \A i \in 1..n : gist[i] = Kept(fs[i], vals[i])
  BY DEF Gist
<1> HIDE DEF gist, V
<1>9. ASSUME NEW i \in 1..n
      PROVE  ReadField(reader, s, e[i - 1], fs[i]) = [end |-> "ok", val |-> gist[i], at |-> e[i]]
  <2>1. i \in 0..n /\ i - 1 \in 0..n
    BY <1>3
  <2>2. ReadAs(fs[i], fs[i]) /\ Holds(fs[i], vals[i]) /\ CanWrite(fs[i], vals[i])
    BY <1>2 DEF Legible
  <2>3. e[i - 1] \in Nat /\ e[i - 1] = start + w[i - 1]
    BY <1>2, <1>4, <1>6, <2>1
  <2>4. Comes(reader, s, e[i - 1], writer, fs[i], fs[i], vals[i])
    BY <1>2, <2>2, <2>3, FieldBack
  <2>5. Stands(s, e[i - 1], Written(writer, fs[i], vals[i]))
    BY <1>1, <1>5, <2>3
  <2>6. FieldRead(reader, s, e[i - 1], writer, fs[i], fs[i], vals[i])
    BY <2>4, <2>5 DEF Comes
  <2>7. e[i] = e[i - 1] + Len(Written(writer, fs[i], vals[i]))
    <3>1. e[i] = start + w[i] /\ w[i] = w[i - 1] + Len(parts[i])
      BY <1>4, <1>6, <2>1
    <3>2. w[i - 1] \in Nat /\ Len(parts[i]) \in Nat
      BY <1>4, <2>1
    <3>3. e[i] = (start + w[i - 1]) + Len(parts[i])
      BY <1>2, <3>1, <3>2
    <3>4. parts[i] = Written(writer, fs[i], vals[i])
      BY <1>1
    <3>5. e[i] = e[i - 1] + Len(parts[i])
      BY <2>3, <3>3
    <3>6. QED BY <3>4, <3>5
  <2>8. ~ Uneven(writer, fs[i]) /\ gist[i] = Kept(fs[i], vals[i])
    BY <1>2, <1>8
  <2>9. QED BY <2>6, <2>7, <2>8 DEF FieldRead
<1>10. n \in 0..n /\ ~ (n < n)
  BY <1>3
<1>11. FieldsUpTo(reader, s, fs, n, gist, n, e)
  BY <1>9, <1>10 DEF FieldsUpTo
<1>12. FieldsEnd(reader, s, fs, n, gist, n, e)
  BY <1>3, <1>6, <1>8, <1>10, <1>11, FieldsRead
<1>13. QED BY <1>7, <1>12 DEF FieldsEnd, gist, ReadBack

-----------------------------------------------------------------------------
(* What an answer says *)

(* The jth of the fields of the rooms. *)
FieldOf(j) == ConciseRoom[((j - 1) % 6) + 1]

(* What fits into a field of a room. *)
Sound(f, v) ==
    /\ f \in {1, 3, 4} => v \in Seq(Octet) /\ Len(v) < Radix
    /\ f = 2 => v \in BOOLEAN
    /\ f \in {5, 6} => v \in Nat /\ v < Radix

(* That was once so of a room. *)
Was(i, f, v) ==
    /\ f = 1 => v = RoomNames[i]
    /\ f = 2 => \E k \in 1..Len(history) : history[k][i].playing = v
    /\ f = 3 => \E k \in 1..Len(history) : history[k][i].black = v
    /\ f = 4 => \E k \in 1..Len(history) : history[k][i].white = v
    /\ f = 5 => \E k \in 1..Len(history) : history[k][i].users = v
    /\ f = 6 => v = MaxUsers

(* The jth value is one that the room it is about had. *)
HasBeen(j, v) ==
    \A i \in Nat \ {0}, f \in 1..6 :
        j = 6 * (i - 1) + f => i \in RoomIds /\ Sound(f, v) /\ Was(i, f, v)

HeadFields == <<Head8, Head8, U8>>
HeadValues == << <<0>>, << >>, Len(RoomNames)>>
HeadBytes  == Encoded("Serializer", HeadFields, HeadValues)

RoomParts(k, vals) == [j \in 1..k |-> Written("Serializer", FieldOf(j), vals[j])]

(* An answer that holds the first k fields so far. *)
Holding(answer, k, vals) ==
    \E e, body : answer = HeadBytes \o body /\ Joined(e, body, RoomParts(k, vals), k)

Tells(answer, k) ==
    \E vals : (\A j \in 1..k : HasBeen(j, vals[j])) /\ Holding(answer, k, vals)

LEMMA SixFields ==
    /\ \A i \in Nat \ {0}, f \in 1..6 : FieldOf(6 * (i - 1) + f) = ConciseRoom[f]
    /\ \A j \in Nat \ {0} : \E i \in Nat \ {0}, f \in 1..6 : j = 6 * (i - 1) + f
    /\ \A i, k \in Nat \ {0}, f, g \in 1..6 :
          6 * (i - 1) + f = 6 * (k - 1) + g => i = k /\ f = g
<1>1. ASSUME NEW i \in Nat \ {0}, NEW f \in 1..6 PROVE FieldOf(6 * (i - 1) + f) = ConciseRoom[f]
  <2>1. (((6 * (i - 1) + f) - 1) % 6) + 1 = f
    OBVIOUS
  <2>2. QED BY <2>1 DEF FieldOf
<1>2. ASSUME NEW j \in Nat \ {0} PROVE \E i \in Nat \ {0}, f \in 1..6 : j = 6 * (i - 1) + f
  <2> DEFINE i == ((j - 1) \div 6) + 1
             f == ((j - 1) % 6) + 1
  <2>1. i \in Nat \ {0} /\ f \in 1..6 /\ j = 6 * (i - 1) + f
    OBVIOUS
  <2>2. QED BY <2>1
<1>3. ASSUME NEW i \in Nat \ {0}, NEW k \in Nat \ {0}, NEW f \in 1..6, NEW g \in 1..6,
             6 * (i - 1) + f = 6 * (k - 1) + g
      PROVE  i = k /\ f = g
  BY <1>3
<1>4. QED BY <1>1, <1>2, <1>3

(* A value that fits can be written into its field and read back. *)
Passes(g, v) ==
    /\ ReadAs(g, g) /\ Holds(g, v) /\ CanWrite(g, v) /\ Kept(g, v) = v
    /\ ~ Uneven("Serializer", g) /\ Written("Serializer", g, v) \in Seq(Octet)

LEMMA PassesIf ==
    ASSUME NEW g, NEW v, ReadAs(g, g), Holds(g, v), CanWrite(g, v), Kept(g, v) = v
    PROVE  Passes(g, v)
<1>1. << >> \in Seq(Octet) /\ 0 \in Nat
  OBVIOUS
<1>2. Comes("client", << >>, 0, "Serializer", g, g, v)
  BY <1>1, FieldBack
<1>3. QED BY <1>2 DEF Comes, Passes, Uneven

LEMMA BytesPass == \A v \in Seq(Octet) : Len(v) < Radix => Passes(Head8, v)
<1> SUFFICES ASSUME NEW v \in Seq(Octet), Len(v) < Radix PROVE Passes(Head8, v)
  OBVIOUS
<1>1. ReadAs(Head8, Head8)
  <2>1. 1 \in Nat
    OBVIOUS
  <2>2. QED BY <2>1 DEF ReadAs, Field, Head8
<1>2. Holds(Head8, v) /\ CanWrite(Head8, v) /\ Kept(Head8, v) = v
  BY OneByteSpan DEF Holds, CanWrite, Kept, Head8, Bytes, Fits
<1>3. QED BY <1>1, <1>2, PassesIf

LEMMA BoolPasses == \A v \in BOOLEAN : Passes(Bool, v)
<1> SUFFICES ASSUME NEW v \in BOOLEAN PROVE Passes(Bool, v)
  OBVIOUS
<1>1. ReadAs(Bool, Bool)
  BY DEF ReadAs, Field
<1>2. Holds(Bool, v) /\ CanWrite(Bool, v) /\ Kept(Bool, v) = v
  BY DEF Holds, CanWrite, Kept, Bool
<1>3. QED BY <1>1, <1>2, PassesIf

LEMMA BytePasses == \A v \in Nat : v < Radix => Passes(U8, v)
<1> SUFFICES ASSUME NEW v \in Nat, v < Radix PROVE Passes(U8, v)
  OBVIOUS
<1>1. ReadAs(U8, U8)
  <2>1. 1 \in Nat
    OBVIOUS
  <2>2. QED BY <2>1 DEF ReadAs, Field, U8
<1>2. v % Span(1) = v
  BY OneByteSpan, RadixAssumption
<1>3. Holds(U8, v) /\ CanWrite(U8, v) /\ Kept(U8, v) = v
  BY <1>2 DEF Holds, CanWrite, Kept, U8, Uint
<1>4. QED BY <1>1, <1>3, PassesIf

LEMMA SoundPasses ==
    ASSUME NEW f \in 1..6, NEW v, Sound(f, v)
    PROVE  Passes(ConciseRoom[f], v)
<1>1. /\ ConciseRoom[1] = Head8 /\ ConciseRoom[2] = Bool /\ ConciseRoom[3] = Head8
      /\ ConciseRoom[4] = Head8 /\ ConciseRoom[5] = U8 /\ ConciseRoom[6] = U8
  BY DEF ConciseRoom
<1>2. CASE f \in {1, 3, 4}
  BY <1>1, <1>2, BytesPass DEF Sound
<1>3. CASE f = 2
  BY <1>1, <1>3, BoolPasses DEF Sound
<1>4. CASE f \in {5, 6}
  BY <1>1, <1>4, BytePasses DEF Sound
<1>5. f \in {1, 3, 4} \/ f = 2 \/ f \in {5, 6}
  OBVIOUS
<1>6. QED BY <1>2, <1>3, <1>4, <1>5

LEMMA HasBeenPasses ==
    ASSUME NEW j \in Nat \ {0}, NEW v, HasBeen(j, v)
    PROVE  Passes(FieldOf(j), v)
<1>1. PICK i \in Nat \ {0}, f \in 1..6 : j = 6 * (i - 1) + f
  BY SixFields
<1>2. Sound(f, v)
  BY <1>1 DEF HasBeen
<1>3. FieldOf(j) = ConciseRoom[f]
  BY <1>1, SixFields
<1>4. QED BY <1>2, <1>3, SoundPasses

LEMMA RoomPartsTypes ==
    ASSUME NEW k \in Nat, NEW vals, \A j \in 1..k : HasBeen(j, vals[j])
    PROVE  /\ RoomParts(k, vals) \in [1..k -> Seq(Octet)]
           /\ \A j \in 1..k : /\ RoomParts(k, vals)[j] = Written("Serializer", FieldOf(j), vals[j])
                              /\ Passes(FieldOf(j), vals[j])
<1>1. ASSUME NEW j \in 1..k PROVE Passes(FieldOf(j), vals[j])
  <2>1. j \in Nat \ {0} /\ HasBeen(j, vals[j])
    OBVIOUS
  <2>2. QED BY <2>1, HasBeenPasses
<1>2. \A j \in 1..k : Written("Serializer", FieldOf(j), vals[j]) \in Seq(Octet)
  BY <1>1 DEF Passes
<1>3. QED BY <1>1, <1>2 DEF RoomParts

LEMMA HeadLegible ==
    /\ Legible("Serializer", HeadFields, HeadFields, HeadValues, 3)
    /\ Len(RoomNames) \in Nat /\ Gist(HeadFields, HeadValues, 3)[3] = Len(RoomNames)
<1>1. Len(RoomNames) \in Nat /\ Len(RoomNames) < Radix
  BY SearchAssumption
<1>2. /\ << 0 >> \in Seq(Octet) /\ Len(<< 0 >>) < Radix
      /\ << >> \in Seq(Octet) /\ Len(<< >>) < Radix
  BY RadixAssumption DEF Octet
<1>3. /\ Len(HeadFields) = 3 /\ DOMAIN HeadFields = 1..3
      /\ HeadFields[1] = Head8 /\ HeadFields[2] = Head8 /\ HeadFields[3] = U8
      /\ HeadValues[1] = << 0 >> /\ HeadValues[2] = << >> /\ HeadValues[3] = Len(RoomNames)
  BY DEF HeadFields, HeadValues
<1>4. Passes(Head8, << 0 >>) /\ Passes(Head8, << >>) /\ Passes(U8, Len(RoomNames))
  BY <1>1, <1>2, BytesPass, BytePasses
<1>5. \A i \in 1..3 : Passes(HeadFields[i], HeadValues[i])
  <2>1. \A i \in 1..3 : i = 1 \/ i = 2 \/ i = 3
    OBVIOUS
  <2>2. QED BY <1>3, <1>4, <2>1
<1>6. Legible("Serializer", HeadFields, HeadFields, HeadValues, 3)
  BY <1>3, <1>5 DEF Legible, Passes
<1>7. Gist(HeadFields, HeadValues, 3)[3] = Len(RoomNames)
  BY <1>3, <1>4 DEF Gist, Passes
<1>8. QED BY <1>1, <1>6, <1>7

LEMMA HeadIsBytes ==
    /\ HeadBytes \in Seq(Octet) /\ Len(HeadBytes) \in Nat
    /\ \A s \in Seq(Octet) : Stands(s, 0, HeadBytes) =>
          ReadFields("client", s, 0, HeadFields) =
              [end |-> "ok", val |-> Gist(HeadFields, HeadValues, 3), at |-> Len(HeadBytes)]
<1> DEFINE parts == Parts("Serializer", HeadFields, HeadValues)
<1>1. /\ parts \in [1..3 -> Seq(Octet)]
      /\ \A i \in 1..3 : parts[i] = Written("Serializer", HeadFields[i], HeadValues[i])
      /\ \E e : Joined(e, HeadBytes, parts, 3)
  BY HeadLegible, MessageParts DEF HeadBytes
<1> HIDE DEF parts
<1>2. PICK e : Joined(e, HeadBytes, parts, 3)
  BY <1>1
<1>3. HeadBytes \in Seq(Octet) /\ Len(HeadBytes) \in Nat /\ 0 + Len(HeadBytes) = Len(HeadBytes)
  BY <1>2 DEF Joined
<1>4. \A i \in 1..3 : ~ Uneven("Serializer", HeadFields[i])
  BY DEF Uneven
<1>5. ASSUME NEW s \in Seq(Octet), Stands(s, 0, HeadBytes)
      PROVE  ReadFields("client", s, 0, HeadFields) =
                 [end |-> "ok", val |-> Gist(HeadFields, HeadValues, 3), at |-> 0 + Len(HeadBytes)]
  <2>1. Legible("Serializer", HeadFields, HeadFields, HeadValues, 3) /\ 0 \in Nat
    BY HeadLegible
  <2>2. WrittenAt("Serializer", s, 0, HeadFields, HeadValues, 3, HeadBytes)
    BY <1>1, <1>2, <1>4, <1>5, <2>1 DEF WrittenAt
  <2>3. ReadBack("client", s, 0, HeadFields, HeadValues, 3, HeadBytes)
    BY <2>2, FieldsBack
  <2>4. QED BY <2>3 DEF ReadBack
<1>6. QED BY <1>3, <1>5

(* The head of an answer tells of nothing yet. *)
LEMMA NothingTold == Tells(HeadBytes, 0)
<1> DEFINE e == [i \in 0..0 |-> 0]
<1>1. << >> \in Seq(Octet) /\ Len(<< >>) = 0 /\ e \in [0..0 -> Nat] /\ e[0] = 0
  OBVIOUS
<1> HIDE DEF e
<1>2. Joined(e, << >>, RoomParts(0, << >>), 0)
  BY <1>1 DEF Joined
<1>3. HeadBytes = HeadBytes \o << >>
  BY HeadIsBytes
<1>4. Holding(HeadBytes, 0, << >>)
  BY <1>2, <1>3 DEF Holding
<1>5. \A j \in 1..0 : HasBeen(j, << >>[j])
  OBVIOUS
<1>6. QED BY <1>4, <1>5 DEF Tells

LEMMA ToldInBytes ==
    ASSUME NEW answer, NEW k, Tells(answer, k)
    PROVE  answer \in Seq(Octet)
<1>1. PICK vals : Holding(answer, k, vals)
  BY DEF Tells
<1>2. PICK body, e : answer = HeadBytes \o body /\ Joined(e, body, RoomParts(k, vals), k)
  BY <1>1 DEF Holding
<1>3. body \in Seq(Octet)
  BY <1>2 DEF Joined
<1>4. QED BY <1>2, <1>3, HeadIsBytes, Behind

(* Further fields are written behind an answer. *)
LEMMA Extended ==
    ASSUME NEW answer, NEW k \in Nat, Tells(answer, k),
           NEW m \in Nat, NEW new, NEW parts \in [1..m -> Seq(Octet)],
           \A j \in 1..m : /\ parts[j] = Written("Serializer", FieldOf(k + j), new[j])
                           /\ HasBeen(k + j, new[j]),
           NEW d, NEW bytes, Joined(d, bytes, parts, m)
    PROVE  answer \in Seq(Octet) /\ Tells(answer \o bytes, k + m)
<1>1. PICK vals : (\A j \in 1..k : HasBeen(j, vals[j])) /\ Holding(answer, k, vals)
  BY DEF Tells
<1>2. PICK e, body : answer = HeadBytes \o body /\ Joined(e, body, RoomParts(k, vals), k)
  BY <1>1 DEF Holding
<1>3. body \in Seq(Octet) /\ bytes \in Seq(Octet) /\ HeadBytes \in Seq(Octet)
  BY <1>2, HeadIsBytes DEF Joined
<1>4. answer \o bytes = HeadBytes \o (body \o bytes) /\ answer \in Seq(Octet)
  BY <1>2, <1>3, Associative, Behind
<1> DEFINE both == [j \in 1..(k + m) |-> IF j <= k THEN vals[j] ELSE new[j - k]]
<1>5. /\ \A j \in 1..k : both[j] = vals[j]
      /\ \A j \in 1..m : both[k + j] = new[j]
  <2>1. \A j \in 1..k : j \in 1..(k + m) /\ j <= k
    OBVIOUS
  <2>2. \A j \in 1..m : k + j \in 1..(k + m) /\ ~ (k + j <= k) /\ (k + j) - k = j
    OBVIOUS
  <2>3. QED BY <2>1, <2>2
<1> HIDE DEF both
<1>6. ASSUME NEW j \in 1..(k + m) PROVE HasBeen(j, both[j])
  <2>1. CASE j <= k
    <3>1. j \in 1..k
      BY <2>1
    <3>2. QED BY <1>1, <1>5, <3>1
  <2>2. CASE j > k
    <3>1. j - k \in 1..m /\ k + (j - k) = j
      BY <2>2
    <3>2. QED BY <1>5, <3>1
  <2>3. j <= k \/ j > k
    OBVIOUS
  <2>4. QED BY <2>1, <2>2, <2>3
<1>7. k + m \in Nat
  OBVIOUS
<1>8. /\ RoomParts(k, vals) \in [1..k -> Seq(Octet)]
      /\ \A j \in 1..k : RoomParts(k, vals)[j] = Written("Serializer", FieldOf(j), vals[j])
  BY <1>1, RoomPartsTypes
<1>9. \A j \in 1..(k + m) : RoomParts(k + m, both)[j] = Written("Serializer", FieldOf(j), both[j])
  BY DEF RoomParts
<1>10. /\ \A j \in 1..k : RoomParts(k + m, both)[j] = RoomParts(k, vals)[j]
       /\ \A j \in 1..m : RoomParts(k + m, both)[k + j] = parts[j]
  <2>1. \A j \in 1..k : j \in 1..(k + m)
    OBVIOUS
  <2>2. \A j \in 1..m : k + j \in 1..(k + m)
    OBVIOUS
  <2>3. QED BY <1>5, <1>8, <1>9, <2>1, <2>2
<1>11. \E w : Joined(w, body \o bytes, RoomParts(k + m, both), k + m)
  BY <1>2, <1>8, <1>10, JoinedBehind
<1>12. Holding(answer \o bytes, k + m, both)
  BY <1>4, <1>11 DEF Holding
<1>13. QED BY <1>4, <1>6, <1>12 DEF Tells

(* One field is written behind an answer. *)
LEMMA OneFieldMore ==
    ASSUME NEW answer, NEW k \in Nat, Tells(answer, k), NEW v, HasBeen(k + 1, v)
    PROVE  /\ answer \in Seq(Octet)
           /\ Tells(answer \o Written("Serializer", FieldOf(k + 1), v), k + 1)
<1> DEFINE w == Written("Serializer", FieldOf(k + 1), v)
           parts == [j \in 1..1 |-> w]
           new == [j \in 1..1 |-> v]
<1>1. w \in Seq(Octet)
  <2>1. k + 1 \in Nat \ {0}
    OBVIOUS
  <2>2. Passes(FieldOf(k + 1), v)
    BY <2>1, HasBeenPasses
  <2>3. QED BY <2>2 DEF Passes
<1>2. parts \in [1..1 -> Seq(Octet)] /\ parts[1] = w /\ new[1] = v /\ 1 \in Nat
      /\ \A j \in 1..1 : j = 1
  BY <1>1
<1>3. PICK d : Joined(d, w, parts, 1)
  BY <1>1, <1>2, OnePart
<1> HIDE DEF parts, new
<1>4. \A j \in 1..1 : /\ parts[j] = Written("Serializer", FieldOf(k + j), new[j])
                      /\ HasBeen(k + j, new[j])
  BY <1>2
<1> HIDE DEF w
<1>5. answer \in Seq(Octet) /\ Tells(answer \o w, k + 1)
  BY <1>2, <1>3, <1>4, Extended
<1>6. QED BY <1>5 DEF w

(* A number that does not fit would be left out, but these do. *)
LEMMA UsersAsWritten ==
    \A v \in Nat : v < Radix => Uint8_Int(v) = Written("Serializer", U8, v)
<1> SUFFICES ASSUME NEW v \in Nat, v < Radix PROVE Uint8_Int(v) = Written("Serializer", U8, v)
  OBVIOUS
<1>1. Fits(v, 1)
  BY OneByteSpan DEF Fits
<1>2. QED BY <1>1 DEF Uint8_Int, Written, U8, Uint

(* The name of a room, whether a game is on, and the players. *)
LEMMA FourFieldsMore ==
    ASSUME NEW answer, NEW k \in Nat, Tells(answer, k), NEW new, DOMAIN new = 1..4,
           NEW i \in Nat \ {0}, k = 6 * (i - 1), \A j \in 1..4 : HasBeen(k + j, new[j])
    PROVE  /\ answer \in Seq(Octet)
           /\ Tells(answer \o Encoded("Serializer", <<Head8, Bool, Head8, Head8>>, new), k + 4)
<1> DEFINE fs == <<Head8, Bool, Head8, Head8>>
           parts == [j \in DOMAIN fs |-> Written("Serializer", fs[j], new[j])]
<1>1. DOMAIN fs = 1..4 /\ 4 \in Nat /\ \A j \in 1..4 : fs[j] = ConciseRoom[j]
  <2>1. \A j \in 1..4 : j = 1 \/ j = 2 \/ j = 3 \/ j = 4
    OBVIOUS
  <2>2. DOMAIN fs = 1..4 /\ fs[1] = Head8 /\ fs[2] = Bool /\ fs[3] = Head8 /\ fs[4] = Head8
    OBVIOUS
  <2>3. /\ ConciseRoom[1] = Head8 /\ ConciseRoom[2] = Bool /\ ConciseRoom[3] = Head8
        /\ ConciseRoom[4] = Head8
    BY DEF ConciseRoom
  <2> HIDE DEF fs
  <2>4. QED BY <2>1, <2>2, <2>3
<1> HIDE DEF fs
<1>2. ASSUME NEW j \in 1..4
      PROVE  FieldOf(k + j) = fs[j] /\ Written("Serializer", fs[j], new[j]) \in Seq(Octet)
  <2>1. j \in 1..6 /\ k + j \in Nat \ {0}
    OBVIOUS
  <2>2. FieldOf(k + j) = ConciseRoom[j]
    BY <2>1, SixFields
  <2>3. Passes(FieldOf(k + j), new[j])
    BY <2>1, HasBeenPasses
  <2>4. QED BY <1>1, <2>2, <2>3 DEF Passes
<1>3. /\ parts \in [1..4 -> Seq(Octet)]
      /\ \A j \in 1..4 : parts[j] = Written("Serializer", FieldOf(k + j), new[j])
  BY <1>1, <1>2
<1>4. Encoded("Serializer", fs, new) = FlattenSeq(parts)
  BY DEF Encoded
<1> HIDE DEF parts
<1>5. PICK d : Joined(d, FlattenSeq(parts), parts, 4)
  BY <1>1, <1>3, Flattened
<1>6. answer \in Seq(Octet) /\ Tells(answer \o FlattenSeq(parts), k + 4)
  BY <1>1, <1>3, <1>5, Extended
<1>7. QED BY <1>4, <1>6 DEF fs

-----------------------------------------------------------------------------
(* What was so stays so *)

(* The rooms so far stay in the history. *)
Remembered == \A k \in 1..Len(history) : k \in 1..Len(history') /\ history'[k] = history[k]

LEMMA WasStill ==
    ASSUME Remembered, NEW i, NEW f, NEW v, Was(i, f, v)
    PROVE  Was(i, f, v)'
<1>1. f = 1 => v = RoomNames[i]
  BY DEF Was
<1>2. f = 2 => \E k \in 1..Len(history') : history'[k][i].playing = v
  BY DEF Was, Remembered
<1>3. f = 3 => \E k \in 1..Len(history') : history'[k][i].black = v
  BY DEF Was, Remembered
<1>4. f = 4 => \E k \in 1..Len(history') : history'[k][i].white = v
  BY DEF Was, Remembered
<1>5. f = 5 => \E k \in 1..Len(history') : history'[k][i].users = v
  BY DEF Was, Remembered
<1>6. f = 6 => v = MaxUsers
  BY DEF Was
<1>7. QED BY <1>1, <1>2, <1>3, <1>4, <1>5, <1>6 DEF Was

LEMMA TellsStill ==
    ASSUME Remembered, NEW answer, NEW k, Tells(answer, k)
    PROVE  Tells(answer, k)'
<1>1. PICK vals : (\A j \in 1..k : HasBeen(j, vals[j])) /\ Holding(answer, k, vals)
  BY DEF Tells
<1>2. ASSUME NEW j \in 1..k PROVE HasBeen(j, vals[j])'
  <2>1. HasBeen(j, vals[j])
    BY <1>1
  <2>2. ASSUME NEW i \in Nat \ {0}, NEW f \in 1..6, j = 6 * (i - 1) + f
        PROVE  i \in RoomIds /\ Sound(f, vals[j]) /\ Was(i, f, vals[j])'
    BY <2>1, <2>2, WasStill DEF HasBeen
  <2>3. QED BY <2>2 DEF HasBeen
<1>3. QED BY <1>1, <1>2 DEF Tells

(* What a room can be told of. *)
Names8 == {v \in Seq(Octet) : Len(v) < Radix}
RoomsOnce == [RoomIds -> [playing : BOOLEAN, black : Names8, white : Names8, users : Nat]]

HistoryTyped == history \in Seq(RoomsOnce) /\ Len(history) \in Nat \ {0}

LEMMA RoomsNow ==
    ASSUME HistoryTyped
    PROVE  Len(history) \in 1..Len(history) /\ rooms = history[Len(history)] /\ rooms \in RoomsOnce
<1>1. Len(history) \in 1..Len(history) /\ rooms = history[Len(history)]
  BY DEF HistoryTyped, rooms, Last
<1>2. QED BY <1>1 DEF HistoryTyped

LEMMA WasSound ==
    ASSUME HistoryTyped, ~ Overfull, NEW i \in RoomIds, NEW f \in 1..6, NEW v, Was(i, f, v)
    PROVE  Sound(f, v)
<1>1. /\ \A k \in 1..Len(history) : history[k] \in RoomsOnce
      /\ DOMAIN history = 1..Len(history)
  BY DEF HistoryTyped
<1>2. ASSUME NEW k \in 1..Len(history)
      PROVE  /\ history[k][i].playing \in BOOLEAN /\ history[k][i].black \in Names8
             /\ history[k][i].white \in Names8 /\ history[k][i].users \in Nat
  BY <1>1 DEF RoomsOnce
<1>3. ASSUME NEW k \in 1..Len(history) PROVE history[k][i].users < Radix
  <2>1. Fits(history[k][i].users, 1)
    BY <1>1 DEF Overfull
  <2>2. QED BY <2>1, OneByteSpan DEF Fits
<1>4. CASE f = 1
  <2>1. RoomNames[i] \in Seq(Octet) /\ Len(RoomNames[i]) < Radix
    BY SearchAssumption DEF Octet, RoomIds
  <2>2. v = RoomNames[i]
    BY <1>4 DEF Was
  <2>3. QED BY <1>4, <2>1, <2>2 DEF Sound
<1>5. CASE f = 2
  BY <1>2, <1>5 DEF Was, Sound
<1>6. CASE f = 3
  BY <1>2, <1>6 DEF Was, Sound, Names8
<1>7. CASE f = 4
  BY <1>2, <1>7 DEF Was, Sound, Names8
<1>8. CASE f = 5
  BY <1>2, <1>3, <1>8 DEF Was, Sound
<1>9. CASE f = 6
  <2>1. MaxUsers \in Nat /\ MaxUsers < Radix
    BY SearchAssumption, RadixAssumption
  <2>2. QED BY <1>9, <2>1 DEF Was, Sound
<1>10. QED BY <1>4, <1>5, <1>6, <1>7, <1>8, <1>9

LEMMA HasBeenIf ==
    ASSUME HistoryTyped, ~ Overfull, NEW i \in RoomIds, NEW f \in 1..6, NEW v, Was(i, f, v)
    PROVE  HasBeen(6 * (i - 1) + f, v)
<1>1. i \in Nat \ {0}
  BY SearchAssumption DEF RoomIds
<1>2. Sound(f, v)
  BY WasSound
<1>3. ASSUME NEW k \in Nat \ {0}, NEW g \in 1..6, 6 * (i - 1) + f = 6 * (k - 1) + g
      PROVE  k \in RoomIds /\ Sound(g, v) /\ Was(k, g, v)
  <2>1. i = k /\ f = g
    BY <1>1, <1>3, SixFields
  <2>2. QED BY <1>2, <2>1
<1>4. QED BY <1>3 DEF HasBeen

LEMMA RoomWas ==
    ASSUME HistoryTyped, NEW i \in RoomIds
    PROVE  /\ Was(i, 1, RoomNames[i]) /\ Was(i, 2, rooms[i].playing)
           /\ Was(i, 3, rooms[i].black) /\ Was(i, 4, rooms[i].white)
           /\ Was(i, 5, rooms[i].users) /\ Was(i, 6, MaxUsers)
<1>1. Len(history) \in 1..Len(history) /\ rooms = history[Len(history)]
  BY RoomsNow
<1> HIDE DEF rooms
<1>2. QED BY <1>1 DEF Was

-----------------------------------------------------------------------------
(* The pipes, the datagrams and the clients *)

SeatLists == Seq(Seq(Octet))

PipeRecords ==
    [from : Clients, id : Nat, step : {"version", "black", "white", "playing", "users"},
     room : Nat, seats : SeatLists, raw : Seq(Octet)]

(* A pipe has told of the rooms before its own one, or of the first part of that too,
   and remembers who sat there when it looked.                                  *)
PipeTells(p) == Tells(p.raw, 6 * (p.room - 1) + (IF p.step = "users" THEN 4 ELSE 0))

PipeSaw(p) ==
    /\ p.step \in {"version", "black"} => p.seats = << >>
    /\ p.step = "white" => \E b : p.seats = <<b>> /\ Was(p.room, 3, b)
    /\ p.step = "playing" => \E b, w : p.seats = <<b, w>> /\ Was(p.room, 3, b) /\ Was(p.room, 4, w)

PipeTrue(p) ==
    /\ p \in PipeRecords
    /\ p.room \in 1..Len(RoomNames) + 1
    /\ p.step \in {"white", "playing", "users"} => p.room \in RoomIds
    /\ p.step = "version" => p.room = 1
    /\ p.step # "version" => PipeTells(p)
    /\ PipeSaw(p)

AnswerTrue(a) ==
    a \in [to : Clients, raw : Seq(Octet)] /\ Tells(a.raw, 6 * Len(RoomNames))

(* Rooms as they were. *)
RoomTrue(r) ==
    /\ r.id \in RoomIds
    /\ Was(r.id, 1, r.name) /\ Was(r.id, 2, r.playing) /\ Was(r.id, 3, r.black)
    /\ Was(r.id, 4, r.white) /\ Was(r.id, 5, r.users) /\ Was(r.id, 6, r.max)

RoomsTrue(s) == \E T : s \in Seq(T) /\ \A r \in T : RoomTrue(r)

ClientTrue(c) ==
    /\ receiving[c]
    /\ recv_buffer_[c] \in Seq(Octet) /\ Len(recv_buffer_[c]) >= BufferSize
    /\ RoomsTrue(queue[c])
    /\ \A i \in DOMAIN listed[c] : listed[c][i].id = i /\ RoomTrue(listed[c][i])

ClientVariables ==
    /\ receiving = [c \in Clients |-> receiving[c]]
    /\ recv_buffer_ = [c \in Clients |-> recv_buffer_[c]]
    /\ queue = [c \in Clients |-> queue[c]]
    /\ listed = [c \in Clients |-> listed[c]]

Truthful ==
    /\ \A p \in pipes : PipeTrue(p)
    /\ \A a \in answers : AnswerTrue(a)
    /\ ClientVariables
    /\ \A c \in Clients : ClientTrue(c)

RequestsTyped == requests \subseteq [from : Clients, id : Nat] /\ asked \in Nat

SearchInv ==
    /\ HistoryTyped
    /\ RequestsTyped
    /\ ~ Overfull => Truthful

LEMMA PipeStill ==
    ASSUME Remembered, NEW p, PipeTrue(p)
    PROVE  PipeTrue(p)'
<1>1. p.step # "version" => PipeTells(p)'
  <2>1. p.step # "version" => PipeTells(p)
    BY DEF PipeTrue
  <2>2. QED BY <2>1, TellsStill DEF PipeTells
<1>2. PipeSaw(p)'
  <2>1. PipeSaw(p)
    BY DEF PipeTrue
  <2>2. p.step \in {"version", "black"} => p.seats = << >>
    BY <2>1 DEF PipeSaw
  <2>3. p.step = "white" => \E b : p.seats = <<b>> /\ Was(p.room, 3, b)'
    BY <2>1, WasStill DEF PipeSaw
  <2>4. p.step = "playing" =>
            \E b, w : p.seats = <<b, w>> /\ Was(p.room, 3, b)' /\ Was(p.room, 4, w)'
    BY <2>1, WasStill DEF PipeSaw
  <2>5. QED BY <2>2, <2>3, <2>4 DEF PipeSaw
<1>3. QED BY <1>1, <1>2 DEF PipeTrue

LEMMA AnswerStill ==
    ASSUME Remembered, NEW a, AnswerTrue(a)
    PROVE  AnswerTrue(a)'
BY TellsStill DEF AnswerTrue

LEMMA RoomStill ==
    ASSUME Remembered, NEW r, RoomTrue(r)
    PROVE  RoomTrue(r)'
BY WasStill DEF RoomTrue

LEMMA ClientStill ==
    ASSUME Remembered, NEW c, ClientTrue(c), UNCHANGED clientVars
    PROVE  ClientTrue(c)'
<1>1. /\ receiving' = receiving /\ recv_buffer_' = recv_buffer_ /\ queue' = queue
      /\ listed' = listed
  BY DEF clientVars
<1>2. PICK T : queue[c] \in Seq(T) /\ \A r \in T : RoomTrue(r)
  BY DEF ClientTrue, RoomsTrue
<1>3. RoomsTrue(queue[c])'
  <2>1. \A r \in T : RoomTrue(r)'
    BY <1>2, RoomStill
  <2>2. queue'[c] \in Seq(T)
    BY <1>1, <1>2
  <2>3. QED BY <2>1, <2>2 DEF RoomsTrue
<1>4. \A i \in DOMAIN listed[c] : listed[c][i].id = i /\ RoomTrue(listed[c][i])'
  <2>1. ASSUME NEW i \in DOMAIN listed[c] PROVE listed[c][i].id = i /\ RoomTrue(listed[c][i])'
    <3>1. PICK r : r = listed[c][i]
      OBVIOUS
    <3>2. RoomTrue(r)' /\ r.id = i
      BY <3>1, RoomStill DEF ClientTrue
    <3>3. listed'[c][i] = r
      BY <1>1, <3>1
    <3>4. QED BY <3>1, <3>2, <3>3 DEF RoomTrue
  <2>2. QED BY <2>1
<1>5. QED BY <1>1, <1>3, <1>4 DEF ClientTrue

LEMMA SameHistory ==
    ASSUME history' = history, HistoryTyped
    PROVE  HistoryTyped' /\ Remembered /\ (Overfull' <=> Overfull)
BY DEF HistoryTyped, Remembered, Overfull

LEMMA LongerHistory ==
    ASSUME HistoryTyped, NEW x \in RoomsOnce, history' = Append(history, x)
    PROVE  HistoryTyped' /\ Remembered /\ (Overfull => Overfull')
<1>1. history' \in Seq(RoomsOnce) /\ Len(history') = Len(history) + 1 /\ Len(history) \in Nat
  BY DEF HistoryTyped
<1>2. \A k \in 1..Len(history) : k \in 1..Len(history') /\ history'[k] = history[k]
  BY <1>1
<1>3. DOMAIN history = 1..Len(history) /\ DOMAIN history' = 1..Len(history')
  BY <1>1 DEF HistoryTyped
<1>4. Overfull => Overfull'
  BY <1>2, <1>3 DEF Overfull
<1>5. HistoryTyped'
  BY <1>1 DEF HistoryTyped
<1>6. QED BY <1>2, <1>4, <1>5 DEF Remembered

(* The clients stay as they are, and what is new under way is true. *)
LEMMA TruthfulStill ==
    ASSUME Truthful, Remembered, UNCHANGED clientVars,
           \A p \in pipes' : p \in pipes \/ PipeTrue(p),
           \A a \in answers' : a \in answers \/ AnswerTrue(a)
    PROVE  Truthful'
<1>1. ASSUME NEW p \in pipes' PROVE PipeTrue(p)'
  <2>1. PipeTrue(p)
    BY DEF Truthful
  <2>2. QED BY <2>1, PipeStill
<1>2. ASSUME NEW a \in answers' PROVE AnswerTrue(a)'
  <2>1. AnswerTrue(a)
    BY DEF Truthful
  <2>2. QED BY <2>1, AnswerStill
<1>3. ASSUME NEW c \in Clients PROVE ClientTrue(c)'
  BY ClientStill DEF Truthful
<1>4. ClientVariables'
  BY DEF Truthful, ClientVariables, clientVars
<1>5. QED BY <1>1, <1>2, <1>3, <1>4 DEF Truthful

-----------------------------------------------------------------------------
(* The steps of the server *)

LEMMA RoomChangesKeeps ==
    ASSUME SearchInv, NEW i \in RoomIds, NEW r \in RoomStates, RoomChanges(i, r)
    PROVE  SearchInv'
<1> DEFINE now == [rooms EXCEPT ![i] = r]
<1>1. /\ history' = Append(history, now)
      /\ UNCHANGED <<requests, asked, buffer, pipes, answers, clientVars>>
  BY DEF RoomChanges
<1>2. r \in [playing : BOOLEAN, black : Names8, white : Names8, users : Nat]
  <2>1. \A p \in PlayerNames \cup {NoPlayer} : p \in Names8
    <3>1. ASSUME NEW p \in PlayerNames PROVE p \in Names8
      <4>1. p \in Seq(Octet) /\ Len(p) < Radix
        BY SearchAssumption DEF Octet
      <4>2. QED BY <4>1 DEF Names8
    <3>2. << >> \in Seq(Octet) /\ Len(<< >>) = 0 /\ 0 < Radix
      BY RadixAssumption
    <3>3. QED BY <3>1, <3>2 DEF NoPlayer, Names8
  <2>2. UserCounts \subseteq Nat
    BY SearchAssumption
  <2>3. r \in [playing : BOOLEAN, black : PlayerNames \cup {NoPlayer},
               white : PlayerNames \cup {NoPlayer}, users : UserCounts]
    BY DEF RoomStates
  <2>4. QED BY <2>1, <2>2, <2>3
<1>3. now \in RoomsOnce
  <2>1. rooms \in RoomsOnce
    BY RoomsNow DEF SearchInv
  <2> HIDE DEF rooms
  <2>2. QED BY <1>2, <2>1 DEF RoomsOnce
<1> HIDE DEF now
<1>4. HistoryTyped' /\ Remembered /\ (Overfull => Overfull')
  BY <1>1, <1>3, LongerHistory DEF SearchInv
<1>5. ~ Overfull' => Truthful'
  BY <1>1, <1>4, TruthfulStill DEF SearchInv
<1>6. RequestsTyped'
  BY <1>1 DEF SearchInv, RequestsTyped
<1>7. QED BY <1>4, <1>5, <1>6 DEF SearchInv

(* A step that leaves the rooms, the requests and the clients as they are. *)
LEMMA PipesKeep ==
    ASSUME SearchInv, UNCHANGED <<history, clientVars>>, RequestsTyped',
           ~ Overfull /\ Truthful =>
               /\ \A p \in pipes' : p \in pipes \/ PipeTrue(p)
               /\ \A a \in answers' : a \in answers \/ AnswerTrue(a)
    PROVE  SearchInv'
<1>1. HistoryTyped' /\ Remembered /\ (Overfull' <=> Overfull)
  BY SameHistory DEF SearchInv
<1>2. ~ Overfull' => Truthful'
  BY <1>1, TruthfulStill DEF SearchInv
<1>3. QED BY <1>1, <1>2 DEF SearchInv

LEMMA ReceiveKeeps ==
    ASSUME SearchInv, NEW q \in requests, Receive(q)
    PROVE  SearchInv'
<1> DEFINE p == [from |-> q.from, id |-> q.id, step |-> "version", room |-> 1,
                 seats |-> << >>, raw |-> << >>]
<1>1. /\ requests' = requests \ {q} /\ pipes' = pipes \cup {p}
      /\ UNCHANGED <<history, asked, answers, clientVars>>
  BY DEF Receive
<1>2. RequestsTyped' /\ q \in [from : Clients, id : Nat]
  BY <1>1 DEF SearchInv, RequestsTyped
<1>3. PipeTrue(p)
  <2>1. << >> \in SeatLists /\ << >> \in Seq(Octet) /\ 1 \in Nat
    BY DEF SeatLists
  <2>2. p \in PipeRecords
    BY <1>2, <2>1 DEF PipeRecords
  <2>3. 1 \in 1..Len(RoomNames) + 1
    BY SearchAssumption
  <2>4. PipeSaw(p)
    BY DEF PipeSaw
  <2>5. QED BY <2>2, <2>3, <2>4 DEF PipeTrue
<1> HIDE DEF p
<1>4. QED BY <1>1, <1>2, <1>3, PipesKeep

(* A pipe goes on to a true one. *)
LEMMA GoOnKeeps ==
    ASSUME SearchInv, UNCHANGED <<history, requests, asked, answers, clientVars>>,
           NEW p \in pipes, NEW q, GoOn(p, q),
           ~ Overfull /\ HistoryTyped /\ PipeTrue(p) => PipeTrue(q)
    PROVE  SearchInv'
<1>1. RequestsTyped'
  BY DEF SearchInv, RequestsTyped
<1>2. ~ Overfull /\ Truthful => PipeTrue(q)
  BY DEF SearchInv, Truthful
<1>3. \A x \in pipes' : x \in pipes \/ x = q
  BY DEF GoOn
<1>4. QED BY <1>1, <1>2, <1>3, PipesKeep

LEMMA ReadVersionKeeps ==
    ASSUME SearchInv, NEW p \in pipes, ReadVersion(p)
    PROVE  SearchInv'
<1> DEFINE q == [p EXCEPT !.step = "black", !.raw = HeadBytes]
<1>1. UNCHANGED <<history, requests, asked, answers, clientVars>> /\ p.step = "version"
  BY DEF ReadVersion
<1>2. CASE buffer \in Outdated
  <2>1. pipes' = pipes \ {p}
    BY <1>2 DEF ReadVersion
  <2>2. RequestsTyped'
    BY <1>1 DEF SearchInv, RequestsTyped
  <2>3. QED BY <1>1, <2>1, <2>2, PipesKeep
<1>3. CASE buffer \notin Outdated
  <2>1. GoOn(p, q)
    BY <1>3 DEF ReadVersion, HeadBytes, HeadFields, HeadValues
  <2>2. ASSUME PipeTrue(p) PROVE PipeTrue(q)
    <3>1. p \in PipeRecords /\ p.room = 1 /\ PipeSaw(p) /\ p.room \in 1..Len(RoomNames) + 1
      BY <1>1, <2>2 DEF PipeTrue
    <3>2. /\ q \in PipeRecords /\ q.step = "black" /\ q.room = 1 /\ q.seats = p.seats
          /\ q.raw = HeadBytes
      BY <3>1, HeadIsBytes DEF PipeRecords
    <3>3. PipeTells(q)
      <4>1. 6 * (1 - 1) + 0 = 0
        OBVIOUS
      <4>2. Tells(HeadBytes, 6 * (1 - 1) + 0)
        BY <4>1, NothingTold
      <4>3. QED BY <3>2, <4>2 DEF PipeTells
    <3>4. PipeSaw(q)
      BY <1>1, <3>1, <3>2 DEF PipeSaw
    <3> HIDE DEF q
    <3>5. QED BY <3>1, <3>2, <3>3, <3>4 DEF PipeTrue
  <2> HIDE DEF q
  <2>3. QED BY <1>1, <2>1, <2>2, GoOnKeeps
<1>4. QED BY <1>2, <1>3

LEMMA ReadBlackKeeps ==
    ASSUME SearchInv, NEW p \in pipes, ReadSeat(p, "black", "white")
    PROVE  SearchInv'
<1> DEFINE b == rooms[p.room]["black"]
           q == [p EXCEPT !.step = "white", !.seats = Append(@, b)]
<1>1. /\ UNCHANGED <<history, requests, asked, answers, clientVars>>
      /\ p.step = "black" /\ p.room \in RoomIds /\ GoOn(p, q)
  BY DEF ReadSeat
<1>2. ASSUME HistoryTyped, PipeTrue(p) PROVE PipeTrue(q)
  <2>1. p \in PipeRecords /\ p.seats = << >> /\ PipeTells(p) /\ p.room \in 1..Len(RoomNames) + 1
    BY <1>1, <1>2 DEF PipeTrue, PipeSaw
  <2>2. rooms \in RoomsOnce /\ Was(p.room, 3, b)
    BY <1>1, <1>2, RoomsNow, RoomWas
  <2>3. b \in Seq(Octet)
    BY <1>1, <2>2 DEF RoomsOnce, Names8
  <2> HIDE DEF b
  <2>4. Append(p.seats, b) = <<b>> /\ <<b>> \in SeatLists
    BY <2>1, <2>3 DEF SeatLists
  <2>5. /\ q \in PipeRecords /\ q.step = "white" /\ q.room = p.room /\ q.raw = p.raw
        /\ q.seats = <<b>>
    BY <2>1, <2>4 DEF PipeRecords
  <2>6. PipeTells(q)
    BY <1>1, <2>1, <2>5 DEF PipeTells
  <2>7. PipeSaw(q)
    BY <2>2, <2>5 DEF PipeSaw
  <2> HIDE DEF q
  <2>8. QED BY <1>1, <2>1, <2>5, <2>6, <2>7 DEF PipeTrue
<1> HIDE DEF q
<1>3. QED BY <1>1, <1>2, GoOnKeeps

LEMMA ReadWhiteKeeps ==
    ASSUME SearchInv, NEW p \in pipes, ReadSeat(p, "white", "playing")
    PROVE  SearchInv'
<1> DEFINE w == rooms[p.room]["white"]
           q == [p EXCEPT !.step = "playing", !.seats = Append(@, w)]
<1>1. /\ UNCHANGED <<history, requests, asked, answers, clientVars>>
      /\ p.step = "white" /\ p.room \in RoomIds /\ GoOn(p, q)
  BY DEF ReadSeat
<1>2. ASSUME HistoryTyped, PipeTrue(p) PROVE PipeTrue(q)
  <2>1. p \in PipeRecords /\ PipeTells(p) /\ p.room \in 1..Len(RoomNames) + 1
    BY <1>1, <1>2 DEF PipeTrue
  <2>2. PICK b : p.seats = <<b>> /\ Was(p.room, 3, b)
    BY <1>1, <1>2 DEF PipeTrue, PipeSaw
  <2>3. rooms \in RoomsOnce /\ Was(p.room, 4, w)
    BY <1>1, <1>2, RoomsNow, RoomWas
  <2>4. w \in Seq(Octet)
    BY <1>1, <2>3 DEF RoomsOnce, Names8
  <2> HIDE DEF w
  <2>5. p.seats \in SeatLists
    BY <2>1 DEF PipeRecords
  <2>6. Append(p.seats, w) = <<b, w>> /\ <<b, w>> \in SeatLists
    <3>1. Append(p.seats, w) \in SeatLists
      BY <2>4, <2>5 DEF SeatLists
    <3>2. Append(<<b>>, w) = <<b, w>>
      <4> DEFINE T == {b, w}
      <4>1. <<b>> \in Seq(T) /\ w \in T /\ Len(<<b>>) = 1 /\ <<b>>[1] = b
        OBVIOUS
      <4>2. <<b, w>> \in Seq(T) /\ Len(<<b, w>>) = 2 /\ <<b, w>>[1] = b /\ <<b, w>>[2] = w
        OBVIOUS
      <4> HIDE DEF T
      <4>3. /\ Append(<<b>>, w) \in Seq(T) /\ Len(Append(<<b>>, w)) = 2
            /\ Append(<<b>>, w)[1] = b /\ Append(<<b>>, w)[2] = w
        BY <4>1
      <4>4. \A j \in 1..2 : j = 1 \/ j = 2
        OBVIOUS
      <4>5. \A j \in 1..2 : Append(<<b>>, w)[j] = <<b, w>>[j]
        BY <4>2, <4>3, <4>4
      <4>6. QED BY <4>2, <4>3, <4>5, SeqEqual
    <3>3. QED BY <2>2, <3>1, <3>2
  <2>7. /\ q \in PipeRecords /\ q.step = "playing" /\ q.room = p.room /\ q.raw = p.raw
        /\ q.seats = <<b, w>>
    BY <2>1, <2>6 DEF PipeRecords
  <2>8. PipeTells(q)
    BY <1>1, <2>1, <2>7 DEF PipeTells
  <2>9. PipeSaw(q)
    BY <2>2, <2>3, <2>7 DEF PipeSaw
  <2> HIDE DEF q
  <2>10. QED BY <1>1, <2>1, <2>7, <2>8, <2>9 DEF PipeTrue
<1> HIDE DEF q
<1>3. QED BY <1>1, <1>2, GoOnKeeps

LEMMA ReadPlayingKeeps ==
    ASSUME SearchInv, NEW p \in pipes, ReadPlaying(p)
    PROVE  SearchInv'
<1> DEFINE new  == <<RoomNames[p.room], rooms[p.room].playing, p.seats[1], p.seats[2]>>
           more == Encoded("Serializer", <<Head8, Bool, Head8, Head8>>, new)
           q    == [p EXCEPT !.step = "users", !.raw = @ \o more]
           k    == 6 * (p.room - 1)
<1>1. /\ UNCHANGED <<history, requests, asked, answers, clientVars>>
      /\ p.step = "playing" /\ GoOn(p, q)
  BY DEF ReadPlaying
<1>2. ASSUME ~ Overfull, HistoryTyped, PipeTrue(p) PROVE PipeTrue(q)
  <2>1. p \in PipeRecords /\ PipeTells(p) /\ p.room \in 1..Len(RoomNames) + 1 /\ p.room \in RoomIds
    BY <1>1, <1>2 DEF PipeTrue
  <2>2. p.room \in Nat \ {0} /\ k \in Nat
    BY <2>1, SearchAssumption
  <2>3. PICK b, w : p.seats = <<b, w>> /\ Was(p.room, 3, b) /\ Was(p.room, 4, w)
    BY <1>1, <1>2 DEF PipeTrue, PipeSaw
  <2>4. Was(p.room, 1, RoomNames[p.room]) /\ Was(p.room, 2, rooms[p.room].playing)
    BY <1>2, <2>1, RoomWas
  <2>5. /\ DOMAIN new = 1..4
        /\ Was(p.room, 1, new[1]) /\ Was(p.room, 2, new[2]) /\ Was(p.room, 3, new[3])
        /\ Was(p.room, 4, new[4])
    BY <2>3, <2>4
  <2> HIDE DEF new
  <2>6. HasBeen(k + 1, new[1]) /\ HasBeen(k + 2, new[2]) /\ HasBeen(k + 3, new[3])
        /\ HasBeen(k + 4, new[4])
    <3>1. 1 \in 1..6 /\ 2 \in 1..6 /\ 3 \in 1..6 /\ 4 \in 1..6
      OBVIOUS
    <3>2. QED BY <1>2, <2>1, <2>5, <3>1, HasBeenIf
  <2>7. \A j \in 1..4 : HasBeen(k + j, new[j])
    <3>1. \A j \in 1..4 : j = 1 \/ j = 2 \/ j = 3 \/ j = 4
      OBVIOUS
    <3> HIDE DEF k
    <3>2. QED BY <2>6, <3>1
  <2>8. Tells(p.raw, k)
    <3>1. k + 0 = k
      BY <2>2
    <3>2. Tells(p.raw, k + 0)
      BY <1>1, <2>1 DEF PipeTells
    <3>3. QED BY <3>1, <3>2
  <2>9. Tells(p.raw \o more, k + 4)
    <3>1. PICK i : i = p.room
      OBVIOUS
    <3>2. i \in Nat \ {0} /\ k = 6 * (i - 1)
      BY <2>2, <3>1
    <3> HIDE DEF k
    <3>3. QED BY <2>2, <2>5, <2>7, <2>8, <3>2, FourFieldsMore
  <2>10. p.raw \o more \in Seq(Octet)
    BY <2>9, ToldInBytes
  <2> HIDE DEF more
  <2>11. /\ q \in PipeRecords /\ q.step = "users" /\ q.room = p.room /\ q.raw = p.raw \o more
    BY <2>1, <2>10 DEF PipeRecords
  <2> HIDE DEF q
  <2>12. PipeTells(q)
    BY <2>9, <2>11 DEF PipeTells
  <2>13. PipeSaw(q)
    BY <2>11 DEF PipeSaw
  <2>14. QED BY <2>1, <2>11, <2>12, <2>13 DEF PipeTrue
<1> HIDE DEF q
<1>3. QED BY <1>1, <1>2, GoOnKeeps

LEMMA ReadUsersKeeps ==
    ASSUME SearchInv, NEW p \in pipes, ReadUsers(p)
    PROVE  SearchInv'
<1> DEFINE users == rooms[p.room].users
           all == (p.raw \o Uint8_Int(users)) \o Uint8_Int(MaxUsers)
           q == [p EXCEPT !.step = "black", !.room = @ + 1, !.seats = << >>, !.raw = all]
           k == 6 * (p.room - 1) + 4
<1>1. /\ UNCHANGED <<history, requests, asked, answers, clientVars>>
      /\ p.step = "users"
  BY DEF ReadUsers
<1>2. ASSUME ~ Overfull, HistoryTyped, PipeTrue(p) PROVE GoOn(p, q) /\ PipeTrue(q)
  <2>1. p \in PipeRecords /\ PipeTells(p) /\ p.room \in RoomIds
    BY <1>1, <1>2 DEF PipeTrue
  <2>2. p.room \in Nat \ {0} /\ p.room \in 1..Len(RoomNames) /\ Len(RoomNames) \in Nat /\ k \in Nat
    <3>1. Len(RoomNames) \in Nat /\ RoomIds = 1..Len(RoomNames)
      BY SearchAssumption DEF RoomIds
    <3>2. p.room \in Nat \ {0} /\ p.room \in 1..Len(RoomNames)
      BY <2>1, <3>1
    <3>3. QED BY <3>1, <3>2
  <2>3. Was(p.room, 5, users) /\ Was(p.room, 6, MaxUsers) /\ 5 \in 1..6 /\ 6 \in 1..6
    BY <1>2, <2>1, RoomWas
  <2>4. HasBeen(6 * (p.room - 1) + 5, users) /\ HasBeen(6 * (p.room - 1) + 6, MaxUsers)
    BY <1>2, <2>1, <2>3, HasBeenIf
  <2>5. Sound(5, users) /\ Sound(6, MaxUsers)
    BY <1>2, <2>1, <2>3, WasSound
  <2>6. /\ Uint8_Int(users) = Written("Serializer", U8, users)
        /\ Uint8_Int(MaxUsers) = Written("Serializer", U8, MaxUsers)
    BY <2>5, UsersAsWritten DEF Sound
  <2> HIDE DEF users
  <2>7. FieldOf(k + 1) = U8 /\ FieldOf((k + 1) + 1) = U8
    <3>1. k + 1 = 6 * (p.room - 1) + 5 /\ (k + 1) + 1 = 6 * (p.room - 1) + 6
      BY <2>2
    <3>2. FieldOf(6 * (p.room - 1) + 5) = ConciseRoom[5]
          /\ FieldOf(6 * (p.room - 1) + 6) = ConciseRoom[6]
      BY <2>2, <2>3, SixFields
    <3>3. ConciseRoom[5] = U8 /\ ConciseRoom[6] = U8
      BY DEF ConciseRoom
    <3>4. QED BY <3>1, <3>2, <3>3
  <2>8. HasBeen(k + 1, users) /\ HasBeen((k + 1) + 1, MaxUsers)
    <3>1. k + 1 = 6 * (p.room - 1) + 5 /\ (k + 1) + 1 = 6 * (p.room - 1) + 6
      BY <2>2
    <3>2. QED BY <2>4, <3>1
  <2>9. Tells(p.raw, k)
    BY <1>1, <2>1 DEF PipeTells
  <2> DEFINE room == p.room
             more == p.raw \o Uint8_Int(users)
  <2>10. (k + 1) + 1 = 6 * ((room + 1) - 1) + 0 /\ k + 1 \in Nat /\ room + 1 \in Nat
         /\ room + 1 \in 1..Len(RoomNames) + 1
    BY <2>2
  <2> HIDE DEF k
  <2>11. Tells(more, k + 1)
    BY <2>2, <2>6, <2>7, <2>8, <2>9, OneFieldMore
  <2>12. more \in Seq(Octet)
    BY <2>11, ToldInBytes
  <2> HIDE DEF more
  <2>13. Tells(more \o Uint8_Int(MaxUsers), (k + 1) + 1)
    BY <2>6, <2>7, <2>8, <2>10, <2>11, OneFieldMore
  <2>14. all \in Seq(Octet) /\ Tells(all, (k + 1) + 1)
    BY <2>13, ToldInBytes DEF more
  <2> HIDE DEF all
  <2>15. << >> \in SeatLists
    BY DEF SeatLists
  <2>16. /\ q \in PipeRecords /\ q.step = "black" /\ q.room = room + 1 /\ q.raw = all
         /\ q.seats = << >>
    BY <2>1, <2>10, <2>14, <2>15 DEF PipeRecords
  <2>17. GoOn(p, q)
    BY DEF ReadUsers, all, users
  <2> HIDE DEF q
  <2>18. Tells(all, 6 * ((room + 1) - 1) + 0)
    BY <2>10, <2>14
  <2> HIDE DEF room
  <2>19. PipeTells(q)
    BY <2>16, <2>18 DEF PipeTells
  <2>20. PipeSaw(q)
    BY <2>16 DEF PipeSaw
  <2>21. PipeTrue(q)
    BY <2>10, <2>16, <2>19, <2>20 DEF PipeTrue
  <2>22. QED BY <2>17, <2>21
<1> HIDE DEF q
<1>3. ~ Overfull /\ Truthful => \A x \in pipes' : x \in pipes \/ PipeTrue(x)
  <2> SUFFICES ASSUME ~ Overfull, Truthful PROVE \A x \in pipes' : x \in pipes \/ PipeTrue(x)
    OBVIOUS
  <2>1. PipeTrue(p) /\ HistoryTyped
    BY DEF Truthful, SearchInv
  <2>2. GoOn(p, q) /\ PipeTrue(q)
    BY <1>2, <2>1
  <2>3. QED BY <2>2 DEF GoOn
<1>4. RequestsTyped'
  BY <1>1 DEF SearchInv, RequestsTyped
<1>5. QED BY <1>1, <1>3, <1>4, PipesKeep

LEMMA AnswerKeeps ==
    ASSUME SearchInv, NEW p \in pipes, Answer(p)
    PROVE  SearchInv'
<1> DEFINE a == [to |-> p.from, raw |-> p.raw]
<1>1. /\ UNCHANGED <<history, requests, asked, clientVars>> /\ p.step = "black"
      /\ p.room \notin RoomIds /\ answers' = answers \cup {a} /\ pipes' = pipes \ {p}
  BY DEF Answer
<1>2. ASSUME PipeTrue(p) PROVE AnswerTrue(a)
  <2>1. p \in PipeRecords /\ PipeTells(p) /\ p.room \in 1..Len(RoomNames) + 1
    BY <1>1, <1>2 DEF PipeTrue
  <2>2. Len(RoomNames) \in Nat /\ RoomIds = 1..Len(RoomNames)
    BY SearchAssumption DEF RoomIds
  <2>3. p.room = Len(RoomNames) + 1
    BY <1>1, <2>1, <2>2
  <2>4. 6 * (p.room - 1) + 0 = 6 * Len(RoomNames)
    BY <2>2, <2>3
  <2>5. Tells(p.raw, 6 * (p.room - 1) + 0)
    BY <1>1, <2>1 DEF PipeTells
  <2>6. Tells(p.raw, 6 * Len(RoomNames))
    BY <2>4, <2>5
  <2>7. p.from \in Clients /\ p.raw \in Seq(Octet)
    BY <2>1 DEF PipeRecords
  <2>8. QED BY <2>6, <2>7 DEF AnswerTrue
<1> HIDE DEF a
<1>3. ~ Overfull /\ Truthful => AnswerTrue(a)
  BY <1>2 DEF Truthful
<1>4. RequestsTyped'
  BY <1>1 DEF SearchInv, RequestsTyped
<1>5. QED BY <1>1, <1>3, <1>4, PipesKeep

LEMMA UdpPipeKeeps ==
    ASSUME SearchInv, NEW p \in pipes, UdpPipe(p)
    PROVE  SearchInv'
<1>1. CASE ReadVersion(p)
  BY <1>1, ReadVersionKeeps
<1>2. CASE ReadSeat(p, "black", "white")
  BY <1>2, ReadBlackKeeps
<1>3. CASE ReadSeat(p, "white", "playing")
  BY <1>3, ReadWhiteKeeps
<1>4. CASE ReadPlaying(p)
  BY <1>4, ReadPlayingKeeps
<1>5. CASE ReadUsers(p)
  BY <1>5, ReadUsersKeeps
<1>6. CASE Answer(p)
  BY <1>6, AnswerKeeps
<1>7. QED BY <1>1, <1>2, <1>3, <1>4, <1>5, <1>6 DEF UdpPipe

-----------------------------------------------------------------------------
(* The steps of the clients and of the network *)

LEMMA SearchKeeps ==
    ASSUME SearchInv, NEW c \in Clients, Search(c)
    PROVE  SearchInv'
<1>1. /\ requests' = requests \cup {[from |-> c, id |-> asked + 1]} /\ asked' = asked + 1
      /\ UNCHANGED <<history, buffer, pipes, answers, clientVars>>
  BY DEF Search
<1>2. RequestsTyped'
  BY <1>1 DEF SearchInv, RequestsTyped
<1>3. QED BY <1>1, <1>2, PipesKeep

LEMMA NetworkKeeps ==
    ASSUME SearchInv, Network, UNCHANGED <<history, buffer, pipes, clientVars>>
    PROVE  SearchInv'
<1>1. RequestsTyped' /\ answers' \subseteq answers
  <2>1. CASE Lose
    BY <2>1 DEF Lose, SearchInv, RequestsTyped
  <2>2. ASSUME NEW q \in requests, Double(q) PROVE RequestsTyped' /\ answers' \subseteq answers
    <3>1. q \in [from : Clients, id : Nat] /\ asked + 1 \in Nat
      BY DEF SearchInv, RequestsTyped
    <3>2. [q EXCEPT !.id = asked + 1] \in [from : Clients, id : Nat]
      BY <3>1
    <3>3. QED BY <2>2, <3>1, <3>2 DEF Double, SearchInv, RequestsTyped
  <2>3. QED BY <2>1, <2>2 DEF Network
<1>2. QED BY <1>1, PipesKeep

LEMMA UpdateRoomsKeeps ==
    ASSUME SearchInv, NEW c \in Clients, UpdateRooms(c)
    PROVE  SearchInv'
<1> DEFINE r == Head(queue[c])
           list == [i \in DOMAIN listed[c] \cup {r.id} |->
                       IF i \in DOMAIN listed[c] THEN listed[c][i] ELSE r]
<1>1. /\ UNCHANGED <<serverVars, answers, recv_buffer_, receiving>> /\ queue[c] # << >>
      /\ queue' = [queue EXCEPT ![c] = Tail(@)] /\ listed' = [listed EXCEPT ![c] = list]
  BY DEF UpdateRooms
<1>2. /\ history' = history /\ RequestsTyped' /\ pipes' = pipes /\ answers' = answers
      /\ recv_buffer_' = recv_buffer_ /\ receiving' = receiving
  BY <1>1 DEF serverVars, SearchInv, RequestsTyped
<1>3. HistoryTyped' /\ Remembered /\ (Overfull' <=> Overfull)
  BY <1>2, SameHistory DEF SearchInv
<1>4. ASSUME Truthful PROVE Truthful'
  <2>1. ClientVariables /\ \A d \in Clients : ClientTrue(d)
    BY <1>4 DEF Truthful
  <2>2. PICK T : queue[c] \in Seq(T) /\ \A x \in T : RoomTrue(x)
    BY <2>1 DEF ClientTrue, RoomsTrue
  <2>3. r \in T /\ RoomTrue(r) /\ Tail(queue[c]) \in Seq(T)
    BY <1>1, <2>2
  <2> HIDE DEF r
  <2>4. \A i \in DOMAIN list : list[i].id = i /\ RoomTrue(list[i])
    BY <2>1, <2>3 DEF ClientTrue
  <2> HIDE DEF list
  <2>5. /\ DOMAIN queue = Clients /\ DOMAIN listed = Clients
    BY <2>1 DEF ClientVariables
  <2>6. /\ queue' = [d \in Clients |-> queue'[d]] /\ listed' = [d \in Clients |-> listed'[d]]
        /\ queue'[c] = Tail(queue[c]) /\ listed'[c] = list
        /\ \A d \in Clients \ {c} : queue'[d] = queue[d] /\ listed'[d] = listed[d]
    BY <1>1, <2>5
  <2>7. ClientVariables'
    BY <1>2, <2>1, <2>6 DEF ClientVariables
  <2>8. ASSUME NEW x PROVE RoomTrue(x)' <=> RoomTrue(x)
    BY <1>2 DEF RoomTrue, Was
  <2>9. RoomsTrue(queue[c])'
    BY <2>2, <2>3, <2>6, <2>8 DEF RoomsTrue
  <2>10. ClientTrue(c)'
    BY <1>2, <2>1, <2>4, <2>6, <2>8, <2>9 DEF ClientTrue
  <2>11. ASSUME NEW d \in Clients \ {c} PROVE ClientTrue(d)'
    <3>1. RoomsTrue(queue[d])'
      BY <2>1, <2>6, <2>8 DEF ClientTrue, RoomsTrue
    <3>2. QED BY <1>2, <2>1, <2>6, <2>8, <3>1 DEF ClientTrue
  <2>12. \A d \in Clients : ClientTrue(d)'
    BY <2>10, <2>11
  <2>13. \A p \in pipes' : PipeTrue(p)'
    BY <1>2, <1>3, <1>4, PipeStill DEF Truthful
  <2>14. \A a \in answers' : AnswerTrue(a)'
    BY <1>2, <1>3, <1>4, AnswerStill DEF Truthful
  <2>15. QED BY <2>7, <2>12, <2>13, <2>14 DEF Truthful
<1>5. QED BY <1>2, <1>3, <1>4 DEF SearchInv

(* The fields of n rooms, and what was told of each. *)
LEMMA RoomsFields ==
    ASSUME NEW n \in Nat
    PROVE  /\ 6 * n \in Nat /\ Len(ConciseRooms(n)) = 6 * n /\ DOMAIN ConciseRooms(n) = 1..6 * n
           /\ \A j \in 1..6 * n : ConciseRooms(n)[j] = FieldOf(j)
<1>1. 6 * n \in Nat
  OBVIOUS
<1>2. DOMAIN ConciseRooms(n) = 1..6 * n /\ \A j \in 1..6 * n : ConciseRooms(n)[j] = FieldOf(j)
  BY DEF ConciseRooms, FieldOf
<1> DEFINE T == {FieldOf(j) : j \in 1..6 * n}
<1>3. ConciseRooms(n) \in [1..6 * n -> T]
  BY DEF ConciseRooms, FieldOf
<1> HIDE DEF T
<1>4. QED BY <1>1, <1>2, <1>3

(* All of an answer is read, and every value is the one that was written. *)
LEMMA AnswerFields ==
    ASSUME NEW s \in Seq(Octet), NEW answer, Stands(s, 0, answer), Tells(answer, 6 * Len(RoomNames))
    PROVE  \E vals, at :
              /\ RoomsBehind(s, ReadFields("client", s, 0, HeadFields)) =
                    [end |-> "ok", val |-> [j \in 1..6 * Len(RoomNames) |-> vals[j]], at |-> at]
              /\ \A j \in 1..6 * Len(RoomNames) : HasBeen(j, vals[j])
<1> DEFINE n == Len(RoomNames)
           k == 6 * n
           fs == ConciseRooms(n)
<1>1. PICK vals : (\A j \in 1..k : HasBeen(j, vals[j])) /\ Holding(answer, k, vals)
  BY DEF Tells
<1>2. PICK e, body : answer = HeadBytes \o body /\ Joined(e, body, RoomParts(k, vals), k)
  BY <1>1 DEF Holding
<1>3. n \in Nat /\ k \in Nat /\ body \in Seq(Octet) /\ HeadBytes \in Seq(Octet) /\ Len(HeadBytes) \in Nat
  BY <1>2, HeadIsBytes, HeadLegible DEF Joined
<1>4. Stands(s, 0, HeadBytes) /\ Stands(s, 0 + Len(HeadBytes), body)
  <2>1. 0 \in Nat /\ Stands(s, 0, HeadBytes \o body)
    BY <1>2
  <2>2. QED BY <1>3, <2>1, StandsParts
<1>5. 0 + Len(HeadBytes) = Len(HeadBytes)
  BY <1>3
<1>6. ReadFields("client", s, 0, HeadFields) =
          [end |-> "ok", val |-> Gist(HeadFields, HeadValues, 3), at |-> Len(HeadBytes)]
  BY <1>4, HeadIsBytes
<1>7. RoomsBehind(s, ReadFields("client", s, 0, HeadFields)) =
          ReadFields("client", s, Len(HeadBytes), fs)
  <2>1. Gist(HeadFields, HeadValues, 3)[3] = n
    BY HeadLegible
  <2>2. QED BY <1>6, <2>1 DEF RoomsBehind
<1>8. Len(fs) = k /\ DOMAIN fs = 1..k /\ \A j \in 1..k : fs[j] = FieldOf(j)
  BY <1>3, RoomsFields
<1>9. /\ RoomParts(k, vals) \in [1..k -> Seq(Octet)]
      /\ \A j \in 1..k : /\ RoomParts(k, vals)[j] = Written("Serializer", FieldOf(j), vals[j])
                         /\ Passes(FieldOf(j), vals[j])
  BY <1>1, <1>3, RoomPartsTypes
<1> HIDE DEF fs, k, n
<1>10. Legible("Serializer", fs, fs, vals, k)
  BY <1>3, <1>8, <1>9 DEF Legible, Passes
<1>11. \A j \in 1..k : ~ Uneven("Serializer", fs[j])
  BY DEF Uneven
<1>12. \A j \in 1..k : RoomParts(k, vals)[j] = Written("Serializer", fs[j], vals[j])
  BY <1>8, <1>9
<1>13. WrittenAt("Serializer", s, Len(HeadBytes), fs, vals, k, body)
  <2>1. \E w : \E parts \in [1..k -> Seq(Octet)] :
          /\ \A i \in 1..k : parts[i] = Written("Serializer", fs[i], vals[i])
          /\ Joined(w, body, parts, k)
    BY <1>2, <1>9, <1>12
  <2>2. Stands(s, Len(HeadBytes), body)
    BY <1>4, <1>5
  <2>3. QED BY <1>3, <1>10, <1>11, <2>1, <2>2 DEF WrittenAt
<1>14. ReadBack("client", s, Len(HeadBytes), fs, vals, k, body)
  BY <1>13, FieldsBack
<1>15. Gist(fs, vals, k) = [j \in 1..k |-> vals[j]]
  <2>1. \A j \in 1..k : Kept(fs[j], vals[j]) = vals[j]
    BY <1>8, <1>9 DEF Passes
  <2>2. QED BY <2>1 DEF Gist
<1>16. ReadFields("client", s, Len(HeadBytes), fs) =
           [end |-> "ok", val |-> [j \in 1..k |-> vals[j]], at |-> Len(HeadBytes) + Len(body)]
  BY <1>14, <1>15 DEF ReadBack
<1>17. RoomsBehind(s, ReadFields("client", s, 0, HeadFields)) =
           [end |-> "ok", val |-> [j \in 1..k |-> vals[j]], at |-> Len(HeadBytes) + Len(body)]
  BY <1>7, <1>16
<1>18. QED BY <1>1, <1>17 DEF k, n

(* What is told of a room was so. *)
LEMMA ToldTrue ==
    ASSUME NEW r, NEW vals, r.val = [j \in 1..6 * Len(RoomNames) |-> vals[j]],
           \A j \in 1..6 * Len(RoomNames) : HasBeen(j, vals[j])
    PROVE  RoomsTrue(Told(r))
<1> DEFINE n == Len(RoomNames)
           k == 6 * n
<1>1. n \in Nat /\ k \in Nat
  BY SearchAssumption
<1>2. DOMAIN r.val = 1..k /\ \A j \in 1..k : r.val[j] = vals[j]
  OBVIOUS
<1>3. r.val \in Seq({vals[j] : j \in 1..k}) /\ Len(r.val) = k
  BY <1>1
<1>4. k \div 6 = n
  BY <1>1
<1>5. Told(r) = [i \in 1..n |-> ListedRoom(i, SubSeq(r.val, 6 * i - 5, 6 * i))]
  BY <1>3, <1>4 DEF Told
<1>6. ASSUME NEW i \in 1..n
      PROVE  RoomTrue(ListedRoom(i, SubSeq(r.val, 6 * i - 5, 6 * i)))
  <2> DEFINE v == SubSeq(r.val, 6 * i - 5, 6 * i)
  <2>1. i \in Nat \ {0} /\ \A f \in 1..6 : 6 * (i - 1) + f \in 1..k
    BY <1>1
  <2>2. \A f \in 1..6 : v[f] = r.val[6 * (i - 1) + f]
    <3> DEFINE first == 6 * i - 5
               last == 6 * i
    <3>1. first \in Int /\ last \in Int /\ (last - first) + 1 = 6
      BY <2>1
    <3>2. \A j \in first..last : j \in 1..k
      BY <1>1, <2>1
    <3>3. \A f \in 1..6 : (first + f) - 1 = 6 * (i - 1) + f
      BY <2>1
    <3> HIDE DEF first, last
    <3>4. \A j \in first..last : r.val[j] \in {vals[x] : x \in 1..k}
      BY <1>2, <3>2
    <3>5. \A f \in 1..6 : SubSeq(r.val, first, last)[f] = r.val[(first + f) - 1]
      BY <3>1, <3>4, SubSeqProperties
    <3>6. QED BY <3>3, <3>5 DEF first, last
  <2> HIDE DEF v
  <2>3. ASSUME NEW f \in 1..6 PROVE i \in RoomIds /\ Was(i, f, v[f])
    <3>1. v[f] = vals[6 * (i - 1) + f] /\ HasBeen(6 * (i - 1) + f, vals[6 * (i - 1) + f])
      BY <1>2, <2>1, <2>2
    <3>2. QED BY <2>1, <3>1 DEF HasBeen
  <2>4. 1 \in 1..6 /\ 2 \in 1..6 /\ 3 \in 1..6 /\ 4 \in 1..6 /\ 5 \in 1..6 /\ 6 \in 1..6
    OBVIOUS
  <2>5. /\ i \in RoomIds /\ Was(i, 1, v[1]) /\ Was(i, 2, v[2]) /\ Was(i, 3, v[3])
        /\ Was(i, 4, v[4]) /\ Was(i, 5, v[5]) /\ Was(i, 6, v[6])
    BY <2>3, <2>4
  <2>6. /\ ListedRoom(i, v).id = i /\ ListedRoom(i, v).name = v[1]
        /\ ListedRoom(i, v).playing = v[2] /\ ListedRoom(i, v).black = v[3]
        /\ ListedRoom(i, v).white = v[4] /\ ListedRoom(i, v).users = v[5]
        /\ ListedRoom(i, v).max = v[6]
    BY DEF ListedRoom
  <2>7. RoomTrue(ListedRoom(i, v))
    BY <2>5, <2>6 DEF RoomTrue
  <2>8. QED BY <2>7 DEF v
<1> DEFINE T == {ListedRoom(i, SubSeq(r.val, 6 * i - 5, 6 * i)) : i \in 1..n}
<1>7. \A x \in T : RoomTrue(x)
  BY <1>6
<1>8. Told(r) \in [1..n -> T]
  BY <1>5
<1> HIDE DEF T
<1>9. Told(r) \in Seq(T)
  BY <1>1, <1>8
<1>10. QED BY <1>7, <1>9 DEF RoomsTrue

(* An answer in the buffer, before what was there. *)
LEMMA ReceivedInto ==
    ASSUME NEW answer \in Seq(Octet), NEW old \in Seq(Octet), Len(old) >= BufferSize, NEW s,
           s = answer \o SubSeq(old, Len(answer) + 1, BufferSize)
    PROVE  s \in Seq(Octet) /\ Len(s) >= BufferSize /\ Stands(s, 0, answer)
<1> DEFINE first == Len(answer) + 1
           rest == SubSeq(old, first, BufferSize)
<1>1. BufferSize \in Nat /\ Len(answer) \in Nat /\ first \in Int /\ BufferSize \in Int /\ Len(old) \in Nat
  BY SearchAssumption
<1>2. \A i \in first..BufferSize : old[i] \in Octet
  <2>1. \A i \in first..BufferSize : i \in 1..Len(old)
    BY <1>1
  <2>2. QED BY <2>1
<1>3. rest \in Seq(Octet) /\ Len(rest) = IF first <= BufferSize THEN BufferSize - first + 1 ELSE 0
  <2> HIDE DEF first
  <2>1. QED BY <1>1, <1>2, SubSeqProperties
<1>4. Len(rest) \in Nat /\ Len(answer) + Len(rest) >= BufferSize
  BY <1>1, <1>3
<1> HIDE DEF rest
<1>5. /\ s \in Seq(Octet) /\ Len(s) = Len(answer) + Len(rest)
      /\ \A j \in 1..Len(answer) : s[j] = answer[j]
  <2>1. s = answer \o rest
    BY DEF rest
  <2>2. /\ answer \o rest \in Seq(Octet) /\ Len(answer \o rest) = Len(answer) + Len(rest)
        /\ \A j \in 1..Len(answer) : (answer \o rest)[j] = answer[j]
    <3>1. rest \in Seq(Octet)
      BY <1>3
    <3>2. QED BY <3>1, Behind
  <2>3. QED BY <2>1, <2>2
<1>6. 0 + Len(answer) <= Len(s) /\ \A j \in 1..Len(answer) : s[0 + j] = answer[j]
  <2>1. \A j \in 1..Len(answer) : 0 + j = j
    BY <1>1
  <2>2. QED BY <1>1, <1>4, <1>5, <2>1
<1>7. QED BY <1>4, <1>5, <1>6 DEF Stands

LEMMA RoomsTrueBehind ==
    ASSUME NEW q, RoomsTrue(q), NEW t, RoomsTrue(t)
    PROVE  RoomsTrue(q \o t)
<1>1. PICK Q : q \in Seq(Q) /\ \A r \in Q : RoomTrue(r)
  BY DEF RoomsTrue
<1>2. PICK T : t \in Seq(T) /\ \A r \in T : RoomTrue(r)
  BY DEF RoomsTrue
<1> DEFINE B == Q \cup T
<1>3. \A r \in B : RoomTrue(r)
  BY <1>1, <1>2
<1>4. q \in Seq(B) /\ t \in Seq(B)
  BY <1>1, <1>2
<1> HIDE DEF B
<1>5. q \o t \in Seq(B)
  BY <1>4, Behind
<1>6. QED BY <1>3, <1>5 DEF RoomsTrue

LEMMA ReceiveAnswerKeeps ==
    ASSUME SearchInv, NEW a \in answers, ReceiveAnswer(a)
    PROVE  SearchInv'
<1>1. PICK s \in {a.raw \o SubSeq(recv_buffer_[a.to], Len(a.raw) + 1, BufferSize)} :
           \E r \in {RoomsBehind(s, ReadFields("client", s, 0, <<Head8, Head8, U8>>))} :
              /\ recv_buffer_' = [recv_buffer_ EXCEPT ![a.to] = s]
              /\ queue' = [queue EXCEPT ![a.to] = @ \o Told(r)]
              /\ receiving' = [receiving EXCEPT ![a.to] = r.end = "ok"]
              /\ answers' = answers \ {a}
              /\ UNCHANGED <<serverVars, listed>>
  BY DEF ReceiveAnswer
<1>2. PICK r : /\ r = RoomsBehind(s, ReadFields("client", s, 0, HeadFields))
               /\ recv_buffer_' = [recv_buffer_ EXCEPT ![a.to] = s]
               /\ queue' = [queue EXCEPT ![a.to] = @ \o Told(r)]
               /\ receiving' = [receiving EXCEPT ![a.to] = r.end = "ok"]
               /\ answers' = answers \ {a}
               /\ UNCHANGED <<serverVars, listed>>
  BY <1>1 DEF HeadFields
<1>3. /\ history' = history /\ RequestsTyped' /\ pipes' = pipes /\ listed' = listed
  BY <1>2 DEF serverVars, SearchInv, RequestsTyped
<1>4. HistoryTyped' /\ Remembered /\ (Overfull' <=> Overfull)
  BY <1>3, SameHistory DEF SearchInv
<1>5. ASSUME Truthful PROVE Truthful'
  <2> DEFINE c == a.to
  <2>1. ClientVariables /\ (\A d \in Clients : ClientTrue(d)) /\ AnswerTrue(a)
    BY <1>5 DEF Truthful
  <2>2. c \in Clients /\ a.raw \in Seq(Octet) /\ Tells(a.raw, 6 * Len(RoomNames))
    BY <2>1 DEF AnswerTrue
  <2>3. /\ receiving[c] /\ recv_buffer_[c] \in Seq(Octet) /\ Len(recv_buffer_[c]) >= BufferSize
        /\ RoomsTrue(queue[c])
    BY <2>1, <2>2 DEF ClientTrue
  <2>4. s \in Seq(Octet) /\ Len(s) >= BufferSize /\ Stands(s, 0, a.raw)
    BY <1>1, <2>2, <2>3, ReceivedInto
  <2>5. PICK vals, at :
           /\ r = [end |-> "ok", val |-> [j \in 1..6 * Len(RoomNames) |-> vals[j]], at |-> at]
           /\ \A j \in 1..6 * Len(RoomNames) : HasBeen(j, vals[j])
    BY <1>2, <2>2, <2>4, AnswerFields
  <2>6. r.end = "ok" /\ RoomsTrue(Told(r))
    BY <2>5, ToldTrue
  <2>7. RoomsTrue(queue[c] \o Told(r))
    BY <2>3, <2>6, RoomsTrueBehind
  <2>8. DOMAIN queue = Clients /\ DOMAIN receiving = Clients /\ DOMAIN recv_buffer_ = Clients
    BY <2>1 DEF ClientVariables
  <2>9. /\ queue' = [d \in Clients |-> queue'[d]] /\ receiving' = [d \in Clients |-> receiving'[d]]
        /\ recv_buffer_' = [d \in Clients |-> recv_buffer_'[d]]
        /\ queue'[c] = queue[c] \o Told(r) /\ recv_buffer_'[c] = s /\ receiving'[c]
        /\ \A d \in Clients \ {c} : /\ queue'[d] = queue[d] /\ receiving'[d] = receiving[d]
                                    /\ recv_buffer_'[d] = recv_buffer_[d]
    BY <1>2, <2>2, <2>6, <2>8
  <2>10. ClientVariables'
    BY <1>3, <2>1, <2>9 DEF ClientVariables
  <2>11. ASSUME NEW x PROVE RoomTrue(x)' <=> RoomTrue(x)
    BY <1>3 DEF RoomTrue, Was
  <2>12. ASSUME NEW d \in Clients, RoomsTrue(queue'[d]) PROVE RoomsTrue(queue[d])'
    BY <2>11, <2>12 DEF RoomsTrue
  <2>13. \A d \in Clients : \A i \in DOMAIN listed'[d] :
            listed'[d][i].id = i /\ RoomTrue(listed[d][i])'
    BY <1>3, <2>1, <2>11 DEF ClientTrue
  <2>14. ClientTrue(c)'
    <3>1. RoomsTrue(queue'[c])
      BY <2>7, <2>9
    <3>2. RoomsTrue(queue[c])'
      BY <2>2, <2>12, <3>1
    <3>3. BufferSize' = BufferSize
      OBVIOUS
    <3>4. QED BY <2>2, <2>4, <2>9, <2>13, <3>2 DEF ClientTrue
  <2>15. ASSUME NEW d \in Clients \ {c} PROVE ClientTrue(d)'
    <3>1. ClientTrue(d)
      BY <2>1
    <3>2. RoomsTrue(queue'[d])
      BY <2>9, <3>1 DEF ClientTrue
    <3>3. RoomsTrue(queue[d])'
      BY <2>12, <3>2
    <3>4. QED BY <2>9, <2>13, <3>1, <3>3 DEF ClientTrue
  <2>16. \A d \in Clients : ClientTrue(d)'
    BY <2>14, <2>15
  <2>17. \A p \in pipes' : PipeTrue(p)'
    BY <1>3, <1>4, <1>5, PipeStill DEF Truthful
  <2>18. \A x \in answers' : AnswerTrue(x)'
    BY <1>2, <1>4, <1>5, AnswerStill DEF Truthful
  <2>19. QED BY <2>10, <2>16, <2>17, <2>18 DEF Truthful
<1>6. QED BY <1>3, <1>4, <1>5 DEF SearchInv

-----------------------------------------------------------------------------
LEMMA SearchInvInit ==
    ASSUME SearchInit
    PROVE  SearchInv
<1> DEFINE empty == [i \in RoomIds |-> [playing |-> FALSE, black |-> NoPlayer,
                                        white |-> NoPlayer, users |-> 0]]
<1>1. history = <<empty>> /\ requests = {} /\ asked = 0 /\ pipes = {} /\ answers = {}
  BY DEF SearchInit
<1>2. /\ recv_buffer_ = [c \in Clients |-> [i \in 1..BufferSize |-> 0]]
      /\ receiving = [c \in Clients |-> TRUE] /\ queue = [c \in Clients |-> << >>]
      /\ listed = [c \in Clients |-> [i \in {} |-> 0]]
  BY DEF SearchInit
<1>3. HistoryTyped
  <2>1. NoPlayer \in Names8
    BY RadixAssumption DEF NoPlayer, Names8
  <2>2. empty \in RoomsOnce
    BY <2>1 DEF RoomsOnce
  <2> HIDE DEF empty
  <2>3. QED BY <1>1, <2>2 DEF HistoryTyped
<1>4. RequestsTyped
  BY <1>1 DEF RequestsTyped
<1>5. ClientVariables
  BY <1>2 DEF ClientVariables
<1>6. ASSUME NEW c \in Clients PROVE ClientTrue(c)
  <2>1. receiving[c] /\ queue[c] = << >> /\ DOMAIN listed[c] = {}
        /\ recv_buffer_[c] = [i \in 1..BufferSize |-> 0]
    BY <1>2
  <2>2. recv_buffer_[c] \in Seq(Octet) /\ Len(recv_buffer_[c]) = BufferSize /\ BufferSize \in Nat
    <3>1. BufferSize \in Nat /\ 0 \in Octet
      BY SearchAssumption, RadixAssumption DEF Octet
    <3>2. recv_buffer_[c] \in [1..BufferSize -> Octet]
      BY <2>1, <3>1
    <3>3. QED BY <3>1, <3>2
  <2>3. RoomsTrue(queue[c])
    <3>1. << >> \in Seq({})
      OBVIOUS
    <3>2. QED BY <2>1, <3>1 DEF RoomsTrue
  <2>4. QED BY <2>1, <2>2, <2>3 DEF ClientTrue
<1>7. Truthful
  BY <1>1, <1>5, <1>6 DEF Truthful
<1>8. QED BY <1>3, <1>4, <1>7 DEF SearchInv

LEMMA SearchInvNext ==
    ASSUME SearchInv, [SearchNext]_searchVars
    PROVE  SearchInv'
<1>1. ASSUME NEW i \in RoomIds, NEW r \in RoomStates, RoomChanges(i, r) PROVE SearchInv'
  BY <1>1, RoomChangesKeeps
<1>2. ASSUME NEW q \in requests, Receive(q) PROVE SearchInv'
  BY <1>2, ReceiveKeeps
<1>3. ASSUME NEW p \in pipes, UdpPipe(p) PROVE SearchInv'
  BY <1>3, UdpPipeKeeps
<1>4. ASSUME NEW c \in Clients, Search(c) PROVE SearchInv'
  BY <1>4, SearchKeeps
<1>5. ASSUME NEW a \in answers, ReceiveAnswer(a) PROVE SearchInv'
  BY <1>5, ReceiveAnswerKeeps
<1>6. ASSUME NEW c \in Clients, UpdateRooms(c) PROVE SearchInv'
  BY <1>6, UpdateRoomsKeeps
<1>7. CASE Network /\ UNCHANGED <<history, buffer, pipes, clientVars>>
  BY <1>7, NetworkKeeps
<1>8. CASE UNCHANGED searchVars
  <2>1. UNCHANGED <<history, requests, asked, pipes, answers, clientVars>>
    BY <1>8 DEF searchVars, serverVars
  <2>2. RequestsTyped'
    BY <2>1 DEF SearchInv, RequestsTyped
  <2>3. QED BY <2>1, <2>2, PipesKeep
<1>9. QED BY <1>1, <1>2, <1>3, <1>4, <1>5, <1>6, <1>7, <1>8 DEF SearchNext

LEMMA SearchInvShows ==
    ASSUME SearchInv
    PROVE  ListedWasTrue
<1> SUFFICES ASSUME ~ Overfull, NEW c \in Clients, NEW i \in DOMAIN listed[c]
             PROVE  /\ receiving[c]
                    /\ i \in RoomIds
                    /\ listed[c][i].name = RoomNames[i] /\ listed[c][i].max = MaxUsers
                    /\ \A field \in {"playing", "black", "white", "users"} :
                          \E k \in DOMAIN history : history[k][i][field] = listed[c][i][field]
  BY DEF ListedWasTrue
<1>1. ClientTrue(c) /\ DOMAIN history = 1..Len(history)
  BY DEF SearchInv, Truthful, HistoryTyped
<1>2. receiving[c] /\ listed[c][i].id = i /\ RoomTrue(listed[c][i])
  BY <1>1 DEF ClientTrue
<1>3. /\ i \in RoomIds /\ listed[c][i].name = RoomNames[i] /\ listed[c][i].max = MaxUsers
      /\ \E k \in DOMAIN history : history[k][i]["playing"] = listed[c][i]["playing"]
      /\ \E k \in DOMAIN history : history[k][i]["black"] = listed[c][i]["black"]
      /\ \E k \in DOMAIN history : history[k][i]["white"] = listed[c][i]["white"]
      /\ \E k \in DOMAIN history : history[k][i]["users"] = listed[c][i]["users"]
  BY <1>1, <1>2 DEF RoomTrue, Was
<1>4. QED BY <1>2, <1>3

(* What a client lists of a room was true of that room, whatever the rooms did while
   the answer was put together, and however requests and answers were lost, doubled
   or overtaken: the fields an answer promises are all there, each stands where the
   client reads it, what an earlier answer left in the buffer is never taken for a
   field, and no answer ends the receiver.                                      *)
THEOREM ListedRoomsWereTrue == SearchSpec => []ListedWasTrue
<1>1. SearchInit => SearchInv
  BY SearchInvInit
<1>2. SearchInv /\ [SearchNext]_searchVars => SearchInv'
  BY SearchInvNext
<1>3. SearchInv => ListedWasTrue
  BY SearchInvShows
<1>4. QED BY <1>1, <1>2, <1>3, PTL DEF SearchSpec
=============================================================================
