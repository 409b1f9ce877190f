-------------------------- MODULE DeviceUriProofs --------------------------
(***************************************************************************)
(* What the codec of the device URIs computes, for every serial number: a  *)
(* string that is encoded decodes to itself, whatever bytes it has.        *)
(*                                                                         *)
(* The decoder and FlattenSeq are recursive functions.  For each it is     *)
(* shown first that a function with its equation exists; what it computes  *)
(* then follows from the equation, by induction on a position.  Induction  *)
(* is stated for sets of numbers (the least number outside the set would   *)
(* have a predecessor inside).                                             *)
(***************************************************************************)
EXTENDS DeviceUri, WellFoundedInduction, SequenceTheorems, TLAPS

USE UriAssumption

\* The bytes of a C string.
Bytes == 1..255

-----------------------------------------------------------------------------
(* Induction over numbers. *)

\* A set of numbers that is not empty has a least element.
LEMMA LeastNumber ==
  ASSUME NEW T, T \subseteq Nat, T # {}
  PROVE  \E x \in T : \A y \in T : x <= y
  <1> DEFINE R == {ss \in Nat \X Nat : ss[1] < ss[2]}
  <1>1. IsWellFoundedOn(R, Nat)
    BY NatLessThanWellFounded DEF OpToRel
  <1>2. \E x \in T : \A y \in T : ~ (<<y, x>> \in R)
    <2> HIDE DEF R
    <2> QED BY <1>1, WFMin
  <1>3. PICK x \in T : \A y \in T : ~ (<<y, x>> \in R)
    BY <1>2
  <1>4. ASSUME NEW y \in T PROVE x <= y
    <2>1. ~ (<<y, x>> \in Nat \X Nat /\ <<y, x>>[1] < <<y, x>>[2])
      BY <1>3
    <2> QED BY <2>1
  <1> QED BY <1>4

\* Induction: a set that has 0, and n + 1 with every n, has all numbers.
LEMMA Induction ==
  ASSUME NEW H, 0 \in H, \A n \in Nat : n \in H => n + 1 \in H
  PROVE  Nat \subseteq H
  <1> SUFFICES ASSUME Nat \ H # {} PROVE FALSE
    OBVIOUS
  <1>1. PICK x \in Nat \ H : \A y \in Nat \ H : x <= y
    BY LeastNumber
  <1>2. x # 0 /\ x - 1 \in Nat /\ x - 1 \in H
    BY <1>1
  <1>3. (x - 1) + 1 = x
    OBVIOUS
  <1> QED BY <1>1, <1>2, <1>3

\* g begins with a, and step makes each of its values from the one before.
Unrolls(g, n, a, step) ==
    g[0] = a /\ \A i \in 1..n : g[i] = step[<<i, g[i - 1]>>]

\* A function on 0..n can be defined from each value to the next.
LEMMA Recursion ==
  ASSUME NEW T, NEW n \in Nat, NEW a \in T, NEW step \in [(1..n) \X T -> T]
  PROVE  \E g \in [0..n -> T] : Unrolls(g, n, a, step)
  <1> DEFINE Good(m, g) ==
                /\ g[0] = a
                /\ \A i \in 1..n : i <= m => g[i] = step[<<i, g[i - 1]>>]
             H == {m \in Nat : \E g \in [0..n -> T] : Good(m, g)}
  <1>1. 0 \in H
    <2> DEFINE g == [i \in 0..n |-> a]
    <2>1. g \in [0..n -> T] /\ Good(0, g)
      OBVIOUS
    <2> HIDE DEF g, Good
    <2> QED BY <2>1
  <1>2. ASSUME NEW m \in Nat, m \in H PROVE m + 1 \in H
    <2>1. PICK g \in [0..n -> T] : Good(m, g)
      BY <1>2
    <2>2. CASE m >= n
      <3>1. Good(m + 1, g)
        BY <2>1, <2>2
      <3> HIDE DEF Good
      <3> QED BY <3>1
    <2>3. CASE m < n
      <3> DEFINE v == step[<<m + 1, g[m]>>]
                 h == [g EXCEPT ![m + 1] = v]
      <3>1. m + 1 \in 1..n /\ m \in 0..n /\ v \in T
        BY <2>3
      <3>2. h \in [0..n -> T]
        <4> HIDE DEF v
        <4> QED BY <3>1
      <3>3. h[0] = a
        BY <2>1, <3>1
      <3>4. ASSUME NEW i \in 1..n, i <= m + 1
            PROVE  h[i] = step[<<i, h[i - 1]>>]
        <4>1. i - 1 \in 0..n /\ h[i - 1] = g[i - 1]
          BY <3>1, <3>4
        <4>2. CASE i = m + 1
          <5>1. h[i] = v /\ i - 1 = m
            BY <3>1, <4>2
          <5> QED BY <4>1, <4>2, <5>1
        <4>3. CASE i # m + 1
          BY <2>1, <3>1, <3>4, <4>1, <4>3
        <4> QED BY <4>2, <4>3
      <3>5. Good(m + 1, h)
        BY <3>3, <3>4
      <3> HIDE DEF h, Good
      <3> QED BY <3>2, <3>5
    <2> HIDE DEF H
    <2> QED BY <2>2, <2>3
  <1>3. Nat \subseteq H
    <2> HIDE DEF H
    <2> QED BY <1>1, <1>2, Induction
  <1>4. PICK g \in [0..n -> T] : Good(n, g)
    BY <1>3
  <1> QED BY <1>4 DEF Unrolls

-----------------------------------------------------------------------------
(* One byte. *)

\* What one byte becomes: itself, or an escape that stands for it; neither
\* has a 0 or white space.
LEMMA EscapeIs ==
  ASSUME NEW ch \in Bytes
  PROVE  /\ Escape(ch) \in Seq(Bytes)
         /\ Len(Escape(ch)) \in 1..3
         /\ \A i \in 1..Len(Escape(ch)) :
               Escape(ch)[i] \notin White
         /\ \/ Escape(ch) = <<ch>> /\ ch # Percent
            \/ /\ Len(Escape(ch)) = 3
               /\ Escape(ch)[1] = Percent
               /\ hex_value(Escape(ch)[2]) = ch \div 16
               /\ hex_value(Escape(ch)[3]) = ch % 16
  <1>1. CASE Unreserved(ch)
    <2>1. Escape(ch) = <<ch>>
      BY <1>1 DEF Escape
    <2>2. ch \notin White /\ ch # Percent
      BY <1>1 DEF Unreserved, Percent, Space, White
    <2> QED BY <2>1, <2>2
  <1>2. CASE ~Unreserved(ch)
    <2>1. ch \div 16 \in 0..15 /\ ch % 16 \in 0..15
      BY DEF Bytes
    <2>2. ASSUME NEW d \in 0..15
          PROVE  /\ HexDigit(d) \in 48..57 \cup 65..70
                 /\ hex_value(HexDigit(d)) = d
      BY DEF HexDigit, hex_value
    <2>3. Escape(ch) = <<Percent, HexDigit(ch \div 16), HexDigit(ch % 16)>>
      BY <1>2 DEF Escape
    <2> QED BY <2>1, <2>2, <2>3 DEF Bytes, Percent, Space, White
  <1> QED BY <1>1, <1>2

\* An escape stands for one byte, not 0, or for nothing.
LEMMA UnescapeIs ==
  ASSUME NEW s \in Seq(Bytes), NEW i \in Nat \ {0}
  PROVE  /\ Unescape(s, i) \subseteq Bytes
         /\ \A a, b \in Unescape(s, i) : a = b
  <1>1. ASSUME NEW ch \in Bytes PROVE hex_value(ch) \in -1..15
    BY DEF hex_value, Bytes
  <1>2. CASE i + 2 > Len(s)
    BY <1>2 DEF Unescape
  <1>3. CASE ~(i + 2 > Len(s))
    <2>1. s[i + 1] \in Bytes /\ s[i + 2] \in Bytes
      BY <1>3
    <2>2. hex_value(s[i + 1]) \in -1..15 /\ hex_value(s[i + 2]) \in -1..15
      BY <1>1, <2>1
    <2> DEFINE hi == hex_value(s[i + 1])
               lo == hex_value(s[i + 2])
    <2>3. Unescape(s, i) = IF hi < 0 \/ lo < 0 \/ hi + lo = 0 THEN {}
                           ELSE {16 * hi + lo}
      BY <1>3 DEF Unescape
    <2>4. hi \in -1..15 /\ lo \in -1..15
      BY <2>2
    <2> HIDE DEF hi, lo
    <2>5. CASE hi < 0 \/ lo < 0 \/ hi + lo = 0
      BY <2>3, <2>5
    <2>6. CASE ~(hi < 0 \/ lo < 0 \/ hi + lo = 0)
      <3>1. 16 * hi + lo \in Bytes
        BY <2>4, <2>6 DEF Bytes
      <3> QED BY <2>3, <2>6, <3>1
    <2> QED BY <2>5, <2>6
  <1> QED BY <1>2, <1>3

-----------------------------------------------------------------------------
(* The decoder. *)

\* The recursive function of uri_decode_component: what s stands for from each
\* of its positions on.
Rest(s) ==
    CHOOSE rest : rest = [i \in Nat |->
        IF i > Len(s) THEN {<<>>}
        ELSE IF s[i] = Percent
             THEN {<<ch>> \o t : ch \in Unescape(s, i), t \in rest[i + 3]}
             ELSE {<<s[i]>> \o t : t \in rest[i + 1]}]

\* What is decoded is what the recursive function gives from the start.
LEMMA DecodeIs ==
  ASSUME NEW s
  PROVE  uri_decode_component(s) = {t \in Rest(s)[1] : Fits(t)}
  BY DEF uri_decode_component, Rest

\* What s stands for from i on, given what it stands for from i + 1 and from
\* i + 3 on.
From(s, i, one, three) ==
    IF i > Len(s) THEN {<<>>}
    ELSE IF s[i] = Percent
         THEN {<<ch>> \o t : ch \in Unescape(s, i), t \in three}
         ELSE {<<s[i]>> \o t : t \in one}

AtMostOne(S) == \A t, u \in S : t = u

\* A step of the decoder on a C string makes C strings, at most one if the rest
\* was at most one.
LEMMA FromType ==
  ASSUME NEW s \in Seq(Bytes), NEW i \in Nat \ {0},
         NEW one \in SUBSET Seq(Bytes), NEW three \in SUBSET Seq(Bytes)
  PROVE  /\ From(s, i, one, three) \in SUBSET Seq(Bytes)
         /\ AtMostOne(one) /\ AtMostOne(three)
            => AtMostOne(From(s, i, one, three))
  <1>1. CASE i > Len(s)
    BY <1>1 DEF From, AtMostOne
  <1>2. CASE ~(i > Len(s)) /\ s[i] = Percent
    <2>1. From(s, i, one, three) =
            {<<ch>> \o t : ch \in Unescape(s, i), t \in three}
      BY <1>2 DEF From
    <2>2. \A x \in From(s, i, one, three) :
             \E ch \in Unescape(s, i), t \in three : x = <<ch>> \o t
      <3> DEFINE Join(ch, t) == <<ch>> \o t
      <3>1. From(s, i, one, three) =
              {Join(ch, t) : ch \in Unescape(s, i), t \in three}
        BY <2>1
      <3>2. \A x \in From(s, i, one, three) :
               \E ch \in Unescape(s, i), t \in three : x = Join(ch, t)
        <4> HIDE DEF Join
        <4> QED BY <3>1
      <3> QED BY <3>2
    <2>3. ASSUME AtMostOne(three), NEW x \in From(s, i, one, three),
                 NEW y \in From(s, i, one, three)
          PROVE  x = y
      <3>1. PICK a \in Unescape(s, i), t \in three : x = <<a>> \o t
        BY <2>2
      <3>2. PICK b \in Unescape(s, i), u \in three : y = <<b>> \o u
        BY <2>2
      <3>3. a = b
        BY UnescapeIs
      <3>4. t = u
        BY <2>3 DEF AtMostOne
      <3> QED BY <3>1, <3>2, <3>3, <3>4
    <2>4. ASSUME NEW x \in From(s, i, one, three) PROVE x \in Seq(Bytes)
      <3>1. PICK ch \in Unescape(s, i), t \in three : x = <<ch>> \o t
        BY <2>2
      <3> QED BY <3>1, UnescapeIs
    <2> QED BY <2>3, <2>4 DEF AtMostOne
  <1>3. CASE ~(i > Len(s)) /\ s[i] # Percent
    <2>1. From(s, i, one, three) = {<<s[i]>> \o t : t \in one}
      BY <1>3 DEF From
    <2>2. s[i] \in Bytes
      BY <1>3
    <2>3. ASSUME NEW t \in one PROVE <<s[i]>> \o t \in Seq(Bytes)
      BY <2>2
    <2> QED BY <2>1, <2>3 DEF AtMostOne
  <1> QED BY <1>1, <1>2, <1>3

\* The decoder looks only at what is behind.
LEMMA RestExists ==
  ASSUME NEW s \in Seq(Bytes), NEW k \in Nat
  PROVE  \E g \in [Nat -> SUBSET Seq(Bytes)] :
            \A i \in Nat \ {0} :
               i + k > Len(s) => g[i] = From(s, i, g[i + 1], g[i + 3])
  <1> DEFINE Good(n, g) ==
                \A i \in Nat \ {0} :
                   i + n > Len(s) => g[i] = From(s, i, g[i + 1], g[i + 3])
             H == {n \in Nat :
                      \E g \in [Nat -> SUBSET Seq(Bytes)] : Good(n, g)}
  <1>1. 0 \in H
    <2> DEFINE g == [i \in Nat |-> {<<>>}]
    <2>1. g \in [Nat -> SUBSET Seq(Bytes)]
      OBVIOUS
    <2>2. Good(0, g)
      BY DEF From
    <2> HIDE DEF g, Good
    <2> QED BY <2>1, <2>2
  <1>2. ASSUME NEW n \in Nat, n \in H PROVE n + 1 \in H
    <2>1. PICK g \in [Nat -> SUBSET Seq(Bytes)] : Good(n, g)
      BY <1>2
    <2>2. CASE n >= Len(s)
      <3>1. Good(n + 1, g)
        <4> SUFFICES ASSUME NEW i \in Nat \ {0}
                     PROVE  g[i] = From(s, i, g[i + 1], g[i + 3])
          OBVIOUS
        <4>1. i + n > Len(s)
          BY <2>2
        <4> QED BY <2>1, <4>1
      <3> HIDE DEF Good
      <3> QED BY <3>1
    <2>3. CASE n < Len(s)
      <3> DEFINE p == Len(s) - n
                 h == [g EXCEPT ![p] = From(s, p, g[p + 1], g[p + 3])]
      <3>1. p \in Nat \ {0}
        BY <2>3
      <3>2. From(s, p, g[p + 1], g[p + 3]) \in SUBSET Seq(Bytes)
        <4>1. g[p + 1] \in SUBSET Seq(Bytes) /\ g[p + 3] \in SUBSET Seq(Bytes)
          BY <3>1
        <4> HIDE DEF p
        <4> QED BY <3>1, <4>1, FromType
      <3>3. h \in [Nat -> SUBSET Seq(Bytes)]
        BY <3>2
      <3>4. ASSUME NEW i \in Nat \ {0}, i + (n + 1) > Len(s)
            PROVE  h[i] = From(s, i, h[i + 1], h[i + 3])
        <4>1. h[i + 1] = g[i + 1] /\ h[i + 3] = g[i + 3]
          BY <3>1, <3>4
        <4>2. CASE i = p
          BY <3>1, <4>1, <4>2
        <4>3. CASE i # p
          <5>1. i + n > Len(s)
            BY <3>4, <4>3
          <5> QED BY <2>1, <4>1, <4>3, <5>1
        <4> QED BY <4>2, <4>3
      <3>5. Good(n + 1, h)
        BY <3>4
      <3> HIDE DEF h, Good
      <3> QED BY <3>3, <3>5
    <2>4. n >= Len(s) \/ n < Len(s)
      OBVIOUS
    <2> HIDE DEF H
    <2> QED BY <2>2, <2>3, <2>4
  <1>3. Nat \subseteq H
    <2> HIDE DEF H
    <2> QED BY <1>1, <1>2, Induction
  <1> QED BY <1>3

\* The recursive function of the decoder exists and has its equation.
LEMMA RestIs ==
  ASSUME NEW s \in Seq(Bytes)
  PROVE  \A i \in Nat \ {0} :
            /\ Rest(s)[i] = From(s, i, Rest(s)[i + 1], Rest(s)[i + 3])
            /\ Rest(s)[i] \in SUBSET Seq(Bytes)
            /\ AtMostOne(Rest(s)[i])
  <1>1. PICK g \in [Nat -> SUBSET Seq(Bytes)] : \A i \in Nat \ {0} :
           i + Len(s) > Len(s) => g[i] = From(s, i, g[i + 1], g[i + 3])
    <2>1. Len(s) \in Nat
      OBVIOUS
    <2> QED BY <2>1, RestExists
  <1> DEFINE h == [i \in Nat |-> From(s, i, g[i + 1], g[i + 3])]
  <1>2. ASSUME NEW i \in Nat
        PROVE  h[i] = From(s, i, h[i + 1], h[i + 3])
    <2>1. ASSUME NEW j \in Nat \ {0} PROVE h[j] = g[j]
      <3>1. j + Len(s) > Len(s)
        OBVIOUS
      <3> QED BY <1>1, <3>1
    <2>2. h[i] = From(s, i, g[i + 1], g[i + 3])
      OBVIOUS
    <2>3. h[i + 1] = g[i + 1] /\ h[i + 3] = g[i + 3]
      <3>1. i + 1 \in Nat \ {0} /\ i + 3 \in Nat \ {0}
        OBVIOUS
      <3> HIDE DEF h
      <3> QED BY <2>1, <3>1
    <2> QED BY <2>2, <2>3
  <1>3. h = [i \in Nat |-> From(s, i, h[i + 1], h[i + 3])]
    BY <1>2
  <1> HIDE DEF h
  <1>4. Rest(s) = [i \in Nat |-> From(s, i, Rest(s)[i + 1], Rest(s)[i + 3])]
    <2> DEFINE E(rest) ==
                  rest = [i \in Nat |-> From(s, i, rest[i + 1], rest[i + 3])]
    <2>1. Rest(s) = CHOOSE rest : E(rest)
      BY DEF Rest, From
    <2>2. E(h)
      BY <1>3
    <2> QED BY <2>1, <2>2
  <1>5. ASSUME NEW i \in Nat \ {0}
        PROVE  Rest(s)[i] = From(s, i, Rest(s)[i + 1], Rest(s)[i + 3])
    BY <1>4
  <1> DEFINE Fine(i) == /\ Rest(s)[i] \in SUBSET Seq(Bytes)
                        /\ AtMostOne(Rest(s)[i])
             H == {k \in Nat : \A i \in Nat \ {0} : i + k > Len(s) => Fine(i)}
  <1>6. 0 \in H
    <2> SUFFICES ASSUME NEW i \in Nat \ {0}, i > Len(s) PROVE Fine(i)
      OBVIOUS
    <2>1. Rest(s)[i] = {<<>>}
      <3>1. From(s, i, Rest(s)[i + 1], Rest(s)[i + 3]) = {<<>>}
        BY DEF From
      <3> QED BY <1>5, <3>1
    <2> QED BY <2>1 DEF AtMostOne
  <1>7. ASSUME NEW k \in Nat, k \in H PROVE k + 1 \in H
    <2> SUFFICES ASSUME NEW i \in Nat \ {0}, i + (k + 1) > Len(s) PROVE Fine(i)
      OBVIOUS
    <2>1. Fine(i + 1) /\ Fine(i + 3)
      <3>1. i + 1 + k > Len(s) /\ i + 3 + k > Len(s)
        OBVIOUS
      <3> HIDE DEF Fine
      <3> QED BY <1>7, <3>1
    <2> DEFINE one   == Rest(s)[i + 1]
               three == Rest(s)[i + 3]
    <2>2. /\ one \in SUBSET Seq(Bytes) /\ AtMostOne(one)
          /\ three \in SUBSET Seq(Bytes) /\ AtMostOne(three)
      BY <2>1
    <2>3. Rest(s)[i] = From(s, i, one, three)
      BY <1>5
    <2> HIDE DEF one, three
    <2> QED BY <2>2, <2>3, FromType
  <1>8. Nat \subseteq H
    <2> HIDE DEF H
    <2> QED BY <1>6, <1>7, Induction
  <1>9. ASSUME NEW i \in Nat \ {0} PROVE Fine(i)
    <2>1. Len(s) \in Nat /\ i + Len(s) > Len(s)
      OBVIOUS
    <2>2. Len(s) \in H
      <3> HIDE DEF H
      <3> QED BY <1>8, <2>1
    <2> HIDE DEF Fine
    <2> QED BY <2>1, <2>2
  <1> QED BY <1>5, <1>9

-----------------------------------------------------------------------------
(* The encoder. *)

\* The recursive function of FlattenSeq: its first sequences joined.
Flat(seqs) ==
    CHOOSE flatten : flatten = [i \in 1..Len(seqs) |->
        IF i = 1 THEN seqs[i] ELSE flatten[i - 1] \o seqs[i]]

\* What is joined is what the recursive function gives at the end.
LEMMA FlattenIs ==
  ASSUME NEW seqs, Len(seqs) # 0
  PROVE  FlattenSeq(seqs) = Flat(seqs)[Len(seqs)]
  BY DEF FlattenSeq, Flat

\* There is a function that joins the first n.
LEMMA FlatExists ==
  ASSUME NEW n \in Nat, NEW seqs \in [1..n -> Seq(Bytes)]
  PROVE  \E g \in [1..n -> Seq(Bytes)] : \A i \in 1..n :
            g[i] = IF i = 1 THEN seqs[i] ELSE g[i - 1] \o seqs[i]
  <1> DEFINE T == Seq(Bytes)
             a == <<>>
             v(i, t) == IF i = 1 THEN seqs[i] ELSE t \o seqs[i]
             step == [it \in (1..n) \X T |-> v(it[1], it[2])]
  <1>1. step \in [(1..n) \X T -> T] /\ a \in T
    OBVIOUS
  <1>2. \A i \in 1..n, t \in T : step[<<i, t>>] = v(i, t)
    OBVIOUS
  <1>3. PICK f \in [0..n -> T] : Unrolls(f, n, a, step)
    <2> HIDE DEF a, v, step, T
    <2> QED BY <1>1, Recursion
  <1> DEFINE g == [i \in 1..n |-> f[i]]
  <1>4. g \in [1..n -> Seq(Bytes)]
    OBVIOUS
  <1>5. ASSUME NEW i \in 1..n
        PROVE  g[i] = IF i = 1 THEN seqs[i] ELSE g[i - 1] \o seqs[i]
    <2>1. i - 1 \in 0..n /\ f[i - 1] \in T /\ f[i] = step[<<i, f[i - 1]>>]
      <3> HIDE DEF v, step, T
      <3> QED BY <1>3 DEF Unrolls
    <2>2. f[i] = v(i, f[i - 1])
      <3> HIDE DEF step, v, T
      <3> QED BY <1>2, <2>1
    <2>3. g[i] = f[i] /\ (i # 1 => g[i - 1] = f[i - 1])
      OBVIOUS
    <2> HIDE DEF g
    <2> QED BY <2>2, <2>3
  <1> HIDE DEF g
  <1> QED BY <1>4, <1>5

\* It has the equation of FlattenSeq.
LEMMA FlatIs ==
  ASSUME NEW seqs \in Seq(Seq(Bytes))
  PROVE  /\ \A i \in 1..Len(seqs) : Flat(seqs)[i] \in Seq(Bytes)
         /\ Len(seqs) # 0 => Flat(seqs)[1] = seqs[1]
         /\ \A i \in 1..Len(seqs) :
               i # 1 => Flat(seqs)[i] = Flat(seqs)[i - 1] \o seqs[i]
  <1> DEFINE n == Len(seqs)
  <1>1. n \in Nat /\ seqs \in [1..n -> Seq(Bytes)]
    OBVIOUS
  <1> HIDE DEF n
  <1>2. PICK g \in [1..n -> Seq(Bytes)] : \A i \in 1..n :
            g[i] = IF i = 1 THEN seqs[i] ELSE g[i - 1] \o seqs[i]
    BY <1>1, FlatExists
  <1> DEFINE E(f) == f = [i \in 1..n |->
                         IF i = 1 THEN seqs[i] ELSE f[i - 1] \o seqs[i]]
  <1>3. E(g)
    <2> DEFINE v(i) == IF i = 1 THEN seqs[i] ELSE g[i - 1] \o seqs[i]
    <2>1. \A i \in 1..n : g[i] = v(i)
      BY <1>1, <1>2
    <2>2. g = [i \in 1..n |-> v(i)]
      <3> HIDE DEF v
      <3> QED BY <2>1
    <2> QED BY <2>2
  <1>4. Flat(seqs) = CHOOSE f : E(f)
    BY DEF Flat, n
  <1>5. E(Flat(seqs))
    <2> HIDE DEF E
    <2> QED BY <1>3, <1>4
  <1>6. ASSUME NEW i \in 1..n
        PROVE  Flat(seqs)[i] = IF i = 1 THEN seqs[i]
                               ELSE Flat(seqs)[i - 1] \o seqs[i]
    BY <1>5
  <1> DEFINE H == {i \in Nat : i \in 1..n => Flat(seqs)[i] \in Seq(Bytes)}
  <1>7. 0 \in H
    OBVIOUS
  <1>8. ASSUME NEW i \in Nat, i \in H PROVE i + 1 \in H
    <2> SUFFICES ASSUME i + 1 \in 1..n PROVE Flat(seqs)[i + 1] \in Seq(Bytes)
      OBVIOUS
    <2>1. Flat(seqs)[i + 1] = IF i + 1 = 1 THEN seqs[i + 1]
                              ELSE Flat(seqs)[(i + 1) - 1] \o seqs[i + 1]
      BY <1>6
    <2> QED BY <1>1, <1>8, <2>1
  <1>9. Nat \subseteq H
    <2> HIDE DEF H
    <2> QED BY <1>7, <1>8, Induction
  <1>10. ASSUME NEW i \in 1..n PROVE Flat(seqs)[i] \in Seq(Bytes)
    BY <1>9
  <1>11. n # 0 => Flat(seqs)[1] = seqs[1]
    <2> SUFFICES ASSUME n # 0 PROVE Flat(seqs)[1] = seqs[1]
      OBVIOUS
    <2>1. 1 \in 1..n
      BY <1>1
    <2> QED BY <1>6, <2>1
  <1>12. ASSUME NEW i \in 1..n, i # 1
         PROVE  Flat(seqs)[i] = Flat(seqs)[i - 1] \o seqs[i]
    BY <1>6, <1>12
  <1> QED BY <1>10, <1>11, <1>12 DEF n

\* The first n bytes of s, encoded.
Encoded(s, n) == FlattenSeq([i \in 1..n |-> Escape(s[i])])

\* Sequences that begin alike are joined alike.
LEMMA FlatAlike ==
  ASSUME NEW ts \in Seq(Seq(Bytes)), NEW us \in Seq(Seq(Bytes)),
         Len(ts) <= Len(us), \A i \in 1..Len(ts) : ts[i] = us[i]
  PROVE  \A i \in 1..Len(ts) : Flat(ts)[i] = Flat(us)[i]
  <1> DEFINE H == {i \in Nat : i \in 1..Len(ts) => Flat(ts)[i] = Flat(us)[i]}
  <1>1. 0 \in H
    OBVIOUS
  <1>2. ASSUME NEW i \in Nat, i \in H PROVE i + 1 \in H
    <2> SUFFICES ASSUME i + 1 \in 1..Len(ts)
                 PROVE  Flat(ts)[i + 1] = Flat(us)[i + 1]
      OBVIOUS
    <2>1. i + 1 \in 1..Len(us) /\ Len(ts) # 0 /\ Len(us) # 0
      OBVIOUS
    <2>2. CASE i = 0
      <3>1. Flat(ts)[1] = ts[1] /\ Flat(us)[1] = us[1]
        BY <2>1, FlatIs
      <3>2. i + 1 = 1 /\ 1 \in 1..Len(ts)
        BY <2>2
      <3>3. ts[1] = us[1]
        BY <3>2
      <3> QED BY <3>1, <3>2, <3>3
    <2>3. CASE i # 0
      <3>1. i \in 1..Len(ts) /\ i + 1 # 1 /\ (i + 1) - 1 = i
        BY <2>3
      <3>2. Flat(ts)[i + 1] = Flat(ts)[(i + 1) - 1] \o ts[i + 1]
        BY <3>1, FlatIs
      <3>3. Flat(us)[i + 1] = Flat(us)[(i + 1) - 1] \o us[i + 1]
        BY <2>1, <3>1, FlatIs
      <3> QED BY <1>2, <3>1, <3>2, <3>3
    <2> QED BY <2>2, <2>3
  <1>3. Nat \subseteq H
    <2> HIDE DEF H
    <2> QED BY <1>1, <1>2, Induction
  <1> QED BY <1>3

\* The encoder goes from byte to byte.
LEMMA EncodedIs ==
  ASSUME NEW s \in Seq(Bytes)
  PROVE  /\ Encoded(s, 0) = <<>>
         /\ \A n \in 0..Len(s) : Encoded(s, n) \in Seq(Bytes)
         /\ \A n \in 1..Len(s) :
               Encoded(s, n) = Encoded(s, n - 1) \o Escape(s[n])
  <1> DEFINE Escapes(n) == [i \in 1..n |-> Escape(s[i])]
  <1>1. ASSUME NEW n \in 0..Len(s)
        PROVE  Escapes(n) \in Seq(Seq(Bytes)) /\ Len(Escapes(n)) = n
    BY EscapeIs
  <1>2. Encoded(s, 0) = <<>>
    BY DEF Encoded, FlattenSeq
  <1>3. ASSUME NEW n \in 1..Len(s)
        PROVE  /\ Encoded(s, n) = Flat(Escapes(n))[n]
               /\ Encoded(s, n) \in Seq(Bytes)
    <2> DEFINE e == Escapes(n)
    <2>1. e \in Seq(Seq(Bytes)) /\ Len(e) = n /\ n # 0 /\ n \in 1..n
      BY <1>1
    <2>2. Encoded(s, n) = FlattenSeq(e)
      BY DEF Encoded
    <2>3. Encoded(s, n) = Flat(e)[n] /\ Flat(e)[n] \in Seq(Bytes)
      <3> HIDE DEF e
      <3> QED BY <2>1, <2>2, FlattenIs, FlatIs
    <2> QED BY <2>3
  <1>4. ASSUME NEW n \in 1..Len(s)
        PROVE  Encoded(s, n) = Encoded(s, n - 1) \o Escape(s[n])
    <2> DEFINE e == Escapes(n)
               d == Escapes(n - 1)
    <2>1. /\ e \in Seq(Seq(Bytes)) /\ Len(e) = n
          /\ d \in Seq(Seq(Bytes)) /\ Len(d) = n - 1
      BY <1>1
    <2>2. \A i \in 1..(n - 1) : d[i] = e[i]
      OBVIOUS
    <2>3. e[n] = Escape(s[n]) /\ Escape(s[n]) \in Seq(Bytes)
      BY EscapeIs
    <2>4. Encoded(s, n) = Flat(e)[n]
      BY <1>3
    <2>5. CASE n = 1
      <3>1. Flat(e)[n] = e[n]
        <4> HIDE DEF e
        <4>1. Len(e) # 0
          BY <2>1
        <4>2. Flat(e)[1] = e[1]
          BY <2>1, <4>1, FlatIs
        <4> QED BY <2>5, <4>2
      <3>2. <<>> \o Escape(s[n]) = Escape(s[n])
        BY <2>3
      <3> QED BY <1>2, <2>3, <2>4, <2>5, <3>1, <3>2
    <2>6. CASE n # 1
      <3>1. n - 1 \in 1..Len(s) /\ n \in 1..n /\ n - 1 \in 1..(n - 1)
            /\ n - 1 <= n
        BY <2>6
      <3>2. Encoded(s, n - 1) = Flat(d)[n - 1]
        BY <1>3, <3>1
      <3> HIDE DEF d, e
      <3>3. Flat(d)[n - 1] = Flat(e)[n - 1]
        BY <2>1, <2>2, <3>1, FlatAlike
      <3>4. Flat(e)[n] = Flat(e)[n - 1] \o e[n]
        BY <2>1, <2>6, <3>1, FlatIs
      <3> QED BY <2>3, <2>4, <3>2, <3>3, <3>4
    <2> QED BY <2>5, <2>6
  <1>5. ASSUME NEW n \in 0..Len(s) PROVE Encoded(s, n) \in Seq(Bytes)
    <2>1. CASE n = 0
      <3>1. <<>> \in Seq(Bytes) /\ Encoded(s, n) = Encoded(s, 0)
        BY <2>1
      <3> QED BY <1>2, <3>1
    <2>2. CASE n # 0
      <3>1. n \in 1..Len(s)
        BY <2>2
      <3> QED BY <1>3, <3>1
    <2> QED BY <2>1, <2>2
  <1> QED BY <1>2, <1>4, <1>5

\* What is encoded stays where it is when more follows; each byte takes three
\* characters at most, none of them white space.
LEMMA EncodedGrows ==
  ASSUME NEW s \in Seq(Bytes), NEW n \in 0..Len(s)
  PROVE  /\ Len(Encoded(s, n)) \in n..(3 * n)
         /\ \A i \in 1..Len(Encoded(s, n)) :
               Encoded(s, n)[i] \notin White
         /\ \A m \in 0..n :
               /\ Len(Encoded(s, m)) <= Len(Encoded(s, n))
               /\ \A i \in 1..Len(Encoded(s, m)) :
                     Encoded(s, m)[i] = Encoded(s, n)[i]
  <1> DEFINE E(k) == Encoded(s, k)
             Short(k) == Len(E(k)) \in k..(3 * k)
             Clean(k) == \A i \in 1..Len(E(k)) :
                            E(k)[i] \notin White
             Begins(m, k) == /\ Len(E(m)) <= Len(E(k))
                             /\ \A i \in 1..Len(E(m)) : E(m)[i] = E(k)[i]
             Good(k) == Short(k) /\ Clean(k) /\ \A m \in 0..k : Begins(m, k)
             H == {k \in Nat : k <= Len(s) => Good(k)}
  <1>1. 0 \in H
    BY EncodedIs
  <1>2. ASSUME NEW k \in Nat, k \in H PROVE k + 1 \in H
    <2> SUFFICES ASSUME k + 1 <= Len(s) PROVE Good(k + 1)
      OBVIOUS
    <2> DEFINE x == Escape(s[k + 1])
    <2>1. /\ k + 1 \in 1..Len(s) /\ k \in 0..Len(s) /\ (k + 1) - 1 = k
          /\ s[k + 1] \in Bytes
      OBVIOUS
    <2>2. E(k + 1) = E(k) \o x
      BY <2>1, EncodedIs
    <2>3. /\ x \in Seq(Bytes) /\ Len(x) \in 1..3
          /\ \A i \in 1..Len(x) : x[i] \notin White
      BY <2>1, EscapeIs
    <2>4. \A m \in 0..k : E(m) \in Seq(Bytes) /\ Len(E(m)) \in Nat
      <3>1. \A m \in 0..k : E(m) \in Seq(Bytes)
        BY <2>1, EncodedIs
      <3> HIDE DEF E
      <3> QED BY <3>1
    <2>5. Good(k)
      <3> HIDE DEF Good
      <3> QED BY <1>2, <2>1
    <2> HIDE DEF E, x
    <2>6. k \in 0..k /\ Len(x) \in Nat
      BY <2>3
    <2>7. /\ Len(E(k + 1)) = Len(E(k)) + Len(x)
          /\ \A i \in 1..Len(E(k)) : E(k + 1)[i] = E(k)[i]
          /\ \A i \in 1..Len(x) : E(k + 1)[i + Len(E(k))] = x[i]
      BY <2>2, <2>3, <2>4, <2>6
    <2>8. Short(k + 1)
      <3>1. /\ Len(E(k + 1)) = Len(E(k)) + Len(x) /\ Len(x) \in 1..3
            /\ Len(E(k)) \in k..(3 * k)
        BY <2>3, <2>5, <2>7
      <3> DEFINE a == Len(E(k))
                 b == Len(x)
                 c == Len(E(k + 1))
      <3>2. c = a + b /\ b \in 1..3 /\ a \in k..(3 * k)
        BY <3>1
      <3> HIDE DEF a, b, c
      <3>3. c \in (k + 1)..(3 * (k + 1))
        BY <3>2
      <3> QED BY <3>3 DEF c
    <2>9. ASSUME NEW i \in 1..Len(E(k + 1))
          PROVE  E(k + 1)[i] \notin White
      <3>1. CASE i \in 1..Len(E(k))
        BY <2>5, <2>7, <3>1
      <3>2. CASE i \notin 1..Len(E(k))
        <4>1. i - Len(E(k)) \in 1..Len(x) /\ (i - Len(E(k))) + Len(E(k)) = i
          BY <2>4, <2>6, <2>7, <3>2
        <4> QED BY <2>3, <2>7, <4>1
      <3> QED BY <3>1, <3>2
    <2>10. ASSUME NEW m \in 0..(k + 1) PROVE Begins(m, k + 1)
      <3>1. CASE m = k + 1
        <4>1. Len(E(m)) \in Nat
          BY <2>4, <2>6, <2>7, <3>1
        <4> QED BY <3>1, <4>1
      <3>2. CASE m # k + 1
        <4>1. m \in 0..k
          BY <3>2
        <4>2. Begins(m, k) /\ Len(E(m)) \in Nat /\ Len(E(k)) \in Nat
          BY <2>4, <2>5, <2>6, <4>1
        <4> QED BY <2>6, <2>7, <4>2
      <3> QED BY <3>1, <3>2
    <2> QED BY <2>8, <2>9, <2>10
  <1>3. Nat \subseteq H
    <2> HIDE DEF H
    <2> QED BY <1>1, <1>2, Induction
  <1>4. n \in H
    <2> HIDE DEF H
    <2> QED BY <1>3
  <1> QED BY <1>4

\* A serial number that fits its buffer is encoded whole.
LEMMA EncodesWhole ==
  ASSUME NEW s \in Seq(Bytes), Len(s) < SerialSize
  PROVE  uri_encode_component(s) = Encoded(s, Len(s))
  <1> DEFINE N == Len(s)
             fitting == {n \in 0..N : Len(Encoded(s, n)) < EncodedSize}
  <1>1. N \in Nat /\ N \in 0..N
    OBVIOUS
  <1>2. uri_encode_component(s) = Encoded(s, Max(fitting))
    BY DEF uri_encode_component, Encoded
  <1>3. Len(Encoded(s, N)) \in N..(3 * N)
    BY <1>1, EncodedGrows
  <1>4. N \in fitting
    <2> DEFINE a == Len(Encoded(s, N))
    <2>1. a \in N..(3 * N) /\ N < SerialSize
      BY <1>3
    <2> HIDE DEF a, N
    <2>2. a < EncodedSize
      BY <1>1, <2>1 DEF EncodedSize
    <2> QED BY <1>1, <2>2 DEF a
  <1>5. \A n \in fitting : n \in Int /\ n <= N
    BY <1>1
  <1> HIDE DEF fitting, N
  <1>6. Max(fitting) = N
    <2>1. N \in fitting /\ \A n \in fitting : N >= n
      BY <1>1, <1>4, <1>5
    <2>2. ASSUME NEW x \in fitting, \A n \in fitting : x >= n PROVE x = N
      <3>1. x >= N /\ x \in Int /\ x <= N
        BY <1>4, <1>5, <2>2
      <3> QED BY <1>1, <3>1
    <2> QED BY <2>1, <2>2 DEF Max
  <1> QED BY <1>2, <1>6 DEF N

-----------------------------------------------------------------------------
(* Encoded and decoded again. *)

\* Behind its first p bytes, e has the escape of ch.
Stands(e, p, ch) ==
    /\ p + Len(Escape(ch)) <= Len(e)
    /\ \A i \in 1..Len(Escape(ch)) : e[p + i] = Escape(ch)[i]

\* The first n bytes encoded are the first n - 1 and the escape of the n-th;
\* it stands there in the whole string too.
LEMMA EscapeStands ==
  ASSUME NEW s \in Seq(Bytes), NEW n \in 1..Len(s)
  PROVE  /\ Len(Encoded(s, n - 1)) \in Nat
         /\ Len(Encoded(s, n)) = Len(Encoded(s, n - 1)) + Len(Escape(s[n]))
         /\ Stands(Encoded(s, Len(s)), Len(Encoded(s, n - 1)), s[n])
  <1>1. n - 1 \in 0..Len(s) /\ n \in 0..Len(s) /\ Len(s) \in 0..Len(s)
        /\ s[n] \in Bytes
    OBVIOUS
  <1> DEFINE a == Encoded(s, n - 1)
             b == Encoded(s, n)
             e == Encoded(s, Len(s))
             x == Escape(s[n])
             p == Len(a)
  <1>2. a \in Seq(Bytes) /\ b = a \o x
    BY <1>1, EncodedIs
  <1>3. x \in Seq(Bytes)
    BY <1>1, EscapeIs
  <1>4. Len(b) <= Len(e) /\ \A i \in 1..Len(b) : b[i] = e[i]
    <2>1. n \in 0..Len(s)
      BY <1>1
    <2> QED BY <1>1, <2>1, EncodedGrows
  <1> HIDE DEF a, b, e, x
  <1>5. p \in Nat /\ Len(x) \in Nat
    BY <1>2, <1>3
  <1>6. Len(b) = p + Len(x) /\ \A i \in 1..Len(x) : b[p + i] = x[i]
    BY <1>2, <1>3, <1>5
  <1>7. ASSUME NEW i \in 1..Len(x) PROVE e[p + i] = x[i]
    <2>1. p + i \in 1..Len(b)
      BY <1>5, <1>6
    <2> QED BY <1>4, <1>6, <2>1
  <1> QED BY <1>4, <1>5, <1>6, <1>7 DEF Stands, a, b, e, x

\* The decoder reads one escape, and goes on behind it.
LEMMA DecodesOne ==
  ASSUME NEW e \in Seq(Bytes), NEW p \in Nat, NEW ch \in Bytes,
         Stands(e, p, ch)
  PROVE  Rest(e)[p + 1]
            = {<<ch>> \o t : t \in Rest(e)[p + Len(Escape(ch)) + 1]}
  <1> DEFINE x == Escape(ch)
             q == p + 1
  <1>1. \/ x = <<ch>> /\ ch # Percent
        \/ /\ Len(x) = 3
           /\ x[1] = Percent
           /\ hex_value(x[2]) = ch \div 16
           /\ hex_value(x[3]) = ch % 16
    BY EscapeIs
  <1>2. Rest(e)[q] = From(e, q, Rest(e)[q + 1], Rest(e)[q + 3])
    <2>1. q \in Nat \ {0}
      OBVIOUS
    <2> HIDE DEF q
    <2> QED BY <2>1, RestIs
  <1>3. CASE x = <<ch>> /\ ch # Percent
    <2>1. Len(x) = 1 /\ x[1] = ch
      BY <1>3
    <2>2. e[q] = ch /\ ~(q > Len(e)) /\ p + Len(x) + 1 = q + 1
      BY <2>1 DEF Stands
    <2> QED BY <1>2, <1>3, <2>2 DEF From
  <1>4. CASE /\ Len(x) = 3
             /\ x[1] = Percent
             /\ hex_value(x[2]) = ch \div 16
             /\ hex_value(x[3]) = ch % 16
    <2> HIDE DEF x
    <2>1. /\ e[q] = x[1] /\ e[q + 1] = x[2] /\ e[q + 2] = x[3]
          /\ q + 2 <= Len(e) /\ p + Len(x) + 1 = q + 3
      BY <1>4 DEF Stands, x
    <2>2. Unescape(e, q) = {ch}
      <3> DEFINE hi == hex_value(e[q + 1])
                 lo == hex_value(e[q + 2])
      <3>1. hi = ch \div 16 /\ lo = ch % 16
        BY <1>4, <2>1
      <3>2. Unescape(e, q) = IF hi < 0 \/ lo < 0 \/ hi + lo = 0 THEN {}
                             ELSE {16 * hi + lo}
        BY <2>1 DEF Unescape
      <3>3. /\ ch \div 16 \in 0..15 /\ ch % 16 \in 0..15
            /\ 16 * (ch \div 16) + (ch % 16) = ch /\ ch # 0
        BY DEF Bytes
      <3>4. hi \in 0..15 /\ lo \in 0..15 /\ 16 * hi + lo = ch
        BY <3>1, <3>3
      <3>5. ~(hi < 0 \/ lo < 0 \/ hi + lo = 0)
        <4>1. ch # 0
          BY DEF Bytes
        <4> HIDE DEF hi, lo
        <4> QED BY <4>1, <3>4
      <3> HIDE DEF hi, lo
      <3> QED BY <3>2, <3>4, <3>5
    <2> DEFINE T     == Rest(e)[q + 3]
               one   == Rest(e)[q + 1]
               Join(c, t) == <<c>> \o t
               Joins(S) == {Join(c, t) : c \in S, t \in T}
    <2>3. e[q] = Percent /\ ~(q > Len(e))
      BY <1>4, <2>1
    <2>4. From(e, q, one, T) = Joins(Unescape(e, q))
      BY <2>3 DEF From
    <2>5. Joins({ch}) = {Join(ch, t) : t \in T}
      <3> HIDE DEF Join
      <3> QED OBVIOUS
    <2>6. From(e, q, one, T) = {Join(ch, t) : t \in T}
      <3> HIDE DEF Join, Joins, one
      <3> QED BY <2>2, <2>4, <2>5
    <2>7. Rest(e)[q] = {Join(ch, t) : t \in T}
      BY <1>2, <2>6
    <2> QED BY <2>1, <2>7 DEF x
  <1> QED BY <1>1, <1>3, <1>4

\* A string from one position on is the byte there and the rest.
LEMMA SubSeqGrows ==
  ASSUME NEW s \in Seq(Bytes), NEW m \in 1..Len(s)
  PROVE  <<s[m]>> \o SubSeq(s, m + 1, Len(s)) = SubSeq(s, m, Len(s))
  <1> DEFINE N == Len(s)
             b == SubSeq(s, m + 1, N)
             c == SubSeq(s, m, N)
  <1>1. N \in Nat /\ m \in 1..N /\ s[m] \in Bytes
    OBVIOUS
  <1>2. /\ b \in Seq(Bytes) /\ Len(b) = N - m
        /\ \A i \in 1..(N - m) : b[i] = s[m + i]
    OBVIOUS
  <1>3. /\ c \in Seq(Bytes) /\ Len(c) = N - m + 1
        /\ \A i \in 1..(N - m + 1) : c[i] = s[m + i - 1]
    OBVIOUS
  <1> DEFINE a == <<s[m]>> \o b
  <1>4. /\ a \in Seq(Bytes) /\ Len(a) = N - m + 1
        /\ a[1] = s[m] /\ \A i \in 1..(N - m) : a[i + 1] = b[i]
    <2> DEFINE x == s[m]
               k == N - m
    <2>1. /\ x \in Bytes /\ k \in Nat /\ b \in Seq(Bytes) /\ Len(b) = k
          /\ N - m + 1 = k + 1
      BY <1>1, <1>2
    <2>2. /\ <<x>> \o b \in Seq(Bytes) /\ Len(<<x>> \o b) = k + 1
          /\ (<<x>> \o b)[1] = x
          /\ \A i \in 1..k : (<<x>> \o b)[i + 1] = b[i]
      <3> HIDE DEF x, b, k
      <3> QED BY <2>1
    <2> QED BY <2>1, <2>2
  <1>5. ASSUME NEW i \in 1..(N - m + 1) PROVE a[i] = c[i]
    <2> HIDE DEF a, b, c
    <2>1. CASE i = 1
      <3>1. m + i - 1 = m
        BY <1>1, <2>1
      <3> QED BY <1>3, <1>4, <2>1, <3>1
    <2>2. CASE i # 1
      <3>1. i - 1 \in 1..(N - m) /\ (i - 1) + 1 = i /\ m + (i - 1) = m + i - 1
        BY <1>1, <2>2
      <3> QED BY <1>2, <1>3, <1>4, <3>1
    <2> QED BY <2>1, <2>2
  <1>6. a = c
    <2> HIDE DEF a, b, c, N
    <2> QED BY <1>3, <1>4, <1>5
  <1> QED BY <1>6

\* From the escape of any byte on, the decoder finds the bytes from there on.
LEMMA DecodesRest ==
  ASSUME NEW s \in Seq(Bytes), NEW n \in 0..Len(s)
  PROVE  Rest(Encoded(s, Len(s)))[Len(Encoded(s, n)) + 1]
            = {SubSeq(s, n + 1, Len(s))}
  <1> DEFINE N == Len(s)
             e == Encoded(s, N)
             At(m) == Len(Encoded(s, m))
             Done(m) == Rest(e)[At(m) + 1] = {SubSeq(s, m + 1, N)}
             H == {k \in Nat : k <= N => Done(N - k)}
  <1>1. N \in Nat /\ e \in Seq(Bytes)
    BY EncodedIs
  <1>2. 0 \in H
    <2>1. Len(e) \in Nat
      BY <1>1
    <2>2. Rest(e)[Len(e) + 1] = {<<>>}
      <3>1. Len(e) + 1 \in Nat \ {0} /\ Len(e) + 1 > Len(e)
        BY <2>1
      <3> DEFINE one   == Rest(e)[(Len(e) + 1) + 1]
                 three == Rest(e)[(Len(e) + 1) + 3]
      <3>2. Rest(e)[Len(e) + 1] = From(e, Len(e) + 1, one, three)
        <4> HIDE DEF e
        <4> QED BY <1>1, <3>1, RestIs
      <3>3. From(e, Len(e) + 1, one, three) = {<<>>}
        BY <3>1 DEF From
      <3> QED BY <3>2, <3>3
    <2>3. SubSeq(s, N + 1, N) = <<>>
      OBVIOUS
    <2>4. Done(N)
      BY <2>2, <2>3
    <2>5. N - 0 = N
      BY <1>1
    <2> HIDE DEF Done, N
    <2> QED BY <2>4, <2>5
  <1>3. ASSUME NEW k \in Nat, k \in H PROVE k + 1 \in H
    <2> SUFFICES ASSUME k + 1 <= N PROVE Done(N - (k + 1))
      OBVIOUS
    <2> DEFINE m  == N - k
               p  == At(m - 1)
               ch == s[m]
    <2>1. /\ m \in 1..N /\ m - 1 = N - (k + 1) /\ ch \in Bytes
          /\ Done(m)
      <3> HIDE DEF Done
      <3> QED BY <1>1, <1>3
    <2>2. /\ p \in Nat
          /\ At(m) = p + Len(Escape(ch))
          /\ Stands(e, p, ch)
      <3>1. m \in 1..Len(s)
        BY <2>1
      <3> HIDE DEF m
      <3> QED BY <3>1, EscapeStands
    <2>3. Rest(e)[p + Len(Escape(ch)) + 1] = {SubSeq(s, m + 1, N)}
      <3> HIDE DEF m, e, N, p, ch
      <3> QED BY <2>1, <2>2
    <2>4. Rest(e)[p + 1] = {<<ch>> \o SubSeq(s, m + 1, N)}
      <3> DEFINE t == SubSeq(s, m + 1, N)
                 q == p + Len(Escape(ch)) + 1
      <3>1. Rest(e)[q] = {t}
        BY <2>3
      <3>2. Rest(e)[p + 1] = {<<ch>> \o u : u \in Rest(e)[q]}
        <4>1. /\ e \in Seq(Bytes) /\ p \in Nat /\ ch \in Bytes
              /\ Stands(e, p, ch)
          BY <1>1, <2>1, <2>2
        <4> HIDE DEF m, e, N, p, ch
        <4>2. Rest(e)[p + 1]
                = {<<ch>> \o u : u \in Rest(e)[p + Len(Escape(ch)) + 1]}
          BY ONLY <4>1, DecodesOne, Zenon
        <4> QED BY <4>2
      <3> HIDE DEF m, e, N, p, ch, t, q
      <3>3. Rest(e)[p + 1] = {<<ch>> \o t}
        BY <3>1, <3>2
      <3> QED BY <3>3 DEF t
    <2>5. <<s[m]>> \o SubSeq(s, m + 1, N) = SubSeq(s, m, N)
      <3>1. m \in 1..Len(s)
        BY <2>1
      <3> HIDE DEF m
      <3> QED BY <3>1, SubSeqGrows
    <2>6. Rest(e)[At(m - 1) + 1] = {SubSeq(s, (m - 1) + 1, N)}
      <3>1. (m - 1) + 1 = m
        BY <2>1
      <3> HIDE DEF m, e, N
      <3> QED BY <2>4, <2>5, <3>1
    <2> HIDE DEF m
    <2> QED BY <2>1, <2>6
  <1>4. Nat \subseteq H
    <2> HIDE DEF H
    <2> QED BY <1>2, <1>3, Induction
  <1>5. N - n \in Nat /\ N - n <= N /\ N - (N - n) = n
    BY <1>1
  <1>6. N - n \in H
    <2> HIDE DEF H, N
    <2> QED BY <1>4, <1>5
  <1>7. Done(n)
    <2> HIDE DEF Done, N
    <2> QED BY <1>5, <1>6
  <1> QED BY <1>7

\* What sscanf takes is one word, and the end of the string.
LEMMA ScannedIs ==
  ASSUME NEW s \in Seq(Bytes)
  PROVE  AtMostOne(Scanned(s)) /\ Scanned(s) \in SUBSET Seq(Bytes)
  <1>1. WordStarts(s) \subseteq 1..Len(s) /\ Len(s) \in Nat
    BY DEF WordStarts
  <1>2. ASSUME NEW n \in WordStarts(s), NEW m \in WordStarts(s), n < m
        PROVE  FALSE
    <2>1. n \in 1..(m - 1) /\ n \in n..Len(s)
      BY <1>1, <1>2
    <2>2. s[n] \in White /\ s[n] \notin White
      BY <2>1 DEF WordStarts
    <2> QED BY <2>2
  <1>3. \A n, m \in WordStarts(s) : n = m
    BY <1>1, <1>2
  <1>4. ASSUME NEW n \in WordStarts(s)
        PROVE  SubSeq(s, n, Len(s)) \in Seq(Bytes)
    <2>1. n \in 1..Len(s)
      BY <1>1
    <2> QED BY <1>1, <2>1
  <1> QED BY <1>3, <1>4 DEF Scanned, AtMostOne

\* A string without white space that fits the buffer is taken whole.
LEMMA ScannedWhole ==
  ASSUME NEW s \in Seq(Bytes), s # <<>>, Len(s) < EncodedSize,
         \A i \in 1..Len(s) : s[i] \notin White
  PROVE  Scanned(s) = {s}
  <1>1. Len(s) \in Nat \ {0} /\ 1 \in 1..Len(s) /\ Len(s) - 1 + 1 = Len(s)
    OBVIOUS
  <1>2. ASSUME NEW n \in WordStarts(s) PROVE n = 1
    <2> SUFFICES ASSUME n # 1 PROVE FALSE
      OBVIOUS
    <2>1. n \in 1..Len(s)
      BY DEF WordStarts
    <2>2. 1 \in 1..(n - 1)
      BY <2>1
    <2> QED BY <1>1, <2>2 DEF WordStarts
  <1>3. \A i \in 1..(1 - 1) : s[i] \in White
    OBVIOUS
  <1>4. WordStarts(s) = {1}
    <2>1. 1 \in WordStarts(s)
      BY <1>1, <1>3 DEF WordStarts
    <2> QED BY <1>2, <2>1
  <1>5. SubSeq(s, 1, Len(s)) = s
    OBVIOUS
  <1> QED BY <1>4, <1>5 DEF Scanned

\* White space in front of a string is skipped.
LEMMA ScannedSkips ==
  ASSUME NEW s \in Seq(Bytes), NEW b \in Bytes, b \in White
  PROVE  Scanned(<<b>> \o s) = Scanned(s)
  <1> DEFINE t == <<b>> \o s
  <1>1. /\ t \in Seq(Bytes) /\ Len(t) = Len(s) + 1 /\ Len(s) \in Nat
        /\ t[1] = b /\ \A i \in 1..Len(s) : t[i + 1] = s[i]
    OBVIOUS
  <1> HIDE DEF t
  <1>2. ASSUME NEW n \in 1..Len(s)
        PROVE  /\ n + 1 \in WordStarts(t) <=> n \in WordStarts(s)
               /\ SubSeq(t, n + 1, Len(t)) = SubSeq(s, n, Len(s))
    <2>1. ASSUME NEW i \in 1..Len(t)
          PROVE  IF i = 1 THEN t[i] = b
                 ELSE i - 1 \in 1..Len(s) /\ t[i] = s[i - 1]
      <3>1. CASE i = 1
        BY <1>1, <3>1
      <3>2. CASE i # 1
        <4>1. i - 1 \in 1..Len(s) /\ (i - 1) + 1 = i
          BY <1>1, <3>2
        <4> QED BY <1>1, <4>1
      <3> QED BY <3>1, <3>2
    <2>2. /\ n + 1 \in 1..Len(t) /\ (n + 1) - 1 = n
          /\ Len(t) - (n + 1) + 1 = Len(s) - n + 1
      BY <1>1
    <2>3. (\A i \in 1..n : t[i] \in White)
             <=> \A i \in 1..(n - 1) : s[i] \in White
      <3>1. ASSUME \A i \in 1..n : t[i] \in White, NEW i \in 1..(n - 1)
            PROVE  s[i] \in White
        <4>1. i + 1 \in 1..n /\ i \in 1..Len(s)
          OBVIOUS
        <4> QED BY <1>1, <3>1, <4>1
      <3>2. ASSUME \A i \in 1..(n - 1) : s[i] \in White, NEW i \in 1..n
            PROVE  t[i] \in White
        <4>1. i \in 1..Len(t) /\ (i # 1 => i - 1 \in 1..(n - 1))
          BY <1>1
        <4> QED BY <2>1, <3>2, <4>1
      <3> QED BY <3>1, <3>2
    <2>4. (\A i \in (n + 1)..Len(t) : t[i] \notin White)
             <=> \A i \in n..Len(s) : s[i] \notin White
      <3>1. ASSUME \A i \in (n + 1)..Len(t) : t[i] \notin White,
                   NEW i \in n..Len(s)
            PROVE  s[i] \notin White
        <4>1. i + 1 \in (n + 1)..Len(t) /\ i \in 1..Len(s)
          BY <1>1
        <4> QED BY <1>1, <3>1, <4>1
      <3>2. ASSUME \A i \in n..Len(s) : s[i] \notin White,
                   NEW i \in (n + 1)..Len(t)
            PROVE  t[i] \notin White
        <4>1. i \in 1..Len(t) /\ i # 1 /\ i - 1 \in n..Len(s)
          BY <1>1
        <4> QED BY <2>1, <3>2, <4>1
      <3> QED BY <3>1, <3>2
    <2>5. n + 1 \in WordStarts(t) <=> n \in WordStarts(s)
      BY <2>2, <2>3, <2>4 DEF WordStarts
    <2>6. SubSeq(t, n + 1, Len(t)) = SubSeq(s, n, Len(s))
      <3> DEFINE u == SubSeq(t, n + 1, Len(t))
                 v == SubSeq(s, n, Len(s))
                 L == Len(s) - n + 1
      <3>1. L \in Nat /\ \A i \in 1..L : i + n - 1 \in 1..Len(s)
        BY <1>1
      <3>2. /\ u \in Seq(Bytes) /\ Len(u) = L
            /\ \A i \in 1..L : u[i] = t[i + n]
        BY <1>1, <2>2
      <3>3. /\ v \in Seq(Bytes) /\ Len(v) = L
            /\ \A i \in 1..L : v[i] = s[i + n - 1]
        BY <1>1
      <3>4. \A i \in 1..L : t[i + n] = s[i + n - 1]
        BY <1>1, <3>1
      <3> HIDE DEF u, v, L
      <3>5. u = v
        BY <3>1, <3>2, <3>3, <3>4, SeqEqual
      <3> QED BY <3>5 DEF u, v
    <2> QED BY <2>5, <2>6
  <1>3. /\ WordStarts(s) \subseteq 1..Len(s)
        /\ WordStarts(t) \subseteq 1..Len(t)
    BY DEF WordStarts
  <1>4. ASSUME NEW n \in WordStarts(t)
        PROVE  n - 1 \in 1..Len(s) /\ (n - 1) + 1 = n
    <2>1. n # 1
      <3>1. n = 1 => 1 \in 1..Len(t) /\ 1 \in n..Len(t)
        BY <1>1
      <3> QED BY <1>1, <3>1 DEF WordStarts
    <2> QED BY <1>1, <1>3, <2>1
  <1>5. Scanned(t) \subseteq Scanned(s)
    <2> SUFFICES ASSUME NEW n \in WordStarts(t)
                 PROVE  SubSeq(t, n, Len(t)) \in Scanned(s)
      BY DEF Scanned
    <2>1. /\ n - 1 \in WordStarts(s)
          /\ SubSeq(t, n, Len(t)) = SubSeq(s, n - 1, Len(s))
      BY <1>2, <1>4
    <2> QED BY <2>1 DEF Scanned
  <1>6. Scanned(s) \subseteq Scanned(t)
    <2> SUFFICES ASSUME NEW n \in WordStarts(s)
                 PROVE  SubSeq(s, n, Len(s)) \in Scanned(t)
      BY DEF Scanned
    <2>1. /\ n + 1 \in WordStarts(t)
          /\ SubSeq(t, n + 1, Len(t)) = SubSeq(s, n, Len(s))
      BY <1>2, <1>3
    <2> QED BY <2>1 DEF Scanned
  <1> QED BY <1>5, <1>6 DEF t

\* A serial number survives its URI: whatever bytes it has, what parse_hplp_uri
\* finds in the URI made from it is the product and the serial number.
THEOREM UriRoundTrip ==
  ASSUME NEW product, NEW s \in Seq(Bytes), s # <<>>, Len(s) < SerialSize
  PROVE  parse_hplp_uri(UriOf(product, s))
            = {[product |-> product, serial |-> s]}
  <1> DEFINE N == Len(s)
             e == Encoded(s, N)
  <1>1. N \in Nat \ {0} /\ N \in 0..N /\ 0 \in 0..N /\ N < SerialSize
    OBVIOUS
  <1>2. UriOf(product, s) = [product |-> product, serial |-> e]
    BY EncodesWhole DEF UriOf
  <1>3. /\ e \in Seq(Bytes) /\ Len(e) \in N..(3 * N)
        /\ \A i \in 1..Len(e) : e[i] \notin White
    BY <1>1, EncodedIs, EncodedGrows
  <1>4. Rest(e)[1] = {s}
    <2>1. Len(Encoded(s, 0)) + 1 = 1
      BY EncodedIs
    <2>2. SubSeq(s, 0 + 1, N) = s
      OBVIOUS
    <2>3. Rest(e)[Len(Encoded(s, 0)) + 1] = {SubSeq(s, 0 + 1, N)}
      BY <1>1, DecodesRest
    <2> HIDE DEF e
    <2> QED BY <2>1, <2>2, <2>3
  <1>5. uri_decode_component(e) = {s}
    <2>1. Fits(s)
      BY DEF Fits
    <2> HIDE DEF e
    <2> QED BY <1>4, <2>1, DecodeIs
  <1>6. e # <<>> /\ Len(e) < EncodedSize
    <2> HIDE DEF e, N
    <2>1. Len(e) \in Nat /\ Len(e) # 0 /\ Len(e) < 3 * SerialSize
      BY <1>1, <1>3
    <2> QED BY <2>1 DEF EncodedSize
  <1>7. Scanned(e) = {e}
    <2> HIDE DEF e
    <2> QED BY <1>3, <1>6, ScannedWhole
  <1>8. parse_hplp_uri([product |-> product, serial |-> e])
          = {[product |-> product, serial |-> t] : t \in {s}}
    <2> HIDE DEF e
    <2> QED BY <1>5, <1>7 DEF parse_hplp_uri
  <1> QED BY <1>2, <1>8

\* The URIs that hplp_device_list hands to PAPPL tell two printers apart
\* whenever their products or their serial numbers do: none is cut short, and
\* none stands for two.
THEOREM UrisDiffer ==
  ASSUME NEW p, NEW q, NEW s \in Seq(Bytes), NEW t \in Seq(Bytes),
         s # <<>>, Len(s) < SerialSize, t # <<>>, Len(t) < SerialSize,
         UriOf(p, s) = UriOf(q, t)
  PROVE  p = q /\ s = t
  <1>1. /\ parse_hplp_uri(UriOf(p, s)) = {[product |-> p, serial |-> s]}
        /\ parse_hplp_uri(UriOf(q, t)) = {[product |-> q, serial |-> t]}
    BY UriRoundTrip
  <1>2. [product |-> p, serial |-> s] = [product |-> q, serial |-> t]
    BY <1>1
  <1>3. /\ [product |-> p, serial |-> s].product = p
        /\ [product |-> p, serial |-> s].serial = s
        /\ [product |-> q, serial |-> t].product = q
        /\ [product |-> q, serial |-> t].serial = t
    OBVIOUS
  <1> QED BY <1>2, <1>3

\* Whatever a user writes behind "serial=": it asks for one printer at most, by
\* a serial number that is a string of the buffer's size and never the empty
\* one; and white space in front of it makes no difference.
THEOREM ParsedIsOne ==
  ASSUME NEW product, NEW s \in Seq(Bytes)
  PROVE  LET parsed(w) ==
                 parse_hplp_uri([product |-> product, serial |-> w])
         IN  /\ AtMostOne(parsed(s))
             /\ \A r \in parsed(s) :
                   /\ r = [product |-> product, serial |-> r.serial]
                   /\ r.serial \in Seq(Bytes)
                   /\ r.serial # <<>>
                   /\ Len(r.serial) < SerialSize
             /\ \A b \in Bytes \cap White : parsed(<<b>> \o s) = parsed(s)
  <1> DEFINE parsed(w) == parse_hplp_uri([product |-> product, serial |-> w])
             D == UNION {uri_decode_component(e) : e \in Scanned(s)}
  <1>1. \A w : parsed(w) =
           {[product |-> product, serial |-> t] :
               t \in UNION {uri_decode_component(e) : e \in Scanned(w)}}
    BY DEF parse_hplp_uri
  <1>2. AtMostOne(Scanned(s)) /\ Scanned(s) \in SUBSET Seq(Bytes)
    BY ScannedIs
  <1>3. ASSUME NEW e \in Scanned(s)
        PROVE  /\ AtMostOne(uri_decode_component(e))
               /\ \A t \in uri_decode_component(e) : t \in Seq(Bytes) /\ Fits(t)
    <2>1. e \in Seq(Bytes) /\ 1 \in Nat \ {0}
      BY <1>2
    <2>2. Rest(e)[1] \in SUBSET Seq(Bytes) /\ AtMostOne(Rest(e)[1])
      BY <2>1, RestIs
    <2>3. uri_decode_component(e) = {t \in Rest(e)[1] : Fits(t)}
      BY DecodeIs
    <2> QED BY <2>2, <2>3 DEF AtMostOne
  <1>4. AtMostOne(D) /\ \A t \in D : t \in Seq(Bytes) /\ Fits(t)
    BY <1>2, <1>3 DEF AtMostOne
  <1>5. parsed(s) = {[product |-> product, serial |-> t] : t \in D}
    BY <1>1
  <1> HIDE DEF D
  <1>6. AtMostOne(parsed(s))
    BY <1>4, <1>5 DEF AtMostOne
  <1>7. \A r \in parsed(s) :
           /\ r = [product |-> product, serial |-> r.serial]
           /\ r.serial \in Seq(Bytes)
           /\ r.serial # <<>>
           /\ Len(r.serial) < SerialSize
    BY <1>4, <1>5 DEF Fits
  <1>8. ASSUME NEW b \in Bytes \cap White
        PROVE  parsed(<<b>> \o s) = parsed(s)
    <2>1. Scanned(<<b>> \o s) = Scanned(s)
      BY ScannedSkips
    <2> QED BY <1>1, <2>1
  <1> QED BY <1>6, <1>7, <1>8
=============================================================================
