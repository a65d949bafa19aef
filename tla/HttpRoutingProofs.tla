--------------------------- MODULE HttpRoutingProofs ---------------------------
(***************************************************************************)
(* Proofs about HttpRouting: what is escaped comes back from one decoding, *)
(* and each request gets to the handler and the answer it should.          *)
(***************************************************************************)
EXTENDS HttpRouting, SequenceInduction

--------------------------------------------------------------------------------
(***************************************************************************)
(* PathUnescape: f[i] is what the text from i on is decoded to.            *)
(***************************************************************************)
Decoded(f, text, i) ==
    CASE i > Len(text) -> << >>
      [] i <= Len(text) /\ IsEscape(text, i) ->
            Then(Unhex(<<text[i + 1], text[i + 2]>>), f[i + 3])
      [] i <= Len(text) /\ ~IsEscape(text, i) /\ text[i] = "%" -> Invalid
      [] OTHER -> Then(text[i], f[i + 1])

IsUnescape(f, text, first) ==
    f = [i \in first..(Len(text) + 1) |-> Decoded(f, text, i)]

LEMMA DecodedByCases ==
    ASSUME NEW f, NEW text, NEW i \in Int, Len(text) \in Int
    PROVE  /\ i > Len(text) => Decoded(f, text, i) = << >>
           /\ i <= Len(text) /\ IsEscape(text, i) =>
                Decoded(f, text, i) = Then(Unhex(<<text[i + 1], text[i + 2]>>), f[i + 3])
           /\ i <= Len(text) /\ ~IsEscape(text, i) /\ text[i] = "%" =>
                Decoded(f, text, i) = Invalid
           /\ i <= Len(text) /\ ~IsEscape(text, i) /\ text[i] # "%" =>
                Decoded(f, text, i) = Then(text[i], f[i + 1])
BY DEF Decoded

LEMMA DecodedAlike ==
    ASSUME NEW f, NEW text, NEW i \in Int, Len(text) \in Int,
           NEW g, NEW end, NEW j \in Int, Len(end) \in Int,
           i <= Len(end) <=> j <= Len(text),
           i <= Len(end) => text[j] = end[i] /\ f[j + 1] = g[i + 1],
           i <= Len(end) => (IsEscape(text, j) <=> IsEscape(end, i)),
           i + 2 <= Len(end) =>
               text[j + 1] = end[i + 1] /\ text[j + 2] = end[i + 2] /\ f[j + 3] = g[i + 3]
    PROVE  Decoded(g, end, i) = Decoded(f, text, j)
<1>1. CASE i > Len(end)
  <2>1. j > Len(text)
      BY <1>1
  <2>2. Decoded(g, end, i) = << >>
      BY <1>1 DEF Decoded
  <2>3. Decoded(f, text, j) = << >>
      BY <2>1 DEF Decoded
  <2> QED  BY <2>2, <2>3
<1>2. CASE i <= Len(end) /\ IsEscape(end, i)
  <2>1. i + 2 <= Len(end)
      BY <1>2 DEF IsEscape
  <2>2. Decoded(g, end, i) = Then(Unhex(<<end[i + 1], end[i + 2]>>), g[i + 3])
      BY <1>2, DecodedByCases
  <2>3. Decoded(f, text, j) = Then(Unhex(<<text[j + 1], text[j + 2]>>), f[j + 3])
      BY <1>2, DecodedByCases
  <2> QED  BY <2>1, <2>2, <2>3
<1>3. CASE i <= Len(end) /\ ~IsEscape(end, i) /\ end[i] = "%"
  <2>1. Decoded(g, end, i) = Invalid /\ Decoded(f, text, j) = Invalid
      BY <1>3, DecodedByCases
  <2> QED  BY <2>1
<1>4. CASE i <= Len(end) /\ ~IsEscape(end, i) /\ end[i] # "%"
  <2>1. Decoded(g, end, i) = Then(end[i], g[i + 1])
      BY <1>4, DecodedByCases
  <2>2. Decoded(f, text, j) = Then(text[j], f[j + 1])
      BY <1>4, DecodedByCases
  <2> QED  BY <1>4, <2>1, <2>2
<1> QED  BY <1>1, <1>2, <1>3, <1>4

\* The decoding can be built from the end of the text on.
LEMMA UnescapeExists ==
    ASSUME NEW text, Len(text) \in Nat
    PROVE  \A n \in Nat : \E f : IsUnescape(f, text, Len(text) + 1 - n)
<1> DEFINE L == Len(text) + 1
           S == {n \in Nat : \E f : IsUnescape(f, text, L - n)}
<1>1. 0 \in S
  <2> DEFINE f == [i \in L..L |-> << >>]
  <2>1. ASSUME NEW i \in L..L PROVE f[i] = Decoded(f, text, i)
    <3>1. i > Len(text) /\ f[i] = << >>
        OBVIOUS
    <3> QED  BY <3>1 DEF Decoded
  <2>2. f = [i \in L..L |-> f[i]]
      OBVIOUS
  <2> HIDE DEF f
  <2>3. IsUnescape(f, text, L)
      BY <2>1, <2>2, Zenon DEF IsUnescape
  <2>4. L - 0 = L
      OBVIOUS
  <2> QED  BY <2>3, <2>4
<1>2. ASSUME NEW n \in Nat, n \in S PROVE n + 1 \in S
  <2>1. PICK f : IsUnescape(f, text, L - n)
      BY <1>2
  <2> DEFINE k == L - (n + 1)
             g == [i \in k..L |-> IF i = k THEN Decoded(f, text, k) ELSE f[i]]
  <2>0. k \in Int /\ k + 1 = L - n /\ L \in Nat
      OBVIOUS
  <2>2. ASSUME NEW i \in k..L PROVE Decoded(g, text, i) = Decoded(f, text, i)
    <3>1. IsEscape(text, i) => i + 2 <= Len(text)
        BY DEF IsEscape
    <3>2. i <= Len(text) => g[i + 1] = f[i + 1]
        BY <2>0
    <3>3. i + 2 <= Len(text) => g[i + 3] = f[i + 3]
        BY <2>0
    <3> HIDE DEF g
    <3> QED  BY <3>1, <3>2, <3>3, <2>0 DEF Decoded
  <2>3. ASSUME NEW i \in k..L PROVE g[i] = Decoded(g, text, i)
    <3>1. CASE i = k
        BY <2>2, <3>1
    <3>2. CASE i # k
      <4>1. i \in (L - n)..L
          BY <2>0, <3>2
      <4>2. f[i] = Decoded(f, text, i)
          BY <2>1, <4>1 DEF IsUnescape
      <4> QED  BY <2>2, <3>2, <4>2
    <3> QED  BY <3>1, <3>2
  <2>4. g = [i \in k..L |-> g[i]]
      OBVIOUS
  <2> HIDE DEF g
  <2>5. IsUnescape(g, text, k)
      BY <2>3, <2>4, Zenon DEF IsUnescape
  <2> QED  BY <2>5
<1> HIDE DEF S
<1>3. \A n \in Nat : n \in S
    BY <1>1, <1>2, SetInduction
<1> QED  BY <1>3 DEF S

LEMMA UnescapeUnfolded ==
    ASSUME NEW text, Len(text) \in Nat
    PROVE  \E f : IsUnescape(f, text, 1) /\ PathUnescape(text) = f[1]
<1> DEFINE f == CHOOSE f : IsUnescape(f, text, 1)
<1>1. \E g : IsUnescape(g, text, 1)
  <2>1. Len(text) + 1 - Len(text) = 1
      OBVIOUS
  <2> QED  BY <2>1, UnescapeExists
<1>2. IsUnescape(f, text, 1)
    BY <1>1
<1>3. PathUnescape(text) = f[1]
    BY DEF PathUnescape, IsUnescape, Decoded
<1> QED  BY <1>2, <1>3

\* A text is decoded the same wherever it stands at the end of another.
LEMMA UnescapeOfEnd ==
    ASSUME NEW text, NEW end, NEW k \in Nat, Len(end) \in Nat, Len(text) = Len(end) + k,
           \A i \in 1..Len(end) : text[i + k] = end[i],
           NEW f, IsUnescape(f, text, 1)
    PROVE  PathUnescape(end) = f[k + 1]
<1>1. PICK g : IsUnescape(g, end, 1) /\ PathUnescape(end) = g[1]
    BY UnescapeUnfolded
<1> DEFINE L == Len(end) + 1
           S == {n \in Nat : L - n \in 1..L => f[(L - n) + k] = g[L - n]}
<1>2. ASSUME NEW n \in Nat, \A m \in 0..(n - 1) : m \in S PROVE n \in S
  <2> SUFFICES ASSUME L - n \in 1..L PROVE f[(L - n) + k] = g[L - n]
      OBVIOUS
  <2> DEFINE i == L - n
  <2>1. /\ i \in 1..L /\ i + k \in 1..(Len(text) + 1)
        /\ (i > Len(end)) <=> (i + k > Len(text))
        /\ (i <= Len(end)) <=> (i + k <= Len(text))
        /\ (i + 2 <= Len(end)) <=> (i + k + 2 <= Len(text))
      OBVIOUS
  <2>2. g[i] = Decoded(g, end, i)
      BY <1>1, <2>1 DEF IsUnescape
  <2>3. f[i + k] = Decoded(f, text, i + k)
      BY <2>1 DEF IsUnescape
  <2>9. ASSUME NEW j \in (i + 1)..L PROVE f[j + k] = g[j]
    <3>1. L - j \in 0..(n - 1) /\ L - (L - j) = j /\ j \in 1..L
        OBVIOUS
    <3>2. L - j \in S
        BY <1>2, <3>1
    <3> QED  BY <3>1, <3>2
  <2> HIDE DEF S
  <2>4. i <= Len(end) => text[i + k] = end[i] /\ f[(i + k) + 1] = g[i + 1]
    <3> SUFFICES ASSUME i <= Len(end) PROVE f[(i + k) + 1] = g[i + 1]
        OBVIOUS
    <3>1. i + 1 \in (i + 1)..L /\ (i + 1) + k = (i + k) + 1
        OBVIOUS
    <3>2. f[(i + 1) + k] = g[i + 1]
        BY <2>9, <3>1
    <3> QED  BY <3>1, <3>2
  <2>5. i + 2 <= Len(end) =>
            /\ text[(i + k) + 1] = end[i + 1] /\ text[(i + k) + 2] = end[i + 2]
            /\ f[(i + k) + 3] = g[i + 3]
    <3> SUFFICES ASSUME i + 2 <= Len(end)
                 PROVE  /\ text[(i + k) + 1] = end[i + 1] /\ text[(i + k) + 2] = end[i + 2]
                        /\ f[(i + k) + 3] = g[i + 3]
        OBVIOUS
    <3>1. i + 3 \in (i + 1)..L /\ (i + 3) + k = (i + k) + 3
        OBVIOUS
    <3>2. f[(i + 3) + k] = g[i + 3]
        BY <2>9, <3>1
    <3>3. /\ i + 1 \in 1..Len(end) /\ (i + 1) + k = (i + k) + 1
          /\ i + 2 \in 1..Len(end) /\ (i + 2) + k = (i + k) + 2
        OBVIOUS
    <3>4. text[(i + 1) + k] = end[i + 1] /\ text[(i + 2) + k] = end[i + 2]
        BY <3>3
    <3> QED  BY <3>1, <3>2, <3>3, <3>4
  <2>6. i <= Len(end) => (IsEscape(text, i + k) <=> IsEscape(end, i))
      BY <2>1, <2>4, <2>5 DEF IsEscape
  <2>7. IsEscape(end, i) => i + 2 <= Len(end)
      BY DEF IsEscape
  <2>8. Decoded(g, end, i) = Decoded(f, text, i + k)
    <3>1. i \in Int /\ i + k \in Int /\ Len(text) \in Int /\ Len(end) \in Int
        BY <2>1
    <3> QED  BY ONLY <2>1, <2>4, <2>5, <2>6, <3>1, DecodedAlike
  <2> QED  BY <2>2, <2>3, <2>8 DEF i
<1> HIDE DEF S
<1>3. \A n \in Nat : n \in S
    BY <1>2, StrongInduction
<1>4. Len(end) \in Nat /\ L - Len(end) = 1 /\ 1 \in 1..L /\ 1 + k = k + 1
    OBVIOUS
<1>5. Len(end) \in S
    BY <1>3
<1> QED  BY <1>1, <1>4, <1>5 DEF S

LEMMA TextIsNotInvalid ==
    ASSUME NEW t \in Texts PROVE t # Invalid
<1> DEFINE bad == <<"invalid">>
<1>1. Len(bad) = 1 /\ bad[1] = "invalid"
    OBVIOUS
<1> HIDE DEF bad
<1>2. ASSUME t = bad PROVE FALSE
  <2>1. t \in Seq(Chars)
      BY DEF Texts
  <2>2. t[1] \in Chars
      BY <1>1, <1>2, <2>1, ElementOfSeq
  <2> QED  BY <1>1, <1>2, <2>2, CharsAssumption
<1> QED  BY <1>2 DEF Invalid, bad

\* A character that is no percent sign stands for itself.
LEMMA UnescapePlain ==
    ASSUME NEW c \in Chars, c # "%", NEW u \in Texts
    PROVE  PathUnescape(<<c>> \o u) = Then(c, PathUnescape(u))
<1> DEFINE t == <<c>> \o u
<1>1. Len(u) \in Nat /\ Len(t) = Len(u) + 1 /\ t[1] = c /\ \A i \in 1..Len(u) : t[i + 1] = u[i]
    BY DEF Texts
<1> HIDE DEF t
<1>2. PICK f : IsUnescape(f, t, 1) /\ PathUnescape(t) = f[1]
    BY <1>1, UnescapeUnfolded
<1>3. PathUnescape(u) = f[1 + 1]
    BY <1>1, <1>2, UnescapeOfEnd
<1>4. f[1] = Decoded(f, t, 1)
    BY <1>1, <1>2 DEF IsUnescape
<1>5. ~IsEscape(t, 1) /\ t[1] # "%" /\ 1 <= Len(t) /\ Len(t) \in Int
    BY <1>1 DEF IsEscape
<1>6. Decoded(f, t, 1) = Then(t[1], f[1 + 1])
    BY <1>5 DEF Decoded
<1> QED  BY <1>1, <1>2, <1>3, <1>4, <1>6 DEF t

LEMMA UnescapeTriple ==
    ASSUME NEW c, NEW d \in HexDigits, NEW e \in HexDigits, Unhex(<<d, e>>) = c, NEW u \in Texts
    PROVE  PathUnescape(<<"%", d, e>> \o u) = Then(c, PathUnescape(u))
<1> DEFINE t == <<"%", d, e>> \o u
<1>1. /\ Len(u) \in Nat /\ Len(t) = Len(u) + 3 /\ t[1] = "%" /\ t[2] = d /\ t[3] = e
      /\ \A i \in 1..Len(u) : t[i + 3] = u[i]
    BY DEF Texts, HexDigits
<1> HIDE DEF t
<1>2. PICK f : IsUnescape(f, t, 1) /\ PathUnescape(t) = f[1]
    BY <1>1, UnescapeUnfolded
<1>3. PathUnescape(u) = f[3 + 1]
    BY <1>1, <1>2, UnescapeOfEnd
<1>4. f[1] = Decoded(f, t, 1)
    BY <1>1, <1>2 DEF IsUnescape
<1>5. IsEscape(t, 1)
    BY <1>1 DEF IsEscape
<1>6. Decoded(f, t, 1) = Then(Unhex(<<t[1 + 1], t[1 + 2]>>), f[1 + 3])
    BY <1>1, <1>5, DecodedByCases
<1> QED  BY <1>1, <1>2, <1>3, <1>4, <1>6 DEF t

LEMMA UnescapeEscaped ==
    ASSUME NEW c \in Chars, NEW u \in Texts
    PROVE  PathUnescape(Escaped(c) \o u) = Then(c, PathUnescape(u))
<1>1. CASE c = "%"
  <2>1. Escaped(c) = <<"%", "2", "5">> /\ Unhex(<<"2", "5">>) = c
      BY <1>1 DEF Escaped, Unhex
  <2> QED  BY <2>1, UnescapeTriple DEF HexDigits
<1>2. CASE c = "/"
  <2>1. Escaped(c) = <<"%", "2", "F">> /\ Unhex(<<"2", "F">>) = c
      BY <1>2 DEF Escaped, Unhex
  <2> QED  BY <2>1, UnescapeTriple DEF HexDigits
<1>3. CASE c = " "
  <2>1. Escaped(c) = <<"%", "2", "0">> /\ Unhex(<<"2", "0">>) = c
      BY <1>3 DEF Escaped, Unhex
  <2> QED  BY <2>1, UnescapeTriple DEF HexDigits
<1>4. CASE c \notin {"%", "/", " "}
  <2>1. Escaped(c) = <<c>>
      BY <1>4 DEF Escaped
  <2> QED  BY <1>4, <2>1, UnescapePlain
<1> QED  BY <1>1, <1>2, <1>3, <1>4

--------------------------------------------------------------------------------
(***************************************************************************)
(* What a client escapes is decoded to what it was.                        *)
(***************************************************************************)
LEMMA EscapedIsText == ASSUME NEW c \in Chars PROVE Escaped(c) \in Texts
<1>1. Texts = Seq(Chars)
    BY DEF Texts
<1>2. Escaped(c) \in {<<"%", "2", "5">>, <<"%", "2", "F">>, <<"%", "2", "0">>, <<c>>}
  <2>1. CASE c = "%"
      BY <2>1 DEF Escaped
  <2>2. CASE c = "/"
      BY <2>2 DEF Escaped
  <2>3. CASE c = " "
      BY <2>3 DEF Escaped
  <2>4. CASE c \notin {"%", "/", " "}
      BY <2>4 DEF Escaped
  <2> QED  BY <2>1, <2>2, <2>3, <2>4
<1>3. \A a, b, d \in Chars : <<a, b, d>> \in Seq(Chars)
    OBVIOUS
<1>4. <<c>> \in Seq(Chars)
    OBVIOUS
<1>5. "%" \in Chars /\ "2" \in Chars /\ "5" \in Chars /\ "F" \in Chars /\ "0" \in Chars
    BY CharsAssumption
<1>6. /\ <<"%", "2", "5">> \in Seq(Chars) /\ <<"%", "2", "F">> \in Seq(Chars)
      /\ <<"%", "2", "0">> \in Seq(Chars)
    BY <1>3, <1>5
<1> QED  BY <1>1, <1>2, <1>4, <1>6, Zenon

LEMMA EscapeFirst ==
    ASSUME NEW t \in Texts, t # << >>
    PROVE  /\ t[1] \in Chars /\ Tail(t) \in Texts /\ Len(t) = Len(Tail(t)) + 1
           /\ t = <<t[1]>> \o Tail(t)
           /\ PathEscape(t) = Escaped(t[1]) \o PathEscape(Tail(t))
           /\ PathEscape(Tail(t)) \in Texts
<1> DEFINE u == Tail(t)
           E(v) == [i \in DOMAIN v |-> Escaped(v[i])]
<1>1. Texts = Seq(Chars)
    BY DEF Texts
<1>2. /\ t \in Seq(Chars) /\ u \in Seq(Chars) /\ Len(t) \in Nat \ {0} /\ Len(u) = Len(t) - 1
      /\ \A i \in 1..Len(u) : u[i] = t[i + 1]
    BY <1>1, HeadTailProperties, EmptySeq
<1>3. t[1] \in Chars
    BY <1>2
<1>4. t = <<t[1]>> \o u
  <2>1. <<t[1]>> \in Seq(Chars) /\ Len(<<t[1]>>) = 1 /\ <<t[1]>>[1] = t[1]
      BY <1>3
  <2> DEFINE a == <<t[1]>>
  <2> HIDE DEF u, a
  <2>2. a \o u \in Seq(Chars) /\ Len(a \o u) = Len(t)
      BY <1>2, <2>1 DEF a
  <2>3. ASSUME NEW i \in 1..Len(t) PROVE t[i] = (a \o u)[i]
    <3>1. CASE i = 1
        BY <1>2, <2>1, <3>1 DEF a
    <3>2. CASE i # 1
      <4>1. i - 1 \in 1..Len(u) /\ u[i - 1] = t[i]
          BY <1>2, <3>2
      <4> QED  BY <1>2, <2>1, <3>2, <4>1 DEF a
    <3> QED  BY <3>1, <3>2
  <2>4. t = a \o u
      BY <1>2, <2>2, <2>3, SeqEqual
  <2> QED  BY <2>4 DEF a
<1>5. /\ E(t) \in Seq(Seq(Chars)) /\ E(u) \in Seq(Seq(Chars))
      /\ Len(E(t)) = Len(t) /\ Len(E(u)) = Len(u)
      /\ \A i \in 1..Len(t) : E(t)[i] = Escaped(t[i])
      /\ \A i \in 1..Len(u) : E(u)[i] = Escaped(u[i])
    BY <1>1, <1>2, EscapedIsText
<1>6. E(t) = <<Escaped(t[1])>> \o E(u)
  <2> DEFINE et == E(t)
             eu == E(u)
             e == Escaped(t[1])
             T == Seq(Chars)
  <2>1. e \in T
      BY <1>1, <1>3, EscapedIsText
  <2>2. /\ et \in Seq(T) /\ eu \in Seq(T) /\ Len(et) = Len(eu) + 1 /\ Len(eu) \in Nat
        /\ et[1] = e /\ \A i \in 1..Len(eu) : eu[i] = et[i + 1]
      BY <1>2, <1>5
  <2> HIDE DEF et, eu, e, T, u, E
  <2>3. <<e>> \o eu \in Seq(T) /\ Len(<<e>> \o eu) = Len(et)
      BY <2>1, <2>2
  <2>4. ASSUME NEW i \in 1..Len(et) PROVE et[i] = (<<e>> \o eu)[i]
    <3>1. CASE i = 1
        BY <2>1, <2>2, <3>1
    <3>2. CASE i # 1
      <4>1. i - 1 \in 1..Len(eu) /\ eu[i - 1] = et[i]
          BY <2>2, <3>2
      <4> QED  BY <2>1, <2>2, <3>2, <4>1
    <3> QED  BY <3>1, <3>2
  <2>5. et = <<e>> \o eu
      BY <2>2, <2>3, <2>4, SeqEqual
  <2> QED  BY <2>5 DEF et, eu, e
<1>7. FlattenSeq(E(t)) = Escaped(t[1]) \o FlattenSeq(E(u))
    BY <1>1, <1>3, <1>5, <1>6, EscapedIsText, FlattenFront
<1>8. FlattenSeq(E(u)) \in Seq(Chars)
    BY <1>5, FlattenTyped
<1>9. PathEscape(t) = FlattenSeq(E(t)) /\ PathEscape(u) = FlattenSeq(E(u))
    BY Zenon DEF PathEscape
<1>10. Len(t) = Len(u) + 1
    BY <1>2
<1> HIDE DEF E
<1> QED  BY <1>1, <1>2, <1>3, <1>4, <1>7, <1>8, <1>9, <1>10

\* Decoding takes the escapes of a text away, whatever follows it.
LEMMA UnescapeOfEscape ==
    ASSUME NEW t \in Texts, NEW u \in Texts, PathUnescape(u) \in Texts
    PROVE  PathUnescape(PathEscape(t) \o u) = t \o PathUnescape(u)
<1> DEFINE Good == {n \in Nat : \A s \in Texts :
                        Len(s) = n => PathUnescape(PathEscape(s) \o u) = s \o PathUnescape(u)}
           v == PathUnescape(u)
<1>0. Texts = Seq(Chars)
    BY DEF Texts
<1>1. 0 \in Good
  <2> SUFFICES ASSUME NEW s \in Texts, Len(s) = 0
               PROVE  PathUnescape(PathEscape(s) \o u) = s \o PathUnescape(u)
      OBVIOUS
  <2>1. s = << >>
      BY <1>0, EmptySeq
  <2>2. PathEscape(s) = << >>
      BY <2>1 DEF PathEscape, FlattenSeq
  <2>3. << >> \o u = u /\ << >> \o v = v
      BY <1>0, ConcatEmptySeq
  <2> QED  BY <2>1, <2>2, <2>3
<1>2. ASSUME NEW n \in Nat, n \in Good PROVE n + 1 \in Good
  <2> SUFFICES ASSUME NEW s \in Texts, Len(s) = n + 1
               PROVE  PathUnescape(PathEscape(s) \o u) = s \o PathUnescape(u)
      OBVIOUS
  <2>1. s # << >>
      BY <1>0, EmptySeq
  <2> DEFINE c == s[1]
             r == Tail(s)
  <2>2. /\ c \in Chars /\ r \in Texts /\ Len(r) = n /\ s = <<c>> \o r
        /\ PathEscape(s) = Escaped(c) \o PathEscape(r) /\ PathEscape(r) \in Texts
    <3> HIDE DEF Good, v
    <3>1. Len(r) \in Nat
        BY <1>0, <2>1, HeadTailProperties
    <3>2. /\ c \in Chars /\ r \in Texts /\ Len(s) = Len(r) + 1 /\ s = <<c>> \o r
          /\ PathEscape(s) = Escaped(c) \o PathEscape(r) /\ PathEscape(r) \in Texts
        BY <2>1, EscapeFirst
    <3> QED  BY <3>1, <3>2
  <2> HIDE DEF c, r
  <2>3. PathUnescape(PathEscape(r) \o u) = r \o v
      BY <1>2, <2>2
  <2> HIDE DEF Good, v
  <2>4. v \in Texts
      BY DEF v
  <2>5. PathEscape(r) \o u \in Texts /\ r \o v \in Texts
      BY <1>0, <2>2, <2>4
  <2>6. PathUnescape(Escaped(c) \o (PathEscape(r) \o u)) = Then(c, r \o v)
      BY <2>2, <2>3, <2>5, UnescapeEscaped
  <2>7. Then(c, r \o v) = <<c>> \o (r \o v)
      BY <2>5, TextIsNotInvalid DEF Then
  <2>8. Escaped(c) \o (PathEscape(r) \o u) = PathEscape(s) \o u
    <3> DEFINE a == Escaped(c)
               b == PathEscape(r)
    <3>1. a \in Seq(Chars) /\ b \in Seq(Chars) /\ u \in Seq(Chars)
        BY <1>0, <2>2, EscapedIsText
    <3> HIDE DEF a, b
    <3>2. (a \o b) \o u = a \o (b \o u)
        BY ONLY <3>1, Associative
    <3> QED  BY <2>2, <3>2 DEF a, b
  <2>9. <<c>> \o (r \o v) = s \o v
    <3> DEFINE a == <<c>>
    <3>1. a \in Seq(Chars) /\ r \in Seq(Chars) /\ v \in Seq(Chars)
        BY <1>0, <2>2, <2>4
    <3> HIDE DEF a
    <3>2. (a \o r) \o v = a \o (r \o v)
        BY ONLY <3>1, Associative
    <3> QED  BY <2>2, <3>2 DEF a
  <2> QED  BY <2>6, <2>7, <2>8, <2>9 DEF v
<1> HIDE DEF Good
<1>3. \A n \in Nat : n \in Good
    BY <1>1, <1>2, SetInduction
<1>4. Len(t) \in Nat
    BY <1>0
<1> QED  BY <1>3, <1>4 DEF Good

LEMMA UnescapeNothing == PathUnescape(<< >>) = << >>
<1> DEFINE e == << >>
<1>1. Len(e) = 0
    OBVIOUS
<1> HIDE DEF e
<1>2. PICK f : IsUnescape(f, e, 1) /\ PathUnescape(e) = f[1]
    BY <1>1, UnescapeUnfolded
<1>3. f[1] = Decoded(f, e, 1)
    BY <1>1, <1>2 DEF IsUnescape
<1>4. Decoded(f, e, 1) = << >>
    BY <1>1 DEF Decoded
<1> QED  BY <1>2, <1>3, <1>4 DEF e

\* Without a percent sign there is nothing to decode.
LEMMA UnescapeWithoutPercent ==
    ASSUME NEW t \in Texts, ~Has(t, "%") PROVE PathUnescape(t) = t
<1> DEFINE Good == {n \in Nat : \A s \in Texts :
                        Len(s) = n /\ ~Has(s, "%") => PathUnescape(s) = s}
<1>0. Texts = Seq(Chars)
    BY DEF Texts
<1>1. 0 \in Good
  <2>1. ASSUME NEW s \in Texts, Len(s) = 0 PROVE s = << >>
      BY <1>0, <2>1, EmptySeq
  <2> QED  BY <2>1, UnescapeNothing
<1>2. ASSUME NEW n \in Nat, n \in Good PROVE n + 1 \in Good
  <2> SUFFICES ASSUME NEW s \in Texts, Len(s) = n + 1, ~Has(s, "%") PROVE PathUnescape(s) = s
      OBVIOUS
  <2>1. s # << >> /\ DOMAIN s = 1..(n + 1)
      BY <1>0, EmptySeq
  <2> DEFINE c == s[1]
             r == Tail(s)
  <2>2. c \in Chars /\ r \in Texts /\ Len(r) = n /\ s = <<c>> \o r
      BY <1>0, <2>1, EscapeFirst
  <2>3. c # "%"
      BY <2>1 DEF Has
  <2>4. ~Has(r, "%")
    <3>1. DOMAIN r = 1..n /\ \A i \in 1..n : r[i] = s[i + 1]
        BY <1>0, <2>1, <2>2, HeadTailProperties
    <3> QED  BY <2>1, <3>1 DEF Has
  <2> HIDE DEF c, r
  <2>5. PathUnescape(r) = r
      BY <1>2, <2>2, <2>4
  <2>6. PathUnescape(<<c>> \o r) = Then(c, r)
      BY <2>2, <2>3, <2>5, UnescapePlain
  <2> QED  BY <2>2, <2>6, TextIsNotInvalid DEF Then
<1> HIDE DEF Good
<1>3. \A n \in Nat : n \in Good
    BY <1>1, <1>2, SetInduction
<1>4. Len(t) \in Nat
    BY <1>0
<1> QED  BY <1>3, <1>4 DEF Good

--------------------------------------------------------------------------------
(***************************************************************************)
(* The beginning of a path up to a slash is decoded by itself: no escape   *)
(* goes across the slash.                                                  *)
(***************************************************************************)
\* What decoding can write
DecodedChars == Chars \cup {"?"}

\* Before a character that can be written
LEMMA ThenTyped ==
    ASSUME NEW c \in DecodedChars, NEW rest, rest # Invalid => rest \in Seq(DecodedChars),
           Then(c, rest) # Invalid
    PROVE  rest \in Seq(DecodedChars) /\ Then(c, rest) = <<c>> \o rest
BY DEF Then

LEMMA UnhexTyped == ASSUME NEW digits PROVE Unhex(digits) \in DecodedChars
<1>1. /\ digits = <<"2", "5">> => Unhex(digits) = "%"
      /\ digits # <<"2", "5">> /\ digits = <<"2", "F">> => Unhex(digits) = "/"
      /\ digits \notin {<<"2", "5">>, <<"2", "F">>} /\ digits = <<"2", "0">> =>
            Unhex(digits) = " "
      /\ digits \notin {<<"2", "5">>, <<"2", "F">>, <<"2", "0">>} => Unhex(digits) = "?"
    BY DEF Unhex
<1> QED  BY <1>1, CharsAssumption, Zenon DEF DecodedChars

LEMMA DecodedTyped ==
    ASSUME NEW text \in Texts, NEW f, IsUnescape(f, text, 1)
    PROVE  \A i \in 1..(Len(text) + 1) : f[i] # Invalid => f[i] \in Seq(DecodedChars)
<1> DEFINE L == Len(text) + 1
           Typed(i) == f[i] # Invalid => f[i] \in Seq(DecodedChars)
           S == {n \in Nat : L - n \in 1..L => Typed(L - n)}
<1>1. Len(text) \in Nat /\ \A i \in 1..Len(text) : text[i] \in DecodedChars
    BY DEF Texts, DecodedChars
<1>2. ASSUME NEW n \in Nat, \A m \in 0..(n - 1) : m \in S PROVE n \in S
  <2> SUFFICES ASSUME L - n \in 1..L PROVE Typed(L - n)
      OBVIOUS
  <2> DEFINE i == L - n
  <2>1. i \in 1..L /\ i \in Int /\ Len(text) \in Int
      BY <1>1
  <2>2. f[i] = Decoded(f, text, i)
      BY <2>1 DEF IsUnescape
  <2>3. ASSUME NEW j \in (i + 1)..L PROVE Typed(j)
    <3>1. L - j \in 0..(n - 1) /\ L - (L - j) = j /\ j \in 1..L
        BY <1>1
    <3>2. L - j \in S
        BY <1>2, <3>1
    <3> QED  BY <3>1, <3>2
  <2> HIDE DEF S
  <2> SUFFICES ASSUME f[i] # Invalid PROVE f[i] \in Seq(DecodedChars)
      OBVIOUS
  <2>4. CASE i > Len(text)
    <3>1. f[i] = << >>
        BY <2>1, <2>2, <2>4, DecodedByCases
    <3> QED  BY <3>1
  <2>5. CASE i <= Len(text) /\ IsEscape(text, i)
    <3> DEFINE c == Unhex(<<text[i + 1], text[i + 2]>>)
    <3>1. f[i] = Then(c, f[i + 3])
        BY <2>1, <2>2, <2>5, DecodedByCases
    <3>2. i + 3 \in (i + 1)..L
        BY <2>1, <2>5 DEF IsEscape
    <3>3. c \in DecodedChars
        BY UnhexTyped
    <3> HIDE DEF c, i
    <3>4. f[i + 3] \in Seq(DecodedChars) /\ f[i] = <<c>> \o f[i + 3]
        BY <2>3, <3>1, <3>2, <3>3, ThenTyped
    <3> QED  BY <3>3, <3>4
  <2>6. CASE i <= Len(text) /\ ~IsEscape(text, i)
    <3>1. f[i] = Then(text[i], f[i + 1])
        BY <2>1, <2>2, <2>6, DecodedByCases
    <3>2. i + 1 \in (i + 1)..L /\ text[i] \in DecodedChars
        BY <1>1, <2>1, <2>6
    <3> HIDE DEF i
    <3>3. f[i + 1] \in Seq(DecodedChars) /\ f[i] = <<text[i]>> \o f[i + 1]
        BY <2>3, <3>1, <3>2, ThenTyped
    <3> QED  BY <3>2, <3>3
  <2> QED  BY <1>1, <2>1, <2>4, <2>5, <2>6
<1> HIDE DEF S
<1>3. \A n \in Nat : n \in S
    BY <1>2, StrongInduction
<1>4. ASSUME NEW i \in 1..L PROVE Typed(i)
  <2>1. L - i \in Nat /\ L - (L - i) = i
      BY <1>1
  <2>2. L - i \in S
      BY <1>3, <2>1
  <2> QED  BY <2>1, <2>2 DEF S
<1> QED  BY <1>4

LEMMA DecodedIsNotInvalid ==
    ASSUME NEW t \in Seq(DecodedChars) PROVE t # Invalid
<1> DEFINE bad == <<"invalid">>
<1>1. Len(bad) = 1 /\ bad[1] = "invalid"
    OBVIOUS
<1> HIDE DEF bad
<1>2. ASSUME t = bad PROVE FALSE
  <2>1. t[1] \in DecodedChars
      BY <1>1, <1>2, ElementOfSeq
  <2> QED  BY <1>1, <1>2, <2>1, CharsAssumption DEF DecodedChars
<1> QED  BY <1>2 DEF Invalid, bad

\* What the whole text is decoded to begins with what its beginning is.
Extension(front, whole) ==
    whole # Invalid =>
        /\ front \in Seq(DecodedChars)
        /\ \E r \in Seq(DecodedChars) : whole = front \o r

LEMMA ExtendsBy ==
    ASSUME NEW c \in DecodedChars, NEW front, NEW whole, Extension(front, whole)
    PROVE  Extension(Then(c, front), Then(c, whole))
<1> SUFFICES ASSUME Then(c, whole) # Invalid
             PROVE  /\ Then(c, front) \in Seq(DecodedChars)
                    /\ \E r \in Seq(DecodedChars) : Then(c, whole) = Then(c, front) \o r
    BY DEF Extension
<1>1. whole # Invalid /\ front \in Seq(DecodedChars)
    BY DEF Then, Extension
<1>2. PICK r \in Seq(DecodedChars) : whole = front \o r
    BY <1>1 DEF Extension
<1>3. Then(c, whole) = <<c>> \o whole /\ Then(c, front) = <<c>> \o front
    BY <1>1, DecodedIsNotInvalid DEF Then
<1> DEFINE a == <<c>>
<1>4. a \in Seq(DecodedChars)
    OBVIOUS
<1> HIDE DEF a
<1>5. (a \o front) \o r = a \o (front \o r)
    BY ONLY <1>1, <1>4, r \in Seq(DecodedChars), Associative
<1>6. a \o front \in Seq(DecodedChars)
    BY <1>1, <1>4
<1> QED  BY <1>2, <1>3, <1>5, <1>6 DEF a

LEMMA UnescapeFront ==
    ASSUME NEW text \in Texts, NEW k \in 1..Len(text), text[k] = "/",
           PathUnescape(text) # Invalid
    PROVE  IsPrefix(PathUnescape(SubSeq(text, 1, k)), PathUnescape(text))
<1> DEFINE front == SubSeq(text, 1, k)
<1>1. Len(text) \in Nat /\ k \in Nat /\ \A i \in 1..Len(text) : text[i] \in DecodedChars
    BY DEF Texts, DecodedChars
<1>2. Len(front) = k /\ \A i \in 1..k : front[i] = text[i]
    BY <1>1 DEF Texts
<1> HIDE DEF front
<1>3. PICK f : IsUnescape(f, text, 1) /\ PathUnescape(text) = f[1]
    BY <1>1, UnescapeUnfolded
<1>4. PICK g : IsUnescape(g, front, 1) /\ PathUnescape(front) = g[1]
    BY <1>1, <1>2, UnescapeUnfolded
<1> DEFINE L == k + 1
           Extends(i) == Extension(g[i], f[i])
           S == {n \in Nat : L - n \in 1..L => Extends(L - n)}
<1>5. ASSUME NEW n \in Nat, \A m \in 0..(n - 1) : m \in S PROVE n \in S
  <2> SUFFICES ASSUME L - n \in 1..L PROVE Extends(L - n)
      OBVIOUS
  <2> DEFINE i == L - n
  <2>1. i \in 1..L /\ i \in Int /\ i \in 1..(Len(text) + 1)
      BY <1>1
  <2>2. f[i] = Decoded(f, text, i) /\ g[i] = Decoded(g, front, i)
      BY <1>2, <1>3, <1>4, <2>1 DEF IsUnescape
  <2>3. ASSUME NEW j \in (i + 1)..L PROVE Extends(j)
    <3>1. L - j \in 0..(n - 1) /\ L - (L - j) = j /\ j \in 1..L
        BY <1>1
    <3>2. L - j \in S
        BY <1>5, <3>1
    <3> QED  BY <3>1, <3>2
  <2> HIDE DEF S
  <2>9. k \in Int /\ i \in Int /\ Len(text) \in Int /\ Len(front) \in Int /\ Len(front) = k
        /\ k <= Len(text)
      BY <1>1, <1>2, <2>1
  <2>10. /\ i \in 1..L /\ (i = L <=> i > Len(front)) /\ (i # L <=> i <= k)
         /\ i <= k => i <= Len(text) /\ i + 1 \in (i + 1)..L
         /\ i + 2 <= k => i + 3 \in (i + 1)..L
      BY <1>1, <1>2, <2>1
  <2> SUFFICES Extends(i)
      OBVIOUS
  <2> HIDE DEF i, Extends, L
  <2>11. CASE f[i] = Invalid
      BY <2>11 DEF Extends, Extension
  <2>4. CASE i = L
    <3>1. g[i] = << >>
        BY <2>2, <2>4, <2>9, <2>10, DecodedByCases
    <3>2. f[i] # Invalid => f[i] \in Seq(DecodedChars)
        BY <1>3, <2>1, DecodedTyped
    <3>3. f[i] # Invalid => << >> \o f[i] = f[i]
        BY <3>2, ConcatEmptySeq
    <3> QED  BY <3>1, <3>2, <3>3 DEF Extends, Extension
  <2>5. IsEscape(text, i) /\ i <= k => i + 2 <= k
    <3> SUFFICES ASSUME IsEscape(text, i), i <= k PROVE i + 2 <= k
        OBVIOUS
    <3>1. text[i] = "%" /\ text[i + 1] \in HexDigits
        BY DEF IsEscape
    <3>2. i # k /\ i + 1 # k
        BY <3>1 DEF HexDigits
    <3> QED  BY <1>1, <2>1, <3>2
  <2>6. i <= k => (IsEscape(front, i) <=> IsEscape(text, i))
    <3>1. i <= k => front[i] = text[i]
        BY <1>1, <1>2, <2>1
    <3>2. i + 2 <= k => front[i + 1] = text[i + 1] /\ front[i + 2] = text[i + 2]
        BY <1>1, <1>2, <2>1
    <3>3. i + 2 <= k => i + 2 <= Len(text)
        BY <1>1, <2>1
    <3> QED  BY <1>2, <2>5, <3>1, <3>2, <3>3 DEF IsEscape
  <2>7. CASE i <= k /\ IsEscape(text, i)
    <3> DEFINE c == Unhex(<<text[i + 1], text[i + 2]>>)
    <3>1. i + 2 <= k /\ i <= Len(text) /\ i + 3 \in (i + 1)..L
        BY <2>5, <2>7, <2>9, <2>10
    <3>2. f[i] = Then(c, f[i + 3])
        BY <2>2, <2>7, <2>9, <3>1, DecodedByCases
    <3>3. g[i] = Then(c, g[i + 3])
      <4>1. g[i] = Then(Unhex(<<front[i + 1], front[i + 2]>>), g[i + 3])
          BY <2>2, <2>6, <2>7, <2>9, DecodedByCases
      <4>2. front[i + 1] = text[i + 1] /\ front[i + 2] = text[i + 2]
          BY <1>1, <1>2, <2>1, <3>1
      <4> QED  BY <4>1, <4>2
    <3>4. c \in DecodedChars
        BY UnhexTyped
    <3> HIDE DEF c
    <3>5. Extends(i + 3)
        BY <2>3, <3>1
    <3> QED  BY <3>2, <3>3, <3>4, <3>5, ExtendsBy DEF Extends
  <2>8. CASE i <= k /\ ~IsEscape(text, i) /\ f[i] # Invalid
    <3>1. text[i] \in DecodedChars /\ front[i] = text[i] /\ i <= Len(text)
          /\ i + 1 \in (i + 1)..L
        BY <1>1, <1>2, <2>1, <2>8, <2>9, <2>10
    <3>2. text[i] # "%" /\ f[i] = Then(text[i], f[i + 1])
        BY <2>2, <2>8, <2>9, <3>1, DecodedByCases
    <3>3. g[i] = Then(text[i], g[i + 1])
      <4>1. ~IsEscape(front, i) /\ front[i] # "%"
          BY <2>6, <2>8, <3>1, <3>2
      <4> QED  BY <2>2, <2>8, <2>9, <3>1, <4>1, DecodedByCases
    <3>4. Extends(i + 1)
        BY <2>3, <3>1
    <3> QED  BY <3>1, <3>2, <3>3, <3>4, ExtendsBy DEF Extends
  <2> QED  BY <2>4, <2>7, <2>8, <2>10, <2>11
<1> HIDE DEF S
<1>6. \A n \in Nat : n \in S
    BY <1>5, StrongInduction
<1>7. L - k = 1 /\ 1 \in 1..L /\ k \in S
    BY <1>1, <1>6
<1>8. Extends(1)
    BY <1>7 DEF S
<1> HIDE DEF L
<1>9. PICK r \in Seq(DecodedChars) : g[1] \in Seq(DecodedChars) /\ f[1] = g[1] \o r
    BY <1>3, <1>8 DEF Extends, Extension
<1>10. IsPrefix(g[1], f[1])
    BY <1>9 DEF IsPrefix
<1> QED  BY <1>3, <1>4, <1>10 DEF front

--------------------------------------------------------------------------------
(***************************************************************************)
(* The path of a read, and what the handler finds in it.                   *)
(***************************************************************************)
DecodedPath(db, key) == <<"/">> \o (db \o (<<"/">> \o key))

LEMMA EscapeIsText == ASSUME NEW t \in Texts PROVE PathEscape(t) \in Texts
<1> DEFINE e == [i \in DOMAIN t |-> Escaped(t[i])]
<1>1. DOMAIN t = 1..Len(t) /\ Len(t) \in Nat /\ \A i \in 1..Len(t) : Escaped(t[i]) \in Seq(Chars)
    BY EscapedIsText DEF Texts
<1>2. e \in Seq(Seq(Chars))
    BY <1>1
<1> HIDE DEF e
<1>3. FlattenSeq(e) \in Seq(Chars)
    BY <1>2, FlattenTyped
<1> QED  BY <1>3 DEF PathEscape, Texts, e

LEMMA PathOfDecoded ==
    ASSUME NEW db \in Texts, NEW key \in Texts
    PROVE  PathUnescape(PathOf(db, key)) = DecodedPath(db, key)
<1>0. "/" \in Chars /\ "/" # "%"
    BY CharsAssumption
<1>1. << >> \in Texts /\ PathEscape(key) \o << >> = PathEscape(key) /\ key \o << >> = key
      /\ PathEscape(key) \in Texts /\ PathEscape(db) \in Texts
    BY EscapeIsText, ConcatEmptySeq DEF Texts
<1>2. PathUnescape(PathEscape(key)) = key
    BY <1>1, UnescapeNothing, UnescapeOfEscape
<1> DEFINE u == <<"/">> \o PathEscape(key)
           v == <<"/">> \o key
<1>3. u \in Texts /\ v \in Texts
    BY <1>0, <1>1 DEF Texts
<1>4. PathUnescape(u) = v
    BY <1>0, <1>1, <1>2, UnescapePlain, TextIsNotInvalid DEF Then
<1> HIDE DEF u, v
<1>5. PathUnescape(PathEscape(db) \o u) = db \o v
    BY <1>3, <1>4, UnescapeOfEscape
<1>6. PathEscape(db) \o u \in Texts /\ db \o v \in Texts
    BY <1>1, <1>3 DEF Texts
<1>7. PathUnescape(<<"/">> \o (PathEscape(db) \o u)) = Then("/", db \o v)
    BY <1>0, <1>5, <1>6, UnescapePlain
<1> QED  BY <1>6, <1>7, TextIsNotInvalid DEF Then, PathOf, DecodedPath, u, v

LEMMA SplitFindsParts ==
    ASSUME NEW db \in Texts, NEW key \in Texts,
           ~Has(db, "%"), ~Has(db, "/"), ~Has(key, "%")
    PROVE  splitPublicPath(DecodedPath(db, key)) =
               IF Blank(db) \/ key = << >> THEN NoParts
               ELSE [ok |-> TRUE, db |-> db, key |-> key]
<1> DEFINE w == db \o (<<"/">> \o key)
           n == Len(db)
           m == Len(key)
<1>0. "/" \in Chars
    BY CharsAssumption
<1>1. /\ n \in Nat /\ m \in Nat /\ db \in Seq(Chars) /\ key \in Seq(Chars) /\ w \in Seq(Chars)
      /\ DOMAIN db = 1..n /\ DOMAIN key = 1..m
      /\ Len(w) = n + 1 + m
      /\ \A i \in 1..n : w[i] = db[i]
      /\ w[n + 1] = "/"
      /\ \A i \in 1..m : w[n + 1 + i] = key[i]
    BY <1>0 DEF Texts
<1> HIDE DEF n, m, w
<1>2. TrimPrefix(DecodedPath(db, key)) = w
  <2> DEFINE a == <<"/">> \o w
  <2>1. a \in Seq(Chars) /\ a # << >> /\ a[1] = "/" /\ Tail(a) = w
      BY <1>0, <1>1
  <2> HIDE DEF a
  <2>2. TrimPrefix(a) = w
      BY <2>1 DEF TrimPrefix
  <2> QED  BY <2>2 DEF a, w, DecodedPath
<1>3. SelectInSeq(w, LAMBDA char : char = "/") = n + 1
  <2> DEFINE I == {i \in 1..Len(w) : w[i] = "/"}
  <2>1. n + 1 \in I
      BY <1>1
  <2>2. ASSUME NEW i \in I PROVE n + 1 <= i
    <3>1. CASE i \in 1..n
        BY <1>1, <3>1 DEF Has
    <3> QED  BY <1>1, <3>1
  <2>3. I # {} /\ I \subseteq Nat
      BY <2>1
  <2>4. SelectInSeq(w, LAMBDA char : char = "/") = Min(I)
      BY <2>3 DEF SelectInSeq
  <2> HIDE DEF I
  <2>5. Min(I) = n + 1
    <3> DEFINE x == Min(I)
    <3>1. x \in I /\ \A y \in I : x <= y
        BY <2>1, <2>2, Zenon DEF Min
    <3> HIDE DEF x
    <3>2. x \in Nat /\ n + 1 \in Nat /\ x <= n + 1 /\ n + 1 <= x
        BY <1>1, <2>1, <2>2, <2>3, <3>1
    <3>3. x = n + 1
        BY <3>2
    <3> QED  BY <3>3 DEF x
  <2> QED  BY <2>4, <2>5
<1>4. SubSeq(w, 1, (n + 1) - 1) = db
  <2> DEFINE a == SubSeq(w, 1, n)
  <2>1. a \in Seq(Chars) /\ Len(a) = n /\ \A i \in 1..n : a[i] = w[i]
      BY <1>1
  <2> HIDE DEF a
  <2>2. a = db
      BY <1>1, <2>1, SeqEqual DEF n
  <2>3. (n + 1) - 1 = n
      BY <1>1
  <2> QED  BY <2>2, <2>3 DEF a
<1>5. SubSeq(w, (n + 1) + 1, Len(w)) = key
  <2> DEFINE a == SubSeq(w, (n + 1) + 1, Len(w))
  <2>1. a \in Seq(Chars) /\ Len(a) = m /\ \A i \in 1..m : a[i] = w[n + 1 + i]
      BY <1>1
  <2> HIDE DEF a
  <2>2. a = key
      BY <1>1, <2>1, SeqEqual DEF m
  <2> QED  BY <2>2 DEF a
<1>6. PathUnescape(db) = db /\ PathUnescape(key) = key /\ db # Invalid /\ key # Invalid
    BY UnescapeWithoutPercent, TextIsNotInvalid
<1>7. n + 1 # 0
    BY <1>1
<1> QED  BY <1>2, <1>3, <1>4, <1>5, <1>6, <1>7 DEF splitPublicPath

--------------------------------------------------------------------------------
(***************************************************************************)
(* Hosts.                                                                  *)
(***************************************************************************)
\* How a host is written is left out but for a port.
LEMMA HostsNormalized ==
    ASSUME NEW h \in Hosts
    PROVE  /\ normalizeHostName(h) \in Hosts
           /\ normalizeHostName(h).name = h.name
           /\ normalizeHostName(h).capitals = FALSE
           /\ normalizeHostName(h).dot <=> h.dot /\ h.port
           /\ normalizeHostName(h).port = h.port
BY DEF Hosts, normalizeHostName

LEMMA PortStripped ==
    ASSUME NEW h \in Hosts
    PROVE  stripPort(h) \in Hosts /\ stripPort(h).name = h.name /\ stripPort(h).port = FALSE
BY DEF Hosts, stripPort

LEMMA SameRecord ==
    ASSUME NEW h \in Hosts, NEW g \in Hosts, h.name = g.name, h.capitals = g.capitals,
           h.dot = g.dot, h.port = g.port
    PROVE  h = g
BY DEF Hosts

\* A host without its port is the one of the configuration when that has none.
LEMMA HostsCompared ==
    ASSUME NEW h \in Hosts, NEW g \in Hosts
    PROVE  normalizeHostName(stripPort(h)) = normalizeHostName(g) <=>
               h.name = g.name /\ ~g.port
<1> DEFINE a == normalizeHostName(stripPort(h))
           b == normalizeHostName(g)
<1>1. /\ a \in Hosts /\ a.name = h.name /\ a.capitals = FALSE /\ a.port = FALSE /\ a.dot = FALSE
  <2>1. stripPort(h) \in Hosts /\ stripPort(h).name = h.name /\ stripPort(h).port = FALSE
      BY PortStripped
  <2>2. a.dot \in BOOLEAN
      BY <2>1, HostsNormalized DEF Hosts
  <2> QED  BY <2>1, <2>2, HostsNormalized
<1>2. /\ b \in Hosts /\ b.name = g.name /\ b.capitals = FALSE /\ b.port = g.port
      /\ g.port = FALSE => b.dot = FALSE
      /\ g.port \in BOOLEAN
  <2>1. b.dot \in BOOLEAN /\ g.port \in BOOLEAN
      BY HostsNormalized DEF Hosts
  <2> QED  BY <2>1, HostsNormalized
<1> HIDE DEF a, b
<1>3. CASE h.name = g.name /\ ~g.port
  <2>1. a = b
      BY <1>1, <1>2, <1>3, SameRecord
  <2> QED  BY <1>3, <2>1 DEF a, b
<1>4. CASE ~(h.name = g.name /\ ~g.port)
  <2>1. a # b
      BY <1>1, <1>2, <1>4
  <2> QED  BY <1>4, <2>1 DEF a, b
<1> QED  BY <1>3, <1>4

--------------------------------------------------------------------------------
(***************************************************************************)
(* Where a request can be, and what is known of it there.                  *)
(***************************************************************************)
Serving == cfg.mode = "server"

\* The phases in which there is a request
Handling ==
    {"handleServer", "handlePublicRead", "handleServerAPI", "handleBinaryHTTP", "mux",
     "handleClientHTTP", "handleClientWebSocket", "log", "done"}

\* The path of the WebSocket, or one below it
OnWSPath == Path = cfg.wsPath \/ (Last(cfg.wsPath) = "/" /\ IsPrefix(cfg.wsPath, Path))

\* The handler that has the request is the one for it.
Routed ==
    /\ phase \in Handling \cup {"starting", "panicked", "idle"}
    /\ phase \in Handling => request \in Requests
    /\ phase \in {"handleServer", "handlePublicRead", "handleServerAPI", "handleBinaryHTTP"} =>
        Serving
    /\ phase \in {"mux", "handleClientHTTP", "handleClientWebSocket"} => ~Serving
    /\ phase = "handlePublicRead" => ForHost(publicHost)
    /\ phase \in {"handleServerAPI", "handleBinaryHTTP"} =>
        ForHost(apiHost) /\ ~ForHost(publicHost)
    /\ phase = "handleBinaryHTTP" => request.method = "POST" /\ Path = <<"/">>
    /\ phase = "handleClientWebSocket" => OnWSPath

\* The three properties of an answer, from when it is written on
FramesExposed(body) ==
    body \in {<<"frame">>, <<"websocket">>} =>
        IF Serving
        THEN /\ body = <<"frame">> /\ request.method = "POST" /\ Path = <<"/">>
             /\ ForHost(apiHost) /\ ~ForHost(publicHost)
        ELSE body = <<"websocket">> /\ OnWSPath

PageReached(status) ==
    Serving /\ SameHost(request.host, cfg.apiHost) /\ request.method = "GET" /\ Path = <<"/">> =>
        ((status = 200) <=>
            (~cfg.apiHost.port /\ ~(SameHost(cfg.publicHost, cfg.apiHost) /\ ~cfg.publicHost.port)))

PlainRead ==
    /\ IsRead /\ Serving /\ ForHost(publicHost) /\ request.method = "GET"
    /\ ~Has(request.db, "%") /\ ~Has(request.db, "/") /\ ~Has(request.key, "%")

ReadRight(status, body) ==
    PlainRead =>
        IF Blank(request.db) \/ request.key = << >> THEN status = 400
        ELSE status # 400 /\ (status = 200 => body = <<request.db, request.key>>)

RightAnswer(status, body) ==
    FramesExposed(body) /\ PageReached(status) /\ ReadRight(status, body)

Inductive ==
    /\ cfg \in Configs
    /\ Routed
    /\ phase \in {"log", "done"} => RightAnswer(response.status, response.body)

\* An answer is written: what must be known of it.
LEMMA Responded ==
    ASSUME Inductive, phase \in Handling, NEW status, NEW body,
           Respond(status, body), RightAnswer(status, body)
    PROVE  Inductive'
<1>1. /\ cfg' = cfg /\ request' = request /\ response'.status = status /\ response'.body = body
      /\ phase' \in {"log", "done"} /\ (cfg.logEnabled => phase' = "log")
    BY DEF Respond
<1>2. cfg' \in Configs /\ request' \in Requests
    BY <1>1 DEF Inductive, Routed
<1>3. Routed'
    BY <1>1, <1>2 DEF Routed, Handling
<1>4. RightAnswer(response.status, response.body)'
    BY <1>1 DEF RightAnswer, FramesExposed, PageReached, ReadRight, PlainRead, Serving,
       OnWSPath, Path, ForHost, publicHost, apiHost, IsRead
<1> QED  BY <1>1, <1>2, <1>3, <1>4 DEF Inductive

\* A request goes on to another handler.
LEMMA WentTo ==
    ASSUME Inductive, phase \in Handling, NEW handler, GoTo(handler),
           handler \in Handling \ {"log", "done"},
           handler \in {"handlePublicRead", "handleServerAPI", "handleBinaryHTTP"} => Serving,
           handler \in {"handleClientHTTP", "handleClientWebSocket"} => ~Serving,
           handler \notin {"handleServer", "mux"},
           handler = "handlePublicRead" => ForHost(publicHost),
           handler \in {"handleServerAPI", "handleBinaryHTTP"} =>
               ForHost(apiHost) /\ ~ForHost(publicHost),
           handler = "handleBinaryHTTP" => request.method = "POST" /\ Path = <<"/">>,
           handler = "handleClientWebSocket" => OnWSPath
    PROVE  Inductive'
<1>1. cfg' = cfg /\ request' = request /\ phase' = handler
    BY DEF GoTo
<1>2. cfg' \in Configs /\ request' \in Requests
    BY <1>1 DEF Inductive, Routed
<1>3. /\ Serving' <=> Serving
      /\ Path' = Path
      /\ OnWSPath' <=> OnWSPath
      /\ ForHost(publicHost)' <=> ForHost(publicHost)
      /\ ForHost(apiHost)' <=> ForHost(apiHost)
    BY <1>1, Zenon DEF Serving, OnWSPath, Path, ForHost, publicHost, apiHost
<1>4. Routed'
    BY <1>1, <1>2, <1>3 DEF Routed, Handling
<1> QED  BY <1>1, <1>2, <1>4 DEF Inductive, Handling

\* Who asks for which host
LEMMA HostAsked ==
    ASSUME cfg \in Configs, request \in Requests
    PROVE  /\ ForHost(publicHost) <=>
                SameHost(request.host, cfg.publicHost) /\ ~cfg.publicHost.port
           /\ ForHost(apiHost) <=> SameHost(request.host, cfg.apiHost) /\ ~cfg.apiHost.port
<1>1. cfg.publicHost \in Hosts /\ cfg.apiHost \in Hosts /\ request.host \in Hosts
    BY ConfigsAssumption, RequestsAssumption
<1> QED  BY <1>1, HostsCompared, Zenon DEF ForHost, publicHost, apiHost, SameHost

\* What the mux takes for the path of the WebSocket is it when decoded, or begins with it.
LEMMA MatchIsOnWSPath ==
    ASSUME request \in Requests, MatchesWSPath(request.rawPath) PROVE OnWSPath
<1>1. request.rawPath \in Texts /\ Path # Invalid
    BY RequestsAssumption DEF Path
<1>2. CASE IsSubtree
  <2>1. PICK k \in DOMAIN request.rawPath :
            request.rawPath[k] = "/" /\ IsWSPath(SubSeq(request.rawPath, 1, k))
      BY <1>2 DEF MatchesWSPath
  <2>2. k \in 1..Len(request.rawPath)
      BY <1>1 DEF Texts
  <2>3. IsPrefix(PathUnescape(SubSeq(request.rawPath, 1, k)), Path)
      BY <1>1, <2>1, <2>2, UnescapeFront DEF Path
  <2> QED  BY <1>2, <2>1, <2>3 DEF IsWSPath, IsSubtree, OnWSPath
<1>3. CASE ~IsSubtree
    BY <1>3 DEF MatchesWSPath, IsWSPath, OnWSPath, Path
<1> QED  BY <1>2, <1>3

LEMMA NoPartsInRoot == splitPublicPath(<<"/">>) = NoParts
<1> DEFINE r == <<"/">>
<1>1. r # << >> /\ r[1] = "/" /\ Tail(r) = << >>
    OBVIOUS
<1> HIDE DEF r
<1>2. TrimPrefix(r) = << >>
    BY <1>1 DEF TrimPrefix
<1> DEFINE e == << >>
<1>3. Len(e) = 0
    OBVIOUS
<1> HIDE DEF e
<1>4. SelectInSeq(e, LAMBDA char : char = "/") = 0
  <2>1. {i \in 1..Len(e) : e[i] = "/"} = {}
      BY <1>3
  <2> QED  BY <2>1 DEF SelectInSeq
<1> QED  BY <1>2, <1>4 DEF splitPublicPath, r, e

\* A read finds the parts it was asked for.
LEMMA ReadFindsParts ==
    ASSUME request \in Requests, PlainRead
    PROVE  /\ request.db \in Texts /\ request.key \in Texts
           /\ splitPublicPath(Path) =
                IF Blank(request.db) \/ request.key = << >> THEN NoParts
                ELSE [ok |-> TRUE, db |-> request.db, key |-> request.key]
<1>1. /\ request.db \in Texts /\ request.key \in Texts
      /\ request.rawPath = PathOf(request.db, request.key)
    BY RequestsAssumption DEF PlainRead, IsRead
<1>2. Path = DecodedPath(request.db, request.key)
    BY <1>1, PathOfDecoded DEF Path
<1> QED  BY <1>1, <1>2, SplitFindsParts DEF PlainRead

--------------------------------------------------------------------------------
(***************************************************************************)
(* Every step.                                                             *)
(***************************************************************************)
LEMMA ServerHandles ==
    ASSUME Inductive, handleServer PROVE Inductive'
<1>1. /\ phase = "handleServer" /\ phase \in Handling /\ Serving
      /\ cfg \in Configs /\ request \in Requests
    BY DEF Inductive, Routed, Handling, handleServer
<1>2. CASE ForHost(publicHost)
  <2>1. GoTo("handlePublicRead")
      BY <1>2 DEF handleServer, ForHost
  <2> QED  BY <1>1, <1>2, <2>1, WentTo DEF Handling
<1>3. CASE ~ForHost(publicHost) /\ ForHost(apiHost)
  <2>1. GoTo("handleServerAPI")
      BY <1>3 DEF handleServer, ForHost
  <2> QED  BY <1>1, <1>3, <2>1, WentTo DEF Handling
<1>4. CASE ~ForHost(publicHost) /\ ~ForHost(apiHost)
  <2>1. Respond(404, <<"text">>)
      BY <1>4 DEF handleServer, ForHost, NotFound
  <2>2. RightAnswer(404, <<"text">>)
      BY <1>1, <1>4, HostAsked
      DEF RightAnswer, FramesExposed, PageReached, ReadRight, PlainRead
  <2> QED  BY <1>1, <2>1, <2>2, Responded
<1> QED  BY <1>2, <1>3, <1>4

\* Nobody who asks the public host is shown the page.
LEMMA PublicRightAnswer ==
    ASSUME cfg \in Configs, request \in Requests, ForHost(publicHost), NEW status, NEW body,
           body \notin {<<"frame">>, <<"websocket">>}, Path = <<"/">> => status # 200,
           ReadRight(status, body)
    PROVE  RightAnswer(status, body)
<1>1. SameHost(request.host, cfg.apiHost) =>
          SameHost(cfg.publicHost, cfg.apiHost) /\ ~cfg.publicHost.port
    BY HostAsked DEF SameHost
<1> QED  BY <1>1 DEF RightAnswer, FramesExposed, PageReached

LEMMA PublicReadHandled ==
    ASSUME Inductive, handlePublicRead PROVE Inductive'
<1> DEFINE parts == splitPublicPath(Path)
<1>1. /\ phase \in Handling /\ Serving /\ ForHost(publicHost)
      /\ cfg \in Configs /\ request \in Requests
    BY DEF Inductive, Routed, Handling, handlePublicRead
<1>2. CASE request.method # "GET"
  <2>1. Respond(405, <<"text">>)
      BY <1>2 DEF handlePublicRead, MethodNotAllowed
  <2>2. RightAnswer(405, <<"text">>)
      BY <1>1, <1>2, PublicRightAnswer DEF ReadRight, PlainRead
  <2> QED  BY <1>1, <2>1, <2>2, Responded
<1>3. CASE request.method = "GET" /\ ~parts.ok
  <2>1. Respond(400, <<"text">>)
      BY <1>3 DEF handlePublicRead
  <2>2. ReadRight(400, <<"text">>)
      BY <1>1, <1>3, ReadFindsParts DEF ReadRight
  <2>3. RightAnswer(400, <<"text">>)
      BY <1>1, <2>2, PublicRightAnswer
  <2> QED  BY <1>1, <2>1, <2>3, Responded
<1>4. CASE request.method = "GET" /\ parts.ok
  <2>1. Path # <<"/">>
      BY <1>4, NoPartsInRoot DEF NoParts
  <2>2. PlainRead => /\ ~(Blank(request.db) \/ request.key = << >>)
                     /\ parts.db = request.db /\ parts.key = request.key
      BY <1>1, <1>4, ReadFindsParts DEF NoParts
  <2>3. PICK answer \in Stores :
            CASE answer = "short" -> Respond(502, <<"text">>)
              [] answer = "value" -> Respond(200, <<parts.db, parts.key>>)
              [] answer = "not found" -> Respond(404, <<"text">>)
              [] OTHER -> Respond(500, <<"text">>)
      BY <1>4 DEF handlePublicRead
  <2> HIDE DEF parts
  <2>4. \A status \in {502, 404, 500} : RightAnswer(status, <<"text">>)
      BY <1>1, <2>1, <2>2, PublicRightAnswer DEF ReadRight
  <2>5. RightAnswer(200, <<parts.db, parts.key>>)
    <3>1. <<parts.db, parts.key>> \notin {<<"frame">>, <<"websocket">>}
        OBVIOUS
    <3>2. ReadRight(200, <<parts.db, parts.key>>)
        BY <2>2 DEF ReadRight
    <3> QED  BY <1>1, <2>1, <3>1, <3>2, PublicRightAnswer
  <2>6. CASE answer = "value"
    <3>1. Respond(200, <<parts.db, parts.key>>)
        BY <2>3, <2>6
    <3> QED  BY <1>1, <2>5, <3>1, Responded
  <2>7. CASE answer # "value"
    <3>1. CASE answer = "short"
      <4>1. Respond(502, <<"text">>)
          BY <2>3, <3>1
      <4> QED  BY <1>1, <2>4, <4>1, Responded
    <3>2. CASE answer = "not found"
      <4>1. Respond(404, <<"text">>)
          BY <2>3, <3>2
      <4> QED  BY <1>1, <2>4, <4>1, Responded
    <3>3. CASE answer \notin {"short", "not found"}
      <4>1. Respond(500, <<"text">>)
          BY <2>3, <2>7, <3>3
      <4> QED  BY <1>1, <2>4, <4>1, Responded
    <3> QED  BY <3>1, <3>2, <3>3
  <2> QED  BY <2>6, <2>7
<1> QED  BY <1>2, <1>3, <1>4

LEMMA ServerAPIHandled ==
    ASSUME Inductive, handleServerAPI PROVE Inductive'
<1>1. /\ phase \in Handling /\ Serving /\ ForHost(apiHost) /\ ~ForHost(publicHost)
      /\ cfg \in Configs /\ request \in Requests
    BY DEF Inductive, Routed, Handling, handleServerAPI
<1>2. ASSUME NEW status, NEW body, Respond(status, body),
             body \notin {<<"frame">>, <<"websocket">>}, PageReached(status)
      PROVE  Inductive'
  <2>1. RightAnswer(status, body)
      BY <1>1, <1>2 DEF RightAnswer, FramesExposed, ReadRight, PlainRead
  <2> QED  BY <1>1, <1>2, <2>1, Responded
<1>3. CASE request.method = "GET" /\ Path \in IndexPaths
  <2>1. Respond(200, <<"page">>)
      BY <1>3 DEF handleServerAPI
  <2>2. ~cfg.apiHost.port /\ ~(SameHost(cfg.publicHost, cfg.apiHost) /\ ~cfg.publicHost.port)
      BY <1>1, HostAsked DEF SameHost
  <2> QED  BY <1>2, <2>1, <2>2 DEF PageReached
<1>4. CASE request.method = "GET" /\ Path \notin IndexPaths
  <2>1. Respond(404, <<"text">>)
      BY <1>4 DEF handleServerAPI, NotFound
  <2>2. Path # <<"/">>
      BY <1>4 DEF IndexPaths
  <2> QED  BY <1>2, <2>1, <2>2 DEF PageReached
<1>5. CASE request.method = "POST" /\ Path = <<"/">>
  <2>1. GoTo("handleBinaryHTTP")
      BY <1>5 DEF handleServerAPI
  <2> QED  BY <1>1, <1>5, <2>1, WentTo DEF Handling
<1>6. CASE request.method = "POST" /\ Path # <<"/">>
  <2>1. Respond(404, <<"text">>)
      BY <1>6 DEF handleServerAPI, NotFound
  <2> QED  BY <1>2, <1>6, <2>1 DEF PageReached
<1>7. CASE request.method \notin {"GET", "POST"}
  <2>1. Respond(405, <<"text">>)
      BY <1>7 DEF handleServerAPI, MethodNotAllowed
  <2> QED  BY <1>2, <1>7, <2>1 DEF PageReached
<1> QED  BY <1>3, <1>4, <1>5, <1>6, <1>7

LEMMA BinaryHTTPHandled ==
    ASSUME Inductive, handleBinaryHTTP PROVE Inductive'
<1>1. /\ phase \in Handling /\ Serving /\ ForHost(apiHost) /\ ~ForHost(publicHost)
      /\ request.method = "POST" /\ Path = <<"/">>
    BY DEF Inductive, Routed, Handling, handleBinaryHTTP
<1>2. RightAnswer(400, <<"text">>) /\ RightAnswer(200, <<"frame">>)
    BY <1>1 DEF RightAnswer, FramesExposed, PageReached, ReadRight, PlainRead
<1>3. Respond(400, <<"text">>) \/ Respond(200, <<"frame">>)
    BY DEF handleBinaryHTTP
<1> QED  BY <1>1, <1>2, <1>3, Responded

LEMMA ClientHandles ==
    ASSUME Inductive, mux \/ handleClientHTTP \/ handleClientWebSocket PROVE Inductive'
<1>1. phase \in Handling /\ ~Serving
    BY DEF Inductive, Routed, Handling, mux, handleClientHTTP, handleClientWebSocket
<1>2. CASE mux
  <2>1. CASE IsRedirected(request.rawPath)
    <3>1. PICK status \in {301, 307} : Respond(status, <<"redirect">>)
        BY <1>2, <2>1 DEF mux
    <3>2. RightAnswer(status, <<"redirect">>)
        BY <1>1 DEF RightAnswer, FramesExposed, PageReached, ReadRight, PlainRead
    <3> QED  BY <1>1, <3>1, <3>2, Responded
  <2>2. CASE ~IsRedirected(request.rawPath) /\ MatchesWSPath(request.rawPath)
    <3>1. GoTo("handleClientWebSocket")
        BY <1>2, <2>2 DEF mux
    <3>2. OnWSPath
        BY <1>1, <2>2, MatchIsOnWSPath DEF Inductive, Routed
    <3> QED  BY <1>1, <3>1, <3>2, WentTo DEF Handling
  <2>3. CASE ~IsRedirected(request.rawPath) /\ ~MatchesWSPath(request.rawPath)
    <3>1. GoTo("handleClientHTTP")
        BY <1>2, <2>3 DEF mux
    <3> QED  BY <1>1, <2>3, <3>1, WentTo DEF Handling
  <2> QED  BY <2>1, <2>2, <2>3
<1>3. CASE handleClientHTTP
  <2>1. Respond(200, <<"page">>) \/ Respond(405, <<"text">>)
      BY <1>3 DEF handleClientHTTP, MethodNotAllowed
  <2>2. RightAnswer(200, <<"page">>) /\ RightAnswer(405, <<"text">>)
      BY <1>1 DEF RightAnswer, FramesExposed, PageReached, ReadRight, PlainRead
  <2> QED  BY <1>1, <2>1, <2>2, Responded
<1>4. CASE handleClientWebSocket
  <2>1. \/ \E status \in {400, 405, 500} : Respond(status, <<"text">>)
        \/ Respond(101, <<"websocket">>)
      BY <1>4 DEF handleClientWebSocket, MethodNotAllowed
  <2>2. OnWSPath
      BY <1>4 DEF Inductive, Routed, handleClientWebSocket
  <2>3. /\ \A status \in {400, 405, 500} : RightAnswer(status, <<"text">>)
        /\ RightAnswer(101, <<"websocket">>)
      BY <1>1, <2>2 DEF RightAnswer, FramesExposed, PageReached, ReadRight, PlainRead
  <2> QED  BY <1>1, <2>1, <2>3, Responded
<1> QED  BY <1>2, <1>3, <1>4

LEMMA AnswerKept ==
    ASSUME UNCHANGED <<cfg, request, response>>
    PROVE  RightAnswer(response.status, response.body)' =
               RightAnswer(response.status, response.body)
<1>1. cfg' = cfg /\ request' = request /\ response' = response
    OBVIOUS
<1> QED  BY <1>1 DEF RightAnswer, FramesExposed, PageReached, ReadRight, PlainRead, Serving,
            OnWSPath, Path, ForHost, publicHost, apiHost, IsRead

LEMMA InductiveStep == Inductive /\ [Next]_vars => Inductive'
<1> SUFFICES ASSUME Inductive, [Next]_vars PROVE Inductive'
    OBVIOUS
<1>1. CASE routes
    BY <1>1 DEF routes, Inductive, Routed, Handling
<1>2. CASE Arrive
    BY <1>2, ConfigsAssumption DEF Arrive, Inductive, Routed, Handling, Serving
<1>3. CASE loggingMiddleware
  <2>1. RightAnswer(response.status, response.body)'
      BY <1>3, AnswerKept DEF loggingMiddleware, Inductive
  <2> QED  BY <1>3, <2>1 DEF loggingMiddleware, Inductive, Routed, Handling
<1>4. CASE NextRequest
    BY <1>4 DEF NextRequest, Inductive, Routed, Handling
<1>5. CASE Panicked \/ UNCHANGED vars
  <2>1. UNCHANGED vars
      BY <1>5 DEF Panicked
  <2>2. Routed'
      BY <2>1, Zenon
      DEF vars, Inductive, Routed, Serving, OnWSPath, Path, ForHost, publicHost, apiHost
  <2>3. RightAnswer(response.status, response.body)' =
            RightAnswer(response.status, response.body)
      BY <2>1, AnswerKept DEF vars
  <2> QED  BY <2>1, <2>2, <2>3 DEF vars, Inductive
<1> QED
    BY <1>1, <1>2, <1>3, <1>4, <1>5, ServerHandles, PublicReadHandled, ServerAPIHandled,
       BinaryHTTPHandled, ClientHandles
    DEF Next

LEMMA InductiveHolds == Spec => []Inductive
<1>1. Init => Inductive
    BY DEF Init, Inductive, Routed, Handling
<1> QED  BY <1>1, InductiveStep, PTL DEF Spec

--------------------------------------------------------------------------------
(***************************************************************************)
(* Theorems.                                                               *)
(***************************************************************************)
\* Frames get in by POST / on the API's host of a server, or on the WebSocket's path of
\* a client and below it if it ends in a slash, and in no other way.
THEOREM FramesExposedOnly == Spec => []FramesOnlyWhereExposed
<1>1. Inductive => FramesOnlyWhereExposed
    BY DEF Inductive, FramesOnlyWhereExposed, Answered, RightAnswer, FramesExposed, OnWSPath,
       Serving
<1> QED  BY <1>1, InductiveHolds, PTL

\* The page of a server is there for who names the API's host, in whatever spelling,
\* unless the configuration hides it.
THEOREM PageReachable == Spec => []PageIsReachable
<1>1. Inductive => PageIsReachable
    BY DEF Inductive, PageIsReachable, Answered, RightAnswer, PageReached, Serving
<1> QED  BY <1>1, InductiveHolds, PTL

\* A public read answers with the value of the key that was asked for, whatever its
\* characters are but for those that a second decoding loses.
THEOREM ReadsAsAsked == Spec => []ReadsWhatIsAsked
<1>1. Inductive => ReadsWhatIsAsked
    BY DEF Inductive, ReadsWhatIsAsked, PublicRead, Answered, RightAnswer, ReadRight, PlainRead,
       Serving
<1> QED  BY <1>1, InductiveHolds, PTL
================================================================================
