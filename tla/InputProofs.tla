----------------------------- MODULE InputProofs -----------------------------
(***************************************************************************)
(* What comes in, from the files and from the command line.                *)
(*                                                                         *)
(* The window of UTF8FileBuffer cannot be seen, for every file and every   *)
(* window in which a code point fits: what is read, given back and read    *)
(* again is what TextStream says.  And the tokenizer on top of it returns  *)
(* what lies between the delimiters.                                       *)
(*                                                                         *)
(* For all arguments and all declarations no two of which share a name, a  *)
(* tool finds the operands of its command line by their numbers.           *)
(***************************************************************************)
EXTENDS TextBuffer, CommandLine, WellOrder, SequenceTheorems, FiniteSetTheorems

Bytes == Stream!Bytes
Code(bytes, o) == Stream!Decode(bytes, o)

-----------------------------------------------------------------------------
(* Decoding *)

LEMMA WantedFew ==
    ASSUME NEW byte
    PROVE  Stream!Wanted(byte) \in {0, 1, 2, 3, Stream!Reject}
BY DEF Stream!Wanted, Stream!Reject

\* A set of the numbers up to n that is not empty has a first member.
LEMMA FirstOf ==
    ASSUME NEW n \in Nat, NEW S \in SUBSET (1 .. n), S # {}
    PROVE  (CHOOSE k \in S : \A m \in S : k <= m) \in S
<1>1. S \in SUBSET Nat OBVIOUS
<1>2. \E k \in S : \A m \in S : k <= m BY <1>1, LeastExists
<1> QED BY <1>2

\* Where decode stops: not before it has read a byte, if there is one, and not
\* behind the bytes.
LEMMA DecodeRight ==
    ASSUME NEW s \in Seq(Bytes), NEW o \in Nat
    PROVE  /\ Code(s, o)[1] \in Nat /\ Code(s, o)[2] \in {Stream!Accept, Stream!Reject}
           /\ o < Len(s) => o < Code(s, o)[1] /\ Code(s, o)[1] <= Len(s)
           /\ ~ o < Len(s) => Code(s, o)[1] = o /\ Code(s, o)[2] = Stream!Accept
<1> DEFINE want  == Stream!Wanted(s[o + 1])
           wrong == {k \in 1 .. want : o + 1 + k <= Len(s) /\ s[o + 1 + k] # "cont"}
           first == CHOOSE k \in wrong : \A n \in wrong : k <= n
<1>1. Code(s, o) = IF o >= Len(s) THEN <<o, Stream!Accept>>
                   ELSE IF want = Stream!Reject THEN <<o + 1, Stream!Reject>>
                   ELSE IF wrong # {} THEN <<o + 1 + first, Stream!Reject>>
                   ELSE <<IF o + 1 + want <= Len(s) THEN o + 1 + want ELSE Len(s), Stream!Accept>>
      BY DEF Code, Stream!Decode
<1>2. Len(s) \in Nat OBVIOUS
<1>3. want \in Nat BY WantedFew DEF Stream!Reject
<1>4. wrong # {} => first \in wrong
  <2>1. wrong \in SUBSET (1 .. want) OBVIOUS
  <2> HIDE DEF wrong
  <2> QED BY <1>3, <2>1, FirstOf
<1> HIDE DEF want, first
<1>5. wrong # {} => first \in Nat /\ first >= 1 /\ o + 1 + first <= Len(s) BY <1>3, <1>4
<1> HIDE DEF wrong
<1>6. CASE o >= Len(s)
  <2>1. Code(s, o) = <<o, Stream!Accept>> BY <1>1, <1>6
  <2> QED BY <1>2, <1>6, <2>1
<1>7. CASE o < Len(s)
  <2>0. ~ o >= Len(s) BY <1>2, <1>7
  <2>1. CASE want = Stream!Reject
    <3>1. Code(s, o) = <<o + 1, Stream!Reject>> BY <1>1, <2>0, <2>1
    <3> QED BY <1>2, <1>7, <3>1
  <2>2. CASE want # Stream!Reject /\ wrong # {}
    <3>1. Code(s, o) = <<o + 1 + first, Stream!Reject>> BY <1>1, <2>0, <2>2, Zenon
    <3> QED BY <1>2, <1>5, <1>7, <2>2, <3>1
  <2>3. CASE want # Stream!Reject /\ wrong = {}
    <3>1. Code(s, o) = <<IF o + 1 + want <= Len(s) THEN o + 1 + want ELSE Len(s), Stream!Accept>>
          BY <1>1, <2>0, <2>3, Zenon
    <3> QED BY <1>2, <1>3, <1>7, <3>1
  <2> QED BY <2>1, <2>2, <2>3
<1>8. o >= Len(s) \/ o < Len(s) BY <1>2
<1> QED BY <1>6, <1>7, <1>8, Zenon

\* A window of w over t, from its place c on: decode stops where it does in t,
\* if a code point is in the window or the window reaches to the end.
LEMMA DecodeShifted ==
    ASSUME NEW w \in Seq(Bytes), NEW t \in Seq(Bytes), NEW k \in Nat, NEW c \in Nat,
           k + Len(w) <= Len(t), \A i \in 1 .. Len(w) : w[i] = t[k + i], c <= Len(w),
           Len(w) - c >= 4 \/ k + Len(w) = Len(t)
    PROVE  Code(t, k + c)[1] = k + Code(w, c)[1] /\ Code(t, k + c)[2] = Code(w, c)[2]
<1>1. Len(w) \in Nat /\ Len(t) \in Nat OBVIOUS
<1>2. CASE c = Len(w)
  <2>1. ~ c < Len(w) /\ ~ k + c < Len(t) /\ k + c \in Nat BY <1>1, <1>2
  <2>2. Code(w, c)[1] = c /\ Code(w, c)[2] = Stream!Accept BY <2>1, DecodeRight
  <2>3. Code(t, k + c)[1] = k + c /\ Code(t, k + c)[2] = Stream!Accept BY <2>1, DecodeRight
  <2> QED BY <2>2, <2>3
<1>3. CASE c # Len(w)
  <2> DEFINE want == Stream!Wanted(w[c + 1])
             wrong(s, o) == {n \in 1 .. want : o + 1 + n <= Len(s) /\ s[o + 1 + n] # "cont"}
             first(s, o) == CHOOSE n \in wrong(s, o) : \A m \in wrong(s, o) : n <= m
             end(s, o) == IF want = Stream!Reject THEN <<o + 1, Stream!Reject>>
                          ELSE IF wrong(s, o) # {} THEN <<o + 1 + first(s, o), Stream!Reject>>
                          ELSE <<IF o + 1 + want <= Len(s) THEN o + 1 + want ELSE Len(s), Stream!Accept>>
  <2>1. c < Len(w) /\ k + c < Len(t) /\ c + 1 \in 1 .. Len(w) BY <1>1, <1>3
  <2>2. t[k + c + 1] = w[c + 1]
    <3>1. k + (c + 1) = k + c + 1 OBVIOUS
    <3> QED BY <2>1, <3>1
  <2>3. Code(w, c) = end(w, c) BY <1>1, <2>1 DEF Code, Stream!Decode
  <2>4. Code(t, k + c) = end(t, k + c)
    <3>1. Stream!Wanted(t[k + c + 1]) = want BY <2>2
    <3> HIDE DEF want
    <3> QED BY <1>1, <2>1, <3>1 DEF Code, Stream!Decode
  <2>5. want \in {0, 1, 2, 3, Stream!Reject} BY WantedFew
  <2> HIDE DEF want
  <2>6. CASE want = Stream!Reject
    <3>1. Code(w, c) = <<c + 1, Stream!Reject>> /\ Code(t, k + c) = <<k + c + 1, Stream!Reject>> BY <2>3, <2>4, <2>6, Zenon
    <3> HIDE DEF end, first, wrong
    <3>2. Code(w, c)[1] = c + 1 /\ Code(t, k + c)[1] = k + c + 1 BY <3>1
    <3>3. Code(w, c)[2] = Stream!Reject /\ Code(t, k + c)[2] = Stream!Reject BY <3>1
    <3> QED BY <3>2, <3>3
  <2>7. CASE want \in {0, 1, 2, 3} /\ want # Stream!Reject
    <3>1. ASSUME NEW n \in 1 .. want PROVE c + 1 + n <= Len(w) <=> k + c + 1 + n <= Len(t)
      <4>1. n \in Nat /\ n <= 3 BY <2>7
      <4> QED BY <1>1, <4>1
    <3>2. ASSUME NEW n \in 1 .. want, c + 1 + n <= Len(w) PROVE w[c + 1 + n] = t[k + c + 1 + n]
      <4>1. n \in Nat BY <2>7
      <4>2. c + 1 + n \in 1 .. Len(w) /\ k + (c + 1 + n) = k + c + 1 + n BY <1>1, <3>2, <4>1
      <4> QED BY <4>2
    <3>3. wrong(w, c) = wrong(t, k + c) BY <3>1, <3>2
    <3>4. wrong(w, c) \in SUBSET (1 .. want) /\ want \in Nat BY <2>7
    <3>5. CASE wrong(w, c) # {}
      <4>1. first(w, c) \in wrong(w, c) /\ first(t, k + c) = first(w, c)
        <5> HIDE DEF wrong
        <5> QED BY <3>3, <3>4, <3>5, FirstOf
      <4>2. first(w, c) \in Nat BY <3>4, <4>1
      <4> HIDE DEF first, wrong
      <4>3. Code(w, c) = <<c + 1 + first(w, c), Stream!Reject>> BY <2>3, <2>7, <3>5, Zenon
      <4>4. Code(t, k + c) = <<k + c + 1 + first(t, k + c), Stream!Reject>> BY <2>4, <2>7, <3>3, <3>5, Zenon
      <4> HIDE DEF end
      <4>5. Code(w, c)[1] = c + 1 + first(w, c) /\ Code(t, k + c)[1] = k + c + 1 + first(t, k + c) BY <4>3, <4>4
      <4>6. Code(w, c)[2] = Stream!Reject /\ Code(t, k + c)[2] = Stream!Reject BY <4>3, <4>4
      <4> QED BY <4>1, <4>2, <4>5, <4>6
    <3>6. CASE wrong(w, c) = {}
      <4>1. end(w, c) = <<IF c + 1 + want <= Len(w) THEN c + 1 + want ELSE Len(w), Stream!Accept>>
            BY <2>7, <3>6, Zenon
      <4>2. end(t, k + c) = <<IF k + c + 1 + want <= Len(t) THEN k + c + 1 + want ELSE Len(t), Stream!Accept>>
            BY <2>7, <3>3, <3>6, Zenon
      <4> HIDE DEF end, wrong
      <4>3. Code(w, c) = <<IF c + 1 + want <= Len(w) THEN c + 1 + want ELSE Len(w), Stream!Accept>>
            BY <2>3, <4>1
      <4>4. Code(t, k + c) = <<IF k + c + 1 + want <= Len(t) THEN k + c + 1 + want ELSE Len(t), Stream!Accept>>
            BY <2>4, <4>2
      <4> HIDE DEF first
      <4>5. want \in Nat /\ want <= 3 BY <2>7
      <4>6. Code(w, c)[2] = Stream!Accept /\ Code(t, k + c)[2] = Stream!Accept BY <4>3, <4>4
      <4>7. Code(w, c)[1] = IF c + 1 + want <= Len(w) THEN c + 1 + want ELSE Len(w) BY <4>3
      <4>8. Code(t, k + c)[1] = IF k + c + 1 + want <= Len(t) THEN k + c + 1 + want ELSE Len(t) BY <4>4
      <4>9. Code(t, k + c)[1] = k + Code(w, c)[1] BY <1>1, <2>1, <4>5, <4>7, <4>8
      <4> QED BY <4>6, <4>9
    <3> QED BY <3>5, <3>6
  <2> QED BY <2>5, <2>6, <2>7
<1> QED BY <1>2, <1>3

-----------------------------------------------------------------------------
(* What is read at an offset *)

\* A rejected byte is skipped with what it spoils.
LEMMA ReadAtUnfolds ==
    ASSUME NEW f \in Seq(Bytes), NEW o \in Nat
    PROVE  Stream!ReadAt(f, o) =
             IF Code(f, o)[2] = Stream!Reject THEN Stream!ReadAt(f, Code(f, o)[1])
             ELSE <<SubSeq(f, o + 1, Code(f, o)[1]), Code(f, o)[1]>>
<1> DEFINE Eq(h) == h = [i \in Nat |->
                       LET end == Stream!Decode(f, i)
                       IN  IF end[2] = Stream!Reject THEN h[end[1]] ELSE <<SubSeq(f, i + 1, end[1]), end[1]>>]
           at   == CHOOSE h : Eq(h)
           stop == {i \in Nat : Code(f, i)[2] # Stream!Reject}
           nx   == [i \in Nat |-> Code(f, i)[1]]
           mu   == [i \in Nat |-> IF i < Len(f) THEN Len(f) - i ELSE 0]
           base == [i \in Nat |-> <<SubSeq(f, i + 1, Code(f, i)[1]), Code(f, i)[1]>>]
           V    == {base[i] : i \in Nat}
           g    == [i \in Nat |-> [v \in V |-> v]]
<1>1. \A p \in Nat : Stream!ReadAt(f, p) = at[p] BY DEF Stream!ReadAt
<1>2. \A i \in Nat : /\ Code(f, i)[1] \in Nat /\ Code(f, i)[2] \in {Stream!Accept, Stream!Reject}
                     /\ i < Len(f) => i < Code(f, i)[1] /\ Code(f, i)[1] <= Len(f)
                     /\ ~ i < Len(f) => Code(f, i)[2] = Stream!Accept
      BY DecodeRight
<1>3. Len(f) \in Nat OBVIOUS
<1>4. Descends(Nat, stop, nx, mu)
  <2>1. nx \in [Nat -> Nat] BY <1>2
  <2>2. mu \in [Nat -> Nat] BY <1>3
  <2>3. ASSUME NEW i \in Nat \ stop PROVE mu[nx[i]] < mu[i]
    <3>1. Code(f, i)[2] = Stream!Reject OBVIOUS
    <3>2. i < Len(f) BY <1>2, <3>1 DEF Stream!Accept, Stream!Reject
    <3>3. i < Code(f, i)[1] /\ Code(f, i)[1] <= Len(f) /\ Code(f, i)[1] \in Nat BY <1>2, <3>2
    <3>4. mu[i] = Len(f) - i BY <3>2
    <3>5. nx[i] = Code(f, i)[1] OBVIOUS
    <3>6. mu[nx[i]] = IF nx[i] < Len(f) THEN Len(f) - nx[i] ELSE 0 BY <3>3
    <3> HIDE DEF mu, nx, stop
    <3> QED BY <1>3, <3>2, <3>3, <3>4, <3>5, <3>6
  <2> QED BY <2>1, <2>2, <2>3 DEF Descends
<1>5. base \in [Nat -> V] /\ g \in [Nat -> [V -> V]] OBVIOUS
<1>6. \E h : Eq(h)
  <2>1. PICK h \in [Nat -> V] : Recurses(Nat, stop, nx, base, g, h)
    <3> HIDE DEF stop, nx, mu, base, V, g, Eq, at
    <3>1. Descends(Nat, stop, nx, mu) BY <1>4
    <3>2. base \in [Nat -> V] BY <1>5
    <3>3. g \in [Nat -> [V -> V]] BY <1>5
    <3> QED BY <3>1, <3>2, <3>3, DescentExists
  <2>2. ASSUME NEW i \in Nat
        PROVE  h[i] = IF Code(f, i)[2] = Stream!Reject THEN h[Code(f, i)[1]]
                      ELSE <<SubSeq(f, i + 1, Code(f, i)[1]), Code(f, i)[1]>>
    <3>1. h[i] = IF i \in stop THEN base[i] ELSE g[i][h[nx[i]]] BY <2>1 DEF Recurses, Unfolded
    <3>2. nx[i] = Code(f, i)[1] /\ Code(f, i)[1] \in Nat BY <1>2
    <3>3. h[nx[i]] \in V
      <4> HIDE DEF V
      <4> QED BY <2>1, <3>2
    <3>4. g[i][h[nx[i]]] = h[nx[i]]
      <4> HIDE DEF V
      <4> QED BY <3>3
    <3>5. i \in stop <=> Code(f, i)[2] # Stream!Reject OBVIOUS
    <3>6. base[i] = <<SubSeq(f, i + 1, Code(f, i)[1]), Code(f, i)[1]>> OBVIOUS
    <3> HIDE DEF stop, nx, mu, base, V, g
    <3> QED BY <3>1, <3>2, <3>4, <3>5, <3>6
  <2>3. Eq(h)
    <3> HIDE DEF V
    <3> QED BY <2>1, <2>2 DEF Code
  <2> HIDE DEF Eq
  <2> QED BY <2>3
<1>7. Eq(at)
  <2> HIDE DEF Eq
  <2> QED BY <1>6
<1> HIDE DEF at
<1>8. at[o] = IF Code(f, o)[2] = Stream!Reject THEN at[Code(f, o)[1]]
              ELSE <<SubSeq(f, o + 1, Code(f, o)[1]), Code(f, o)[1]>>
      BY <1>7 DEF Code
<1> HIDE DEF Eq
<1> QED BY <1>1, <1>2, <1>8

-----------------------------------------------------------------------------
(* The window *)

Amount(b) == Lesser(WindowSize - Left(b), Len(text) - b.taken)
Slides(b) == ~ (Left(b) >= MaxCodePointSize \/ b.done)
Window(b) == SubSeq(b.window, b.curr + 1, Len(b.window)) \o SubSeq(text, b.taken + 1, b.taken + Amount(b))
\* How much of the file is to be read from the disk, and of the window to be decoded.
ToLoad(b) == IF b.taken < Len(text) THEN Len(text) - b.taken ELSE 0
ToDecode(b) == IF b.curr < Len(b.window) THEN Len(b.window) - b.curr ELSE 0

LEMMA BufferFields ==
    ASSUME NEW b \in Buffers
    PROVE  /\ b.window \in Seq(Bytes) /\ b.scratch \in Seq(Bytes)
           /\ b.curr \in Nat /\ b.taken \in Nat /\ Len(b.window) \in Nat
           /\ b.done \in BOOLEAN /\ b.atEnd \in BOOLEAN /\ b.backtracked \in BOOLEAN
           /\ b.peek \in 1 .. 2 /\ b.peeks \in [1 .. 2 -> Nat \X Nat]
BY DEF Buffers, Bytes

\* What the window holds after it was slid and filled.
LEMMA WindowRight ==
    ASSUME NEW b \in Buffers, text \in Seq(Bytes), Slides(b)
    PROVE  /\ Window(b) \in Seq(Bytes) /\ Amount(b) \in Int
           /\ Len(Window(b)) = ToDecode(b) + (IF Amount(b) > 0 THEN Amount(b) ELSE 0)
           /\ \A i \in 1 .. ToDecode(b) : Window(b)[i] = b.window[b.curr + i]
           /\ \A i \in ToDecode(b) + 1 .. Len(Window(b)) : Window(b)[i] = text[b.taken + i - ToDecode(b)]
           /\ b.taken + Amount(b) \in Nat /\ Amount(b) <= Len(text) - b.taken
           /\ Amount(b) <= 0 => Len(text) - b.taken = Amount(b)
           /\ Amount(b) < WindowSize - Left(b) => Amount(b) = Len(text) - b.taken
           /\ Amount(b) <= WindowSize - Left(b)
<1> DEFINE old == SubSeq(b.window, b.curr + 1, Len(b.window))
           new == SubSeq(text, b.taken + 1, b.taken + Amount(b))
<1>1. /\ b.window \in Seq(Bytes) /\ b.curr \in Nat /\ b.taken \in Nat /\ Len(b.window) \in Nat
      /\ Len(text) \in Nat /\ WindowSize \in Nat /\ WindowSize >= 4
      BY BufferFields, BufferAssumption DEF MaxCodePointSize
<1>2. Left(b) = Len(b.window) - b.curr /\ Left(b) < 4 BY <1>1 DEF Slides, MaxCodePointSize, Left
<1>3. Amount(b) = IF WindowSize - Left(b) < Len(text) - b.taken THEN WindowSize - Left(b) ELSE Len(text) - b.taken
      BY DEF Amount, Lesser
<1>4. /\ b.taken + Amount(b) \in Nat /\ Amount(b) <= Len(text) - b.taken /\ Amount(b) \in Int
      /\ Amount(b) <= 0 => Len(text) - b.taken = Amount(b)
      /\ Amount(b) < WindowSize - Left(b) => Amount(b) = Len(text) - b.taken
      /\ Amount(b) <= WindowSize - Left(b)
  <2> DEFINE room == WindowSize - Left(b)
             rest == Len(text) - b.taken
  <2>1. room \in Nat /\ rest \in Int /\ rest + b.taken \in Nat /\ b.taken \in Nat /\ room > 0
    <3>1. Left(b) \in Int /\ Left(b) < 4 BY <1>1, <1>2
    <3>2. room \in Nat /\ room > 0 BY <1>1, <3>1
    <3> QED BY <1>1, <3>2
  <2>2. Amount(b) = IF room < rest THEN room ELSE rest BY <1>3
  <2> HIDE DEF room, rest
  <2>3. /\ b.taken + Amount(b) \in Nat /\ Amount(b) <= rest /\ Amount(b) \in Int
        /\ Amount(b) <= 0 => rest = Amount(b)
        /\ Amount(b) < room => Amount(b) = rest
        /\ Amount(b) <= room
        BY <2>1, <2>2
  <2> QED BY <2>3 DEF room, rest
<1> HIDE DEF old, new
<1>5. /\ old \in Seq(Bytes) /\ Len(old) = ToDecode(b)
      /\ \A i \in 1 .. ToDecode(b) : old[i] = b.window[b.curr + i]
  <2>1. b.curr + 1 \in Int /\ Len(b.window) \in Int /\ \A i \in b.curr + 1 .. Len(b.window) : b.window[i] \in Bytes
        BY <1>1
  <2>2. /\ old \in Seq(Bytes) /\ Len(old) = IF b.curr + 1 <= Len(b.window) THEN Len(b.window) - (b.curr + 1) + 1 ELSE 0
        /\ \A i \in 1 .. Len(b.window) - (b.curr + 1) + 1 : old[i] = b.window[b.curr + 1 + i - 1]
    <3> DEFINE m == b.curr + 1
               n == Len(b.window)
    <3>1. m \in Int /\ n \in Int /\ (\A i \in m .. n : b.window[i] \in Bytes) /\ old = SubSeq(b.window, m, n)
          BY <2>1 DEF old
    <3> HIDE DEF m, n, old
    <3>2. /\ old \in Seq(Bytes) /\ Len(old) = IF m <= n THEN n - m + 1 ELSE 0
          /\ \A i \in 1 .. n - m + 1 : old[i] = b.window[m + i - 1]
          BY <3>1, SubSeqProperties
    <3> QED BY <3>2 DEF m, n
  <2>3. Len(old) = ToDecode(b) BY <1>1, <2>2 DEF ToDecode
  <2>4. ASSUME NEW i \in 1 .. ToDecode(b) PROVE old[i] = b.window[b.curr + i]
    <3>1. i \in 1 .. Len(b.window) - (b.curr + 1) + 1 /\ b.curr + 1 + i - 1 = b.curr + i BY <1>1 DEF ToDecode
    <3> QED BY <2>2, <3>1
  <2> QED BY <2>2, <2>3, <2>4
<1>6. /\ new \in Seq(Bytes) /\ Len(new) = IF Amount(b) > 0 THEN Amount(b) ELSE 0
      /\ \A i \in 1 .. Amount(b) : new[i] = text[b.taken + i]
  <2>1. /\ b.taken + 1 \in Int /\ b.taken + Amount(b) \in Int
        /\ \A i \in b.taken + 1 .. b.taken + Amount(b) : text[i] \in Bytes
        BY <1>1, <1>4
  <2> DEFINE m == b.taken + 1
             n == b.taken + Amount(b)
  <2>2. /\ new \in Seq(Bytes) /\ Len(new) = IF m <= n THEN n - m + 1 ELSE 0
        /\ \A i \in 1 .. n - m + 1 : new[i] = text[m + i - 1]
    <3>1. new = SubSeq(text, m, n) BY DEF new
    <3> HIDE DEF m, n, new
    <3>2. m \in Int /\ n \in Int /\ \A i \in m .. n : text[i] \in Bytes BY <2>1 DEF m, n
    <3> QED BY <3>1, <3>2, SubSeqProperties
  <2>3. Len(new) = IF Amount(b) > 0 THEN Amount(b) ELSE 0 BY <1>1, <1>4, <2>2
  <2>4. ASSUME NEW i \in 1 .. Amount(b) PROVE new[i] = text[b.taken + i]
    <3>1. i \in 1 .. n - m + 1 /\ m + i - 1 = b.taken + i BY <1>1, <1>4
    <3> HIDE DEF m, n
    <3> QED BY <2>2, <3>1
  <2> QED BY <2>2, <2>3, <2>4
<1>7. /\ Window(b) \in Seq(Bytes) /\ Len(Window(b)) = Len(old) + Len(new)
      /\ \A i \in 1 .. Len(old) + Len(new) : Window(b)[i] = IF i <= Len(old) THEN old[i] ELSE new[i - Len(old)]
      BY <1>5, <1>6, ConcatProperties DEF Window, old, new
<1>8. ToDecode(b) \in Nat BY <1>1 DEF ToDecode
<1>9. ASSUME NEW i \in 1 .. ToDecode(b) PROVE Window(b)[i] = b.window[b.curr + i]
  <2>1. i \in 1 .. Len(old) + Len(new) /\ i <= Len(old) BY <1>4, <1>5, <1>6, <1>8
  <2> QED BY <1>5, <1>7, <2>1
<1>10. ASSUME NEW i \in ToDecode(b) + 1 .. Len(Window(b)) PROVE Window(b)[i] = text[b.taken + i - ToDecode(b)]
  <2> DEFINE n == ToDecode(b)
  <2>0. n \in Nat /\ Len(old) = n /\ Len(new) \in Nat /\ (Len(new) = IF Amount(b) > 0 THEN Amount(b) ELSE 0)
        /\ Len(Window(b)) = n + Len(new)
        BY <1>4, <1>5, <1>6, <1>7, <1>8
  <2>1. /\ i \in 1 .. Len(old) + Len(new) /\ ~ i <= Len(old) /\ i - Len(old) \in 1 .. Amount(b)
        /\ b.taken + (i - Len(old)) = b.taken + i - n
    <3>1. i \in n + 1 .. n + Len(new) BY <2>0
    <3> HIDE DEF n
    <3> QED BY <1>1, <1>4, <2>0, <3>1
  <2> QED BY <1>6, <1>7, <2>1
<1> QED BY <1>4, <1>5, <1>6, <1>7, <1>9, <1>10

\* Sliding loses and skips nothing.
LEMMA FilledRight ==
    ASSUME NEW b \in Buffers, text \in Seq(Bytes)
    PROVE  /\ Filled(b) \in Buffers
           /\ ToLoad(Filled(b)) + ToDecode(Filled(b)) = ToLoad(b) + ToDecode(b)
           /\ Filled(b) = [b EXCEPT !.window = Filled(b).window, !.curr = Filled(b).curr,
                                    !.taken = Filled(b).taken, !.done = Filled(b).done]
<1>0. /\ b.window \in Seq(Bytes) /\ b.curr \in Nat /\ b.taken \in Nat /\ Len(b.window) \in Nat
      /\ Len(text) \in Nat
      BY BufferFields
<1>1. CASE ~ Slides(b)
  <2>1. Filled(b) = b BY <1>1 DEF Filled, Slides
  <2>2. b = [b EXCEPT !.window = b.window, !.curr = b.curr, !.taken = b.taken, !.done = b.done] BY DEF Buffers
  <2> QED BY <2>1, <2>2
<1>2. CASE Slides(b)
  <2> DEFINE done == Amount(b) < WindowSize - Left(b)
             c == [b EXCEPT !.window = Window(b), !.curr = 0, !.taken = @ + Amount(b), !.done = done]
  <2>1. Filled(b) = c BY <1>2 DEF Filled, Slides, Window, Amount
  <2>2. /\ Window(b) \in Seq(Bytes) /\ Amount(b) \in Int /\ b.taken + Amount(b) \in Nat
        /\ Len(Window(b)) = ToDecode(b) + (IF Amount(b) > 0 THEN Amount(b) ELSE 0)
        /\ Amount(b) <= Len(text) - b.taken
        /\ Amount(b) <= 0 => Len(text) - b.taken = Amount(b)
        BY <1>2, WindowRight
  <2>3. c \in Buffers
    <3> HIDE DEF done
    <3>1. done \in BOOLEAN BY DEF done
    <3> QED BY <2>2, <3>1 DEF Buffers, Bytes
  <2>4. c.window = Window(b) /\ c.curr = 0 /\ c.taken = b.taken + Amount(b) /\ c.done = done BY DEF Buffers
  <2>5. c = [b EXCEPT !.window = c.window, !.curr = c.curr, !.taken = c.taken, !.done = c.done]
    <3> HIDE DEF done
    <3> QED BY DEF Buffers
  <2> HIDE DEF c
  <2>6. ToLoad(c) + ToDecode(c) = ToLoad(b) + ToDecode(b)
    <3>1. ToDecode(b) \in Nat BY <1>0 DEF ToDecode
    <3>2. Len(Window(b)) \in Nat BY <2>2
    <3>3. ToDecode(c) = Len(Window(b)) BY <2>4, <3>2 DEF ToDecode
    <3>4. ToLoad(c) = IF b.taken + Amount(b) < Len(text) THEN Len(text) - (b.taken + Amount(b)) ELSE 0
          BY <2>4 DEF ToLoad
    <3>5. ToLoad(b) = IF b.taken < Len(text) THEN Len(text) - b.taken ELSE 0 BY DEF ToLoad
    <3>6. Amount(b) \in Int /\ Amount(b) <= Len(text) - b.taken /\ (Amount(b) <= 0 => Len(text) - b.taken = Amount(b)) BY <2>2
    <3>7. ToDecode(c) = ToDecode(b) + (IF Amount(b) > 0 THEN Amount(b) ELSE 0) BY <2>2, <3>3
    <3> HIDE DEF done
    <3>8. CASE Amount(b) > 0
      <4>1. ToDecode(c) = ToDecode(b) + Amount(b) BY <3>7, <3>8
      <4>2. b.taken < Len(text) BY <1>0, <3>6, <3>8
      <4>3. ToLoad(b) = Len(text) - b.taken BY <3>5, <4>2
      <4>4. ToLoad(c) = Len(text) - (b.taken + Amount(b)) BY <1>0, <3>4, <3>6, <3>8
      <4> QED BY <1>0, <3>1, <3>6, <4>1, <4>3, <4>4
    <3>9. CASE ~ Amount(b) > 0
      <4>1. ToDecode(c) = ToDecode(b) BY <3>1, <3>7, <3>9
      <4>2. Len(text) - b.taken <= 0 /\ Len(text) = b.taken + Amount(b)
        <5>1. Amount(b) <= 0 BY <3>6, <3>9
        <5>2. Len(text) - b.taken = Amount(b) BY <3>6, <5>1
        <5> QED BY <1>0, <3>6, <5>1, <5>2
      <4>3. ToLoad(b) = 0 /\ ToLoad(c) = 0 BY <1>0, <2>2, <3>4, <3>5, <3>6, <3>9, <4>2
      <4> QED BY <4>1, <4>3
    <3> QED BY <3>8, <3>9
  <2> QED BY <2>1, <2>3, <2>5, <2>6
<1> QED BY <1>1, <1>2

EndOf(b) == Code(Filled(b).window, Filled(b).curr)
Skipped(b) == [Filled(b) EXCEPT !.curr = EndOf(b)[1]]
Taken(b) == [Filled(b) EXCEPT !.curr = EndOf(b)[1],
                              !.scratch = SubSeq(Filled(b).window, Filled(b).curr + 1, EndOf(b)[1])]

LEMMA TakenRight ==
    ASSUME NEW b \in Buffers, text \in Seq(Bytes)
    PROVE  /\ EndOf(b)[1] \in Nat /\ EndOf(b)[2] \in {Stream!Accept, Stream!Reject}
           /\ Skipped(b) \in Buffers /\ Taken(b) \in Buffers
           /\ EndOf(b)[2] = Stream!Reject =>
                ToLoad(Skipped(b)) + ToDecode(Skipped(b)) < ToLoad(b) + ToDecode(b)
<1> DEFINE a == Filled(b)
           e == EndOf(b)
           word == SubSeq(a.window, a.curr + 1, e[1])
<1>1. a \in Buffers /\ ToLoad(a) + ToDecode(a) = ToLoad(b) + ToDecode(b) BY FilledRight
<1> HIDE DEF a
<1>2. /\ a.window \in Seq(Bytes) /\ a.curr \in Nat /\ a.taken \in Nat /\ Len(a.window) \in Nat
      /\ Len(text) \in Nat
      BY <1>1, BufferFields
<1>3. e = Code(a.window, a.curr) BY DEF EndOf, a
<1> HIDE DEF e
<1>4. /\ e[1] \in Nat /\ e[2] \in {Stream!Accept, Stream!Reject}
      /\ a.curr < Len(a.window) => a.curr < e[1] /\ e[1] <= Len(a.window)
      /\ ~ a.curr < Len(a.window) => e[1] = a.curr /\ e[2] = Stream!Accept
      BY <1>2, <1>3, DecodeRight
<1>5. Skipped(b) = [a EXCEPT !.curr = e[1]] /\ Taken(b) = [a EXCEPT !.curr = e[1], !.scratch = word]
      BY DEF Skipped, Taken, a, e
<1>6. word \in Seq(Bytes)
  <2>1. \A i \in a.curr + 1 .. e[1] : a.window[i] \in Bytes BY <1>2, <1>4
  <2>2. a.curr + 1 \in Int /\ e[1] \in Int BY <1>2, <1>4
  <2> QED BY <2>1, <2>2, SubSeqProperties
<1> HIDE DEF word
<1>7. Skipped(b) \in Buffers /\ Taken(b) \in Buffers BY <1>1, <1>4, <1>5, <1>6 DEF Buffers, Bytes
<1>8. ASSUME e[2] = Stream!Reject PROVE ToLoad(Skipped(b)) + ToDecode(Skipped(b)) < ToLoad(b) + ToDecode(b)
  <2>1. a.curr < Len(a.window) BY <1>2, <1>4, <1>8 DEF Stream!Accept, Stream!Reject
  <2>2. a.curr < e[1] /\ e[1] <= Len(a.window) BY <1>4, <2>1
  <2> DEFINE s == Skipped(b)
  <2>3. s.curr = e[1] /\ s.taken = a.taken /\ s.window = a.window BY <1>1, <1>5 DEF Buffers
  <2> HIDE DEF s
  <2>4. ToLoad(s) = ToLoad(a) BY <2>3 DEF ToLoad
  <2>5. ToDecode(s) < ToDecode(a) /\ ToDecode(s) \in Nat /\ ToDecode(a) \in Nat BY <1>2, <1>4, <2>1, <2>2, <2>3 DEF ToDecode
  <2>6. ToLoad(a) \in Nat BY <1>2 DEF ToLoad
  <2>7. ToLoad(s) + ToDecode(s) < ToLoad(b) + ToDecode(b) BY <1>1, <2>4, <2>5, <2>6
  <2> QED BY <2>7 DEF s
<1> QED BY <1>4, <1>7, <1>8 DEF e

\* A rejected byte is left behind, and the read starts over.
LEMMA TakeUnfolds ==
    ASSUME NEW b \in Buffers, text \in Seq(Bytes)
    PROVE  Take[b] = IF EndOf(b)[2] = Stream!Reject THEN Take[Skipped(b)] ELSE Taken(b)
<1> DEFINE Eq(h) == h = [unfilled \in Buffers |->
                       LET c   == Filled(unfilled)
                           end == Stream!Decode(c.window, c.curr)
                       IN  IF end[2] = Stream!Reject THEN h[[c EXCEPT !.curr = end[1]]]
                           ELSE [c EXCEPT !.curr = end[1], !.scratch = SubSeq(c.window, c.curr + 1, end[1])]]
           Re(h) == h = [c \in Buffers |-> IF EndOf(c)[2] = Stream!Reject THEN h[Skipped(c)] ELSE Taken(c)]
           stop == {c \in Buffers : EndOf(c)[2] # Stream!Reject}
           nx   == [c \in Buffers |-> Skipped(c)]
           mu   == [c \in Buffers |-> ToLoad(c) + ToDecode(c)]
           base == [c \in Buffers |-> Taken(c)]
           g    == [c \in Buffers |-> [v \in Buffers |-> v]]
<1>1. Take = CHOOSE h : Eq(h) BY DEF Take
<1>2. \A h : Eq(h) <=> Re(h) BY DEF EndOf, Skipped, Taken, Code
<1>3. \A c \in Buffers : /\ Skipped(c) \in Buffers /\ Taken(c) \in Buffers
                         /\ EndOf(c)[2] = Stream!Reject =>
                              ToLoad(Skipped(c)) + ToDecode(Skipped(c)) < ToLoad(c) + ToDecode(c)
      BY TakenRight
<1>4. \A c \in Buffers : ToLoad(c) + ToDecode(c) \in Nat
  <2> SUFFICES ASSUME NEW c \in Buffers PROVE ToLoad(c) + ToDecode(c) \in Nat OBVIOUS
  <2>1. c.curr \in Nat /\ c.taken \in Nat /\ Len(c.window) \in Nat /\ Len(text) \in Nat BY BufferFields
  <2> QED BY <2>1 DEF ToLoad, ToDecode
<1>5. Descends(Buffers, stop, nx, mu)
  <2>1. nx \in [Buffers -> Buffers] BY <1>3
  <2>2. mu \in [Buffers -> Nat] BY <1>4
  <2>3. \A c \in Buffers \ stop : mu[nx[c]] < mu[c] BY <1>3
  <2> QED BY <2>1, <2>2, <2>3 DEF Descends
<1>6. base \in [Buffers -> Buffers] BY <1>3
<1>7. g \in [Buffers -> [Buffers -> Buffers]] OBVIOUS
<1>8. \E h : Re(h)
  <2>1. PICK h \in [Buffers -> Buffers] : Recurses(Buffers, stop, nx, base, g, h)
    <3> HIDE DEF stop, nx, mu, base, g
    <3> QED BY <1>5, <1>6, <1>7, DescentExists
  <2>2. ASSUME NEW c \in Buffers
        PROVE  h[c] = IF EndOf(c)[2] = Stream!Reject THEN h[Skipped(c)] ELSE Taken(c)
    <3>1. h[c] = IF c \in stop THEN base[c] ELSE g[c][h[nx[c]]] BY <2>1 DEF Recurses, Unfolded
    <3>2. g[c][h[nx[c]]] = h[Skipped(c)] BY <1>3
    <3>3. c \in stop <=> EndOf(c)[2] # Stream!Reject OBVIOUS
    <3>4. base[c] = Taken(c) OBVIOUS
    <3> HIDE DEF stop, nx, mu, base, g
    <3> QED BY <3>1, <3>2, <3>3, <3>4
  <2>3. Re(h) BY <2>1, <2>2
  <2> HIDE DEF Re
  <2> QED BY <2>3
<1>9. Re(Take)
  <2> HIDE DEF Re, Eq
  <2> QED BY <1>1, <1>2, <1>8
<1> QED BY <1>9

-----------------------------------------------------------------------------
(* A code point out of the window is one out of the file *)

Reached(b) == b.taken - Left(b)

\* The window is the part of the file that was read last.
Core(b) ==
    /\ b \in Buffers
    /\ b.curr <= Len(b.window) /\ Len(b.window) <= b.taken /\ b.taken <= Len(text)
    /\ \A i \in 1 .. Len(b.window) : b.window[i] = text[b.taken - Len(b.window) + i]
    /\ b.done => b.taken = Len(text)

Alike(a, b) ==
    /\ a.atEnd = b.atEnd /\ a.peeks = b.peeks /\ a.peek = b.peek /\ a.backtracked = b.backtracked

\* Sliding leaves the place in the file as it is, and a code point in the window.
LEMMA FilledCore ==
    ASSUME NEW b, Core(b), text \in Seq(Bytes)
    PROVE  /\ Core(Filled(b)) /\ Reached(Filled(b)) = Reached(b) /\ Alike(Filled(b), b)
           /\ Left(Filled(b)) >= 4 \/ Filled(b).taken = Len(text)
           /\ Left(Filled(b)) = 0 => Filled(b).done
<1> DEFINE c == Filled(b)
<1>0. /\ b \in Buffers /\ b.window \in Seq(Bytes) /\ b.curr \in Nat /\ b.taken \in Nat /\ Len(b.window) \in Nat
      /\ Len(text) \in Nat /\ WindowSize \in Nat /\ WindowSize >= 4
      BY BufferFields, BufferAssumption DEF Core, MaxCodePointSize
<1>a. /\ b.curr <= Len(b.window) /\ Len(b.window) <= b.taken /\ b.taken <= Len(text)
      /\ \A i \in 1 .. Len(b.window) : b.window[i] = text[b.taken - Len(b.window) + i]
      /\ b.done => b.taken = Len(text)
      BY DEF Core
<1>b. Left(b) = Len(b.window) - b.curr /\ Left(b) \in Nat BY <1>0, <1>a DEF Left
<1>1. CASE ~ Slides(b)
  <2>1. Filled(b) = b BY <1>1 DEF Filled, Slides
  <2>2. Left(b) >= 4 \/ b.done BY <1>1 DEF Slides, MaxCodePointSize
  <2>3. Left(b) = 0 => b.done BY <2>2
  <2>4. Left(b) >= 4 \/ b.taken = Len(text) BY <1>a, <2>2
  <2> QED BY <2>1, <2>3, <2>4 DEF Alike
<1>2. CASE Slides(b)
  <2>1. /\ c.window = Window(b) /\ c.curr = 0 /\ c.taken = b.taken + Amount(b)
        /\ c.done = (Amount(b) < WindowSize - Left(b)) /\ Alike(c, b)
    <3> DEFINE done == Amount(b) < WindowSize - Left(b)
               d == [b EXCEPT !.window = Window(b), !.curr = 0, !.taken = @ + Amount(b), !.done = done]
    <3>1. c = d BY <1>2 DEF Filled, Slides, Window, Amount
    <3> HIDE DEF done
    <3>2. d.window = Window(b) /\ d.curr = 0 /\ d.taken = b.taken + Amount(b) /\ d.done = done BY <1>0 DEF Buffers
    <3>3. Alike(d, b) BY <1>0 DEF Buffers, Alike
    <3> HIDE DEF c, d
    <3> QED BY <3>1, <3>2, <3>3 DEF done
  <2>2. c \in Buffers BY <1>0, FilledRight
  <2> HIDE DEF c
  <2>3. ToDecode(b) = Left(b) BY <1>0, <1>a, <1>b DEF ToDecode
  <2>4. Amount(b) \in Nat
    <3>1. Amount(b) \in Int /\ (Amount(b) <= 0 => Len(text) - b.taken = Amount(b)) BY <1>0, <1>2, WindowRight
    <3> QED BY <1>0, <1>a, <3>1
  <2>5. Len(c.window) = Left(b) + Amount(b)
    <3>1. Len(Window(b)) = ToDecode(b) + (IF Amount(b) > 0 THEN Amount(b) ELSE 0) BY <1>0, <1>2, WindowRight
    <3> QED BY <1>b, <2>1, <2>3, <2>4, <3>1
  <2>6. /\ \A i \in 1 .. Left(b) : c.window[i] = b.window[b.curr + i]
        /\ \A i \in Left(b) + 1 .. Len(c.window) : c.window[i] = text[b.taken + i - Left(b)]
        BY <1>0, <1>2, <2>1, <2>3, WindowRight
  <2>7. /\ b.taken + Amount(b) <= Len(text)
        /\ Amount(b) < WindowSize - Left(b) => b.taken + Amount(b) = Len(text)
        /\ Amount(b) <= WindowSize - Left(b)
    <3>1. /\ Amount(b) <= Len(text) - b.taken /\ Amount(b) <= WindowSize - Left(b)
          /\ Amount(b) < WindowSize - Left(b) => Amount(b) = Len(text) - b.taken
          BY <1>0, <1>2, WindowRight
    <3> QED BY <1>0, <1>b, <2>4, <3>1
  <2>8. ASSUME NEW i \in 1 .. Len(c.window) PROVE c.window[i] = text[c.taken - Len(c.window) + i]
    <3>1. c.taken - Len(c.window) + i = b.taken - Left(b) + i BY <1>0, <1>b, <2>1, <2>4, <2>5
    <3>2. CASE i <= Left(b)
      <4>1. i \in 1 .. Left(b) /\ b.curr + i \in 1 .. Len(b.window) BY <1>0, <1>b, <2>4, <2>5, <3>2
      <4>2. b.taken - Len(b.window) + (b.curr + i) = b.taken - Left(b) + i BY <1>0, <1>b
      <4> QED BY <1>a, <2>6, <3>1, <4>1, <4>2
    <3>3. CASE ~ i <= Left(b)
      <4>1. i \in Left(b) + 1 .. Len(c.window) /\ b.taken + i - Left(b) = b.taken - Left(b) + i
            BY <1>0, <1>b, <2>4, <2>5, <3>3
      <4> QED BY <2>6, <3>1, <4>1
    <3> QED BY <3>2, <3>3
  <2>9. Core(c)
    <3>1. c.curr <= Len(c.window) /\ Len(c.window) <= c.taken /\ c.taken <= Len(text)
      <4>1. c.curr = 0 /\ c.taken = b.taken + Amount(b) /\ Left(b) <= b.taken BY <1>0, <1>a, <1>b, <2>1
      <4>2. c.curr <= Len(c.window) BY <1>b, <2>4, <2>5, <4>1
      <4>3. Len(c.window) <= c.taken BY <1>0, <1>b, <2>4, <2>5, <4>1
      <4> QED BY <2>7, <4>1, <4>2, <4>3
    <3>2. c.done => c.taken = Len(text) BY <2>1, <2>7
    <3> QED BY <2>2, <2>8, <3>1, <3>2 DEF Core
  <2>10. Left(c) = Left(b) + Amount(b) BY <1>b, <2>1, <2>4, <2>5 DEF Left
  <2>11. Reached(c) = Reached(b) BY <1>0, <1>b, <2>1, <2>4, <2>10 DEF Reached
  <2>12. Left(c) >= 4 \/ c.taken = Len(text) BY <1>0, <1>b, <2>1, <2>4, <2>7, <2>10
  <2>13. ASSUME Left(c) = 0 PROVE c.done
    <3>1. Left(b) = 0 /\ Amount(b) = 0 BY <1>b, <2>4, <2>10, <2>13
    <3>2. Amount(b) < WindowSize - Left(b) BY <1>0, <3>1
    <3> QED BY <2>1, <3>2
  <2> QED BY <2>1, <2>9, <2>11, <2>12, <2>13 DEF c
<1> QED BY <1>1, <1>2

\* Where decode stops in the window is where it stops in the file.
LEMMA EndRight ==
    ASSUME NEW b, Core(b), text \in Seq(Bytes)
    PROVE  /\ Reached(b) \in Nat /\ Filled(b) \in Buffers
           /\ Code(text, Reached(b))[2] = EndOf(b)[2]
           /\ Code(text, Reached(b))[1] = Reached(b) - Filled(b).curr + EndOf(b)[1]
           /\ EndOf(b)[1] \in Nat /\ Filled(b).curr <= EndOf(b)[1] /\ EndOf(b)[1] <= Len(Filled(b).window)
           /\ Filled(b).curr = EndOf(b)[1] => Filled(b).curr = Len(Filled(b).window)
<1> DEFINE c == Filled(b)
           k == c.taken - Len(c.window)
<1>1. Core(c) /\ Reached(c) = Reached(b) /\ (Left(c) >= 4 \/ c.taken = Len(text)) BY FilledCore
<1> HIDE DEF c
<1>2. /\ c \in Buffers /\ c.window \in Seq(Bytes) /\ c.curr \in Nat /\ c.taken \in Nat /\ Len(c.window) \in Nat
      /\ Len(text) \in Nat
      BY <1>1, BufferFields DEF Core
<1>3. /\ c.curr <= Len(c.window) /\ Len(c.window) <= c.taken /\ c.taken <= Len(text)
      /\ \A i \in 1 .. Len(c.window) : c.window[i] = text[k + i]
      BY <1>1 DEF Core
<1>4. k \in Nat /\ k + Len(c.window) = c.taken /\ Reached(b) = k + c.curr BY <1>1, <1>2, <1>3 DEF Reached, Left
<1> HIDE DEF k
<1>5. EndOf(b) = Code(c.window, c.curr) BY DEF EndOf, c
<1>6. /\ Code(text, k + c.curr)[1] = k + Code(c.window, c.curr)[1]
      /\ Code(text, k + c.curr)[2] = Code(c.window, c.curr)[2]
  <2>1. k + Len(c.window) <= Len(text) BY <1>3, <1>4
  <2>2. Len(c.window) - c.curr >= 4 \/ k + Len(c.window) = Len(text) BY <1>1, <1>4 DEF Left
  <2> DEFINE w == c.window
             o == c.curr
  <2>3. /\ w \in Seq(Bytes) /\ o \in Nat /\ k \in Nat /\ k + Len(w) <= Len(text) /\ o <= Len(w)
        /\ \A i \in 1 .. Len(w) : w[i] = text[k + i]
        /\ Len(w) - o >= 4 \/ k + Len(w) = Len(text)
        BY <1>2, <1>3, <1>4, <2>1, <2>2
  <2> HIDE DEF w, o
  <2>4. Code(text, k + o)[1] = k + Code(w, o)[1] /\ Code(text, k + o)[2] = Code(w, o)[2]
        BY <2>3, DecodeShifted
  <2> QED BY <2>4 DEF w, o
<1>7. /\ EndOf(b)[1] \in Nat
      /\ c.curr < Len(c.window) => c.curr < EndOf(b)[1] /\ EndOf(b)[1] <= Len(c.window)
      /\ ~ c.curr < Len(c.window) => EndOf(b)[1] = c.curr
      BY <1>2, <1>5, DecodeRight
<1>8. Code(text, Reached(b))[1] = Reached(b) - c.curr + EndOf(b)[1] BY <1>2, <1>4, <1>5, <1>6, <1>7
<1>9. c.curr <= EndOf(b)[1] /\ EndOf(b)[1] <= Len(c.window) /\ (c.curr = EndOf(b)[1] => c.curr = Len(c.window))
      BY <1>2, <1>3, <1>7
<1>10. Reached(b) \in Nat BY <1>2, <1>4
<1>11. Code(text, Reached(b))[2] = EndOf(b)[2] BY <1>4, <1>5, <1>6
<1> QED BY <1>2, <1>7, <1>8, <1>9, <1>10, <1>11 DEF c

LEMMA SkippedRight ==
    ASSUME NEW b, Core(b), text \in Seq(Bytes)
    PROVE  /\ Core(Skipped(b)) /\ Alike(Skipped(b), b)
           /\ Reached(Skipped(b)) = Code(text, Reached(b))[1]
<1> DEFINE c == Filled(b)
           s == Skipped(b)
<1>1. Core(c) /\ Reached(c) = Reached(b) /\ Alike(c, b) BY FilledCore
<1>2. /\ c \in Buffers /\ Code(text, Reached(b))[1] = Reached(b) - c.curr + EndOf(b)[1]
      /\ EndOf(b)[1] \in Nat /\ EndOf(b)[1] <= Len(c.window)
      BY EndRight
<1>3. s = [c EXCEPT !.curr = EndOf(b)[1]] BY DEF Skipped
<1>4. s \in Buffers BY <1>1, TakenRight DEF Core
<1> HIDE DEF c, s
<1>5. /\ s.curr = EndOf(b)[1] /\ s.taken = c.taken /\ s.window = c.window /\ s.done = c.done /\ Alike(s, c)
      BY <1>2, <1>3 DEF Buffers, Alike
<1>6. Core(s) BY <1>1, <1>2, <1>4, <1>5 DEF Core
<1>7. Reached(s) = Reached(c) - c.curr + EndOf(b)[1]
  <2>1. c.curr \in Nat /\ c.taken \in Nat /\ Len(c.window) \in Nat BY <1>2, BufferFields
  <2> QED BY <1>2, <1>5, <2>1 DEF Reached, Left
<1> QED BY <1>1, <1>2, <1>5, <1>6, <1>7 DEF Alike, s

LEMMA TakenCore ==
    ASSUME NEW b, Core(b), text \in Seq(Bytes)
    PROVE  /\ Core(Taken(b)) /\ Alike(Taken(b), b)
           /\ Reached(Taken(b)) = Code(text, Reached(b))[1]
           /\ Taken(b).scratch = SubSeq(text, Reached(b) + 1, Code(text, Reached(b))[1])
           /\ Len(Taken(b).scratch) <= Taken(b).curr
           /\ Reached(Taken(b)) = Reached(b) + Len(Taken(b).scratch)
           /\ Taken(b).scratch = <<>> => Taken(b).done /\ Reached(Taken(b)) = Len(text)
<1> DEFINE c == Filled(b)
           s == Taken(b)
           e == EndOf(b)[1]
           o == Reached(b)
           word == SubSeq(c.window, c.curr + 1, e)
<1>1. Core(c) /\ Reached(c) = o /\ Alike(c, b) /\ (Left(c) = 0 => c.done) BY FilledCore
<1>2. /\ o \in Nat /\ c \in Buffers /\ Code(text, o)[1] = o - c.curr + e
      /\ e \in Nat /\ c.curr <= e /\ e <= Len(c.window)
      /\ c.curr = e => c.curr = Len(c.window)
      BY EndRight
<1>3. s = [c EXCEPT !.curr = e, !.scratch = word] BY DEF Taken
<1>4. s \in Buffers BY <1>1, TakenRight DEF Core
<1> HIDE DEF c, s, e, o, word
<1>5. /\ s.curr = e /\ s.taken = c.taken /\ s.window = c.window /\ s.done = c.done /\ s.scratch = word /\ Alike(s, c)
      BY <1>2, <1>3 DEF Buffers, Alike
<1>6. Core(s) BY <1>1, <1>2, <1>4, <1>5 DEF Core
<1>7. /\ c.curr \in Nat /\ c.taken \in Nat /\ Len(c.window) \in Nat /\ c.window \in Seq(Bytes)
      /\ Len(text) \in Nat
      BY <1>2, BufferFields
<1>8. Reached(s) = o - c.curr + e /\ o = c.taken - Len(c.window) + c.curr
  <2>1. o = c.taken - (Len(c.window) - c.curr) BY <1>1 DEF Reached, Left
  <2>2. Reached(s) = c.taken - (Len(c.window) - e) BY <1>5 DEF Reached, Left
  <2> QED BY <1>2, <1>7, <2>1, <2>2
<1>9. Len(c.window) <= c.taken /\ c.taken <= Len(text)
      /\ (\A i \in 1 .. Len(c.window) : c.window[i] = text[c.taken - Len(c.window) + i])
      BY <1>1 DEF Core
<1>10. /\ word \in Seq(Bytes) /\ Len(word) = e - c.curr
       /\ \A i \in 1 .. e - c.curr : word[i] = c.window[c.curr + i]
  <2> DEFINE m == c.curr + 1
  <2>1. m \in Int /\ e \in Int /\ \A i \in m .. e : c.window[i] \in Bytes BY <1>2, <1>7
  <2>2. /\ word \in Seq(Bytes) /\ Len(word) = IF m <= e THEN e - m + 1 ELSE 0
        /\ \A i \in 1 .. e - m + 1 : word[i] = c.window[m + i - 1]
    <3>1. word = SubSeq(c.window, m, e) BY DEF word
    <3> HIDE DEF m
    <3> QED BY <2>1, <3>1, SubSeqProperties
  <2>3. Len(word) = e - c.curr BY <1>2, <1>7, <2>2
  <2>4. ASSUME NEW i \in 1 .. e - c.curr PROVE word[i] = c.window[c.curr + i]
    <3>1. i \in 1 .. e - m + 1 /\ m + i - 1 = c.curr + i BY <1>2, <1>7
    <3> HIDE DEF m
    <3> QED BY <2>2, <3>1
  <2> QED BY <2>2, <2>3, <2>4
<1>11. word = SubSeq(text, o + 1, Code(text, o)[1])
  <2> DEFINE n == o + 1
             f == Code(text, o)[1]
             there == SubSeq(text, n, f)
  <2>1. f = o - c.curr + e BY <1>2
  <2>2. n \in Int /\ f \in Int /\ f <= Len(text) /\ n >= 1
    <3>1. e <= Len(c.window) /\ Len(c.window) <= c.taken /\ c.taken <= Len(text) BY <1>2, <1>9
    <3>2. f = c.taken - Len(c.window) + e BY <1>2, <1>7, <1>8, <2>1
    <3>3. n \in Int /\ n >= 1 BY <1>2
    <3> QED BY <1>2, <1>7, <3>1, <3>2, <3>3
  <2> HIDE DEF f
  <2>3. /\ there \in Seq(Bytes) /\ Len(there) = IF n <= f THEN f - n + 1 ELSE 0
        /\ \A i \in 1 .. f - n + 1 : there[i] = text[n + i - 1]
    <3> HIDE DEF n
    <3>1. \A i \in n .. f : text[i] \in Bytes BY <1>7, <2>2
    <3> QED BY <2>2, <3>1, SubSeqProperties
  <2>4. Len(there) = e - c.curr BY <1>2, <1>7, <2>1, <2>3
  <2>5. ASSUME NEW i \in 1 .. e - c.curr PROVE there[i] = word[i]
    <3>1. i \in 1 .. f - n + 1 /\ n + i - 1 = o + i BY <1>2, <1>7, <2>1
    <3>2. c.curr + i \in 1 .. Len(c.window) /\ c.taken - Len(c.window) + (c.curr + i) = o + i
      <4> DEFINE z == c.curr
                 y == Len(c.window)
                 x == c.taken
      <4>1. z \in Nat /\ x \in Nat /\ y \in Nat /\ e \in Nat /\ o \in Nat /\ z <= e /\ e <= y /\ o = x - y + z
            BY <1>2, <1>7, <1>8
      <4> HIDE DEF x, y, z
      <4>2. i \in Nat /\ i >= 1 /\ i <= e - z BY <4>1 DEF z
      <4>3. z + i \in 1 .. y /\ x - y + (z + i) = o + i BY <4>1, <4>2
      <4> QED BY <4>3 DEF x, y, z
    <3>3. there[i] = text[o + i]
      <4> HIDE DEF n, there
      <4> QED BY <2>3, <3>1
    <3>4. word[i] = text[o + i] BY <1>9, <1>10, <3>2
    <3> QED BY <3>3, <3>4
  <2> HIDE DEF there, n
  <2>6. there = word
    <3>1. Len(there) = Len(word) /\ there \in Seq(Bytes) /\ word \in Seq(Bytes) BY <1>10, <2>3, <2>4
    <3>2. \A i \in 1 .. Len(there) : there[i] = word[i] BY <2>4, <2>5
    <3> QED BY <3>1, <3>2
  <2> QED BY <2>6 DEF there, n, f
<1>12. Len(word) <= s.curr /\ Reached(s) = o + Len(word) BY <1>2, <1>5, <1>7, <1>8, <1>10
<1>13. ASSUME word = <<>> PROVE s.done /\ Reached(s) = Len(text)
  <2>1. Len(word) = 0 BY <1>13
  <2>2. c.curr = e /\ c.curr = Len(c.window) BY <1>2, <1>7, <1>10, <2>1
  <2>3. Left(c) = 0 BY <1>7, <2>2 DEF Left
  <2>4. s.done BY <1>1, <1>5, <2>3
  <2>5. c.taken = Len(text) BY <1>1, <1>5, <2>4 DEF Core
  <2>6. Reached(s) = Len(text) BY <1>2, <1>7, <1>8, <2>2, <2>5
  <2> QED BY <2>4, <2>6
<1> QED BY <1>1, <1>2, <1>5, <1>6, <1>8, <1>11, <1>12, <1>13 DEF Alike, s, o

\* A buffer reads what TextStream reads at its place in the file.
Reads(b, t) ==
    /\ Core(t) /\ Alike(t, b)
    /\ t.scratch = Stream!ReadAt(text, Reached(b))[1]
    /\ Reached(t) = Stream!ReadAt(text, Reached(b))[2]
    /\ Len(t.scratch) <= t.curr
    /\ t.scratch = <<>> => t.done /\ Reached(t) = Len(text)

LEMMA TakeRight ==
    ASSUME NEW b, Core(b), text \in Seq(Bytes)
    PROVE  Reads(b, Take[b])
<1> DEFINE Rest(c) == ToLoad(c) + ToDecode(c)
           Bad == {c \in Buffers : Core(c) /\ ~ Reads(c, Take[c])}
           N == {Rest(c) : c \in Bad}
<1>1. \A c \in Buffers : Rest(c) \in Nat
  <2> SUFFICES ASSUME NEW c \in Buffers PROVE ToLoad(c) + ToDecode(c) \in Nat OBVIOUS
  <2>1. c.curr \in Nat /\ c.taken \in Nat /\ Len(c.window) \in Nat /\ Len(text) \in Nat BY BufferFields
  <2> QED BY <2>1 DEF ToLoad, ToDecode
<1> SUFFICES ASSUME Bad # {} PROVE FALSE BY DEF Core
<1>2. PICK c \in Bad : \A d \in Bad : Rest(c) <= Rest(d)
  <2>1. N \in SUBSET Nat /\ N # {} BY <1>1
  <2>2. PICK n \in N : \A m \in N : n <= m
    <3> HIDE DEF N
    <3> QED BY <2>1, LeastExists
  <2>3. PICK c \in Bad : n = Rest(c) BY <2>2
  <2> QED BY <2>2, <2>3
<1>3. c \in Buffers /\ Core(c) /\ ~ Reads(c, Take[c]) BY <1>2
<1> DEFINE o == Reached(c)
<1>4. Take[c] = IF EndOf(c)[2] = Stream!Reject THEN Take[Skipped(c)] ELSE Taken(c) BY <1>3, TakeUnfolds
<1>5. Stream!ReadAt(text, o) =
        IF EndOf(c)[2] = Stream!Reject THEN Stream!ReadAt(text, Code(text, o)[1])
        ELSE <<SubSeq(text, o + 1, Code(text, o)[1]), Code(text, o)[1]>>
  <2>1. o \in Nat /\ Code(text, o)[2] = EndOf(c)[2] BY <1>3, EndRight
  <2> HIDE DEF o
  <2> QED BY <2>1, ReadAtUnfolds
<1>6. CASE EndOf(c)[2] = Stream!Reject
  <2> DEFINE d == Skipped(c)
  <2>1. Core(d) /\ Alike(d, c) /\ Reached(d) = Code(text, o)[1] BY <1>3, SkippedRight
  <2>2. d \in Buffers /\ Rest(d) < Rest(c) BY <1>3, <1>6, TakenRight
  <2>3. Reads(d, Take[d])
    <3>1. d \notin Bad
      <4>1. ~ Rest(c) <= Rest(d) BY <1>1, <1>3, <2>2
      <4> HIDE DEF Bad, Rest, d
      <4> QED BY <1>2, <4>1
    <3> QED BY <2>1, <2>2, <3>1
  <2>4. Take[c] = Take[d] BY <1>4, <1>6
  <2>5. Stream!ReadAt(text, o) = Stream!ReadAt(text, Reached(d)) BY <1>5, <1>6, <2>1
  <2> HIDE DEF d, Bad
  <2>6. Reads(c, Take[c]) BY <2>1, <2>3, <2>4, <2>5 DEF Reads, Alike
  <2> QED BY <1>3, <2>6
<1>7. CASE EndOf(c)[2] # Stream!Reject
  <2> DEFINE d == Taken(c)
  <2>1. /\ Core(d) /\ Alike(d, c) /\ Reached(d) = Code(text, o)[1]
        /\ d.scratch = SubSeq(text, o + 1, Code(text, o)[1])
        /\ Len(d.scratch) <= d.curr
        /\ d.scratch = <<>> => d.done /\ Reached(d) = Len(text)
        BY <1>3, TakenCore
  <2>2. Take[c] = d BY <1>4, <1>7
  <2>3. Stream!ReadAt(text, o) = <<SubSeq(text, o + 1, Code(text, o)[1]), Code(text, o)[1]>> BY <1>5, <1>7
  <2>4. d.scratch = Stream!ReadAt(text, o)[1] /\ Reached(d) = Stream!ReadAt(text, o)[2]
    <3> DEFINE word == SubSeq(text, o + 1, Code(text, o)[1])
               end  == Code(text, o)[1]
    <3>1. Stream!ReadAt(text, o) = <<word, end>> BY <2>3
    <3>2. d.scratch = word /\ Reached(d) = end BY <2>1
    <3> HIDE DEF d, o, word, end
    <3> QED BY <3>1, <3>2
  <2> HIDE DEF d, Bad
  <2>5. Reads(c, Take[c]) BY <2>1, <2>2, <2>4 DEF Reads
  <2> QED BY <1>3, <2>5
<1> QED BY <1>6, <1>7

-----------------------------------------------------------------------------
(* What is read, given back and read again *)

Places(b) ==
    IF b.backtracked THEN <<b.peeks[b.peek], b.peeks[3 - b.peek]>>
    ELSE <<b.peeks[3 - b.peek], b.peeks[b.peek]>>

\* At the end, the place of the last code point is that of the next; and what
\* was read last can be given back.
Good(b) ==
    /\ Core(b)
    /\ b.atEnd => /\ b.done /\ Reached(b) = Len(text)
                  /\ b.peeks[1] = b.peeks[2] /\ ~ b.backtracked
    /\ ~ b.backtracked => Len(b.scratch) <= b.curr

\* The next place is one in the file; and as long as nothing was read since a
\* reset, the buffer is as the reset left it.
Began(k) ==
    [window |-> <<>>, curr |-> 0, taken |-> k, done |-> FALSE, atEnd |-> FALSE,
     scratch |-> <<>>, peeks |-> <<<<1, 1>>, <<0, 0>>>>, peek |-> 1, backtracked |-> FALSE]
Begun(b) ==
    /\ Places(b)[2][1] > 0
    /\ Places(b)[1] = <<0, 0>> => b = Began(b.taken)

\* Seeking has failed, and nothing is read until the next reset.
Gone(k) ==
    [window |-> <<>>, curr |-> 0, taken |-> k, done |-> FALSE, atEnd |-> TRUE,
     scratch |-> <<>>, peeks |-> <<<<1, 1>>, <<0, 0>>>>, peek |-> 1, backtracked |-> FALSE]
Lost(b) == b.taken \in 0 .. Len(text) /\ b = Gone(b.taken)

LEMMA AdvanceRight ==
    ASSUME NEW p \in Nat \X Nat, NEW cp
    PROVE  /\ Stream!Advance(p, cp) \in Nat \X Nat
           /\ p[1] > 0 => Stream!Advance(p, cp)[1] > 0
           /\ Stream!Advance(p, <<>>) = p
BY DEF Stream!Advance, Stream!TabSize

\* There is nothing behind the end of a file.
LEMMA ReadAtEnd ==
    ASSUME NEW f \in Seq(Bytes)
    PROVE  Stream!ReadAt(f, Len(f))[1] = <<>> /\ Stream!ReadAt(f, Len(f))[2] = Len(f)
<1> DEFINE o == Len(f)
<1>1. o \in Nat /\ ~ o < Len(f) OBVIOUS
<1>2. Code(f, o)[1] = o /\ Code(f, o)[2] = Stream!Accept BY <1>1, DecodeRight
<1>3. Code(f, o)[2] # Stream!Reject BY <1>2 DEF Stream!Accept, Stream!Reject
<1>4. Stream!ReadAt(f, o) = <<SubSeq(f, o + 1, Code(f, o)[1]), Code(f, o)[1]>> BY <1>1, <1>3, ReadAtUnfolds
<1>5. SubSeq(f, o + 1, Code(f, o)[1]) = <<>>
  <2>1. SubSeq(f, o + 1, o) = <<>> BY <1>1, SubSeqEmpty
  <2> QED BY <1>2, <2>1
<1> DEFINE word == SubSeq(f, o + 1, Code(f, o)[1])
           end == Code(f, o)[1]
<1>6. Stream!ReadAt(f, o) = <<word, end>> /\ word = <<>> /\ end = o BY <1>2, <1>4, <1>5
<1> HIDE DEF o, word, end
<1>7. Stream!ReadAt(f, o)[1] = <<>> /\ Stream!ReadAt(f, o)[2] = o BY <1>6
<1> QED BY <1>7 DEF o

\* ReadPoint is a StreamRead.
LEMMA ReadPointRight ==
    ASSUME NEW b, Good(b), text \in Seq(Bytes)
    PROVE  LET c == ReadPoint(b)
           IN  /\ Good(c)
               /\ c.scratch = Stream!ReadAt(text, Reached(b))[1]
               /\ Reached(c) = Stream!ReadAt(text, Reached(b))[2]
               /\ Places(c) = IF b.backtracked THEN Places(b)
                              ELSE <<Places(b)[2], Stream!Advance(Places(b)[2], c.scratch)>>
               /\ c.backtracked = FALSE
               /\ c.scratch = <<>> => Reached(c) = Len(text)
<1> DEFINE c == ReadPoint(b)
           Goal == /\ Good(c)
                   /\ c.scratch = Stream!ReadAt(text, Reached(b))[1]
                   /\ Reached(c) = Stream!ReadAt(text, Reached(b))[2]
                   /\ Places(c) = IF b.backtracked THEN Places(b)
                                  ELSE <<Places(b)[2], Stream!Advance(Places(b)[2], c.scratch)>>
                   /\ c.backtracked = FALSE
                   /\ c.scratch = <<>> => Reached(c) = Len(text)
<1>0. /\ b \in Buffers /\ b.peek \in 1 .. 2 /\ b.peeks \in [1 .. 2 -> Nat \X Nat]
      /\ b.backtracked \in BOOLEAN /\ b.atEnd \in BOOLEAN /\ Core(b)
      BY BufferFields DEF Good, Core
<1>1. CASE b.atEnd
  <2>1. c = [b EXCEPT !.scratch = <<>>] BY <1>1 DEF ReadPoint
  <2>2. c.scratch = <<>> /\ Alike(c, b) /\ c.window = b.window /\ c.curr = b.curr /\ c.taken = b.taken /\ c.done = b.done
        BY <1>0, <2>1 DEF Buffers, Alike
  <2>3. c \in Buffers
    <3>1. <<>> \in Seq(Stream!Bytes) OBVIOUS
    <3> QED BY <1>0, <2>1, <3>1 DEF Buffers
  <2>4. b.done /\ Reached(b) = Len(text) /\ b.peeks[1] = b.peeks[2] /\ ~ b.backtracked BY <1>1 DEF Good
  <2> HIDE DEF c
  <2>5. Core(c) /\ Reached(c) = Reached(b) BY <1>0, <2>2, <2>3 DEF Core, Reached, Left
  <2>6. Good(c)
    <3>1. c.curr \in Nat /\ Len(c.scratch) = 0 BY <2>2, <2>3, BufferFields
    <3>2. Len(c.scratch) <= c.curr BY <3>1
    <3> QED BY <2>2, <2>4, <2>5, <3>2 DEF Good, Alike
  <2>7. c.scratch = Stream!ReadAt(text, Reached(b))[1] /\ Reached(c) = Stream!ReadAt(text, Reached(b))[2]
        BY <2>2, <2>4, <2>5, ReadAtEnd
  <2>8. Places(c) = <<Places(b)[2], Stream!Advance(Places(b)[2], c.scratch)>>
    <3> DEFINE p == b.peeks[b.peek]
    <3>1. p \in Nat \X Nat /\ b.peeks[3 - b.peek] = p BY <1>0, <2>4
    <3> HIDE DEF p
    <3>2. Places(b) = <<p, p>> BY <2>4, <3>1 DEF Places, p
    <3>3. Places(c) = <<p, p>> BY <2>2, <2>4, <3>1 DEF Places, Alike, p
    <3>4. Stream!Advance(p, c.scratch) = p BY <2>2, <3>1, AdvanceRight
    <3>5. Places(b)[2] = p BY <3>2
    <3> QED BY <3>3, <3>4, <3>5
  <2>9. c.backtracked = FALSE BY <1>0, <2>2, <2>4 DEF Alike
  <2>10. Goal BY <2>2, <2>4, <2>5, <2>6, <2>7, <2>8, <2>9
  <2> QED BY <2>10 DEF c
<1>2. CASE ~ b.atEnd
  <2> DEFINE t == Take[b]
             next == 3 - t.peek
             p == b.peeks[b.peek]
             d == [t EXCEPT !.peek = next, !.backtracked = FALSE]
             e == [t EXCEPT !.peek = next, !.atEnd = t.scratch = <<>>,
                            !.peeks[next] = Stream!Advance(t.peeks[t.peek], t.scratch)]
  <2>1. Reads(b, t) BY <1>0, TakeRight
  <2>2. c = IF t.backtracked THEN d ELSE e BY <1>2 DEF ReadPoint
  <2> HIDE DEF t
  <2>3. /\ Core(t) /\ t \in Buffers /\ t.atEnd = b.atEnd /\ t.peeks = b.peeks /\ t.peek = b.peek
        /\ t.backtracked = b.backtracked /\ Len(t.scratch) <= t.curr
        /\ t.scratch = <<>> => t.done /\ Reached(t) = Len(text)
        BY <2>1 DEF Reads, Alike, Core
  <2>4. next \in 1 .. 2 /\ next # t.peek /\ 3 - next = t.peek BY <1>0, <2>3
  <2>5. p \in Nat \X Nat BY <1>0
  <2> HIDE DEF c, p
  <2>6. CASE b.backtracked
    <3>1. c = d BY <2>2, <2>3, <2>6
    <3>2. d \in Buffers BY <2>3, <2>4 DEF Buffers
    <3>3. /\ d.window = t.window /\ d.curr = t.curr /\ d.taken = t.taken /\ d.done = t.done
          /\ d.scratch = t.scratch /\ d.peek = next /\ d.backtracked = FALSE /\ d.peeks = t.peeks /\ d.atEnd = t.atEnd
          BY <2>3 DEF Buffers
    <3> HIDE DEF d
    <3>4. Core(d) /\ Reached(d) = Reached(t) BY <2>3, <3>2, <3>3 DEF Core, Reached, Left
    <3>5. Good(d) BY <1>2, <2>3, <3>3, <3>4 DEF Good
    <3>6. Places(d) = Places(b)
      <4> HIDE DEF next
      <4> QED BY <2>3, <2>4, <2>6, <3>3 DEF Places
    <3>7. Goal BY <2>1, <2>3, <2>6, <3>1, <3>3, <3>4, <3>5, <3>6 DEF Reads
    <3> QED BY <3>7 DEF c
  <2>7. CASE ~ b.backtracked
    <3> DEFINE q == Stream!Advance(t.peeks[t.peek], t.scratch)
               end == t.scratch = <<>>
    <3>0. q = Stream!Advance(p, t.scratch) /\ q \in Nat \X Nat BY <2>3, <2>5, AdvanceRight DEF p
    <3>1. c = e BY <2>2, <2>3, <2>7
    <3>2. end \in BOOLEAN OBVIOUS
    <3> HIDE DEF q, end
    <3>3. e = [t EXCEPT !.peek = next, !.atEnd = end, !.peeks[next] = q] BY DEF q, end
    <3> HIDE DEF e
    <3>4. e \in Buffers
      <4> HIDE DEF next
      <4> QED BY <2>3, <2>4, <3>0, <3>2, <3>3 DEF Buffers
    <3>5. /\ e.window = t.window /\ e.curr = t.curr /\ e.taken = t.taken /\ e.done = t.done
          /\ e.scratch = t.scratch /\ e.peek = next /\ e.backtracked = t.backtracked
          /\ e.atEnd = end /\ e.peeks = [t.peeks EXCEPT ![next] = q]
          BY <2>3, <3>3 DEF Buffers
    <3>6. e.peeks[next] = q /\ e.peeks[t.peek] = p
      <4> HIDE DEF next
      <4> QED BY <1>0, <2>3, <2>4, <3>5 DEF p
    <3>7. Core(e) /\ Reached(e) = Reached(t) BY <2>3, <3>4, <3>5 DEF Core, Reached, Left
    <3>8. Places(e) = <<p, q>> BY <2>3, <2>4, <2>7, <3>5, <3>6 DEF Places
    <3>9. Places(b)[2] = p BY <2>7 DEF Places, p
    <3>10. end <=> t.scratch = <<>> BY DEF end
    <3>11. end => q = p BY <2>5, <3>0, <3>10, AdvanceRight
    <3>12. ASSUME end PROVE e.peeks[1] = e.peeks[2]
      <4>1. e.peeks[next] = e.peeks[t.peek] BY <3>6, <3>11, <3>12
      <4>2. {next, t.peek} = {1, 2} BY <1>0, <2>3
      <4> HIDE DEF next
      <4> QED BY <2>4, <4>1, <4>2
    <3>13. Good(e)
      <4>1. e.atEnd => e.done /\ Reached(e) = Len(text) BY <2>3, <3>5, <3>7, <3>10
      <4>2. ~ e.backtracked BY <2>3, <2>7, <3>5
      <4>3. Len(e.scratch) <= e.curr BY <2>3, <3>5
      <4>4. e.atEnd = end BY <3>5
      <4> QED BY <3>7, <3>12, <4>1, <4>2, <4>3, <4>4 DEF Good
    <3>14. Places(e) = <<Places(b)[2], Stream!Advance(Places(b)[2], e.scratch)>> BY <3>0, <3>5, <3>8, <3>9
    <3>15. e.backtracked = FALSE BY <1>0, <2>3, <2>7, <3>5
    <3>16. e.scratch = <<>> => Reached(e) = Len(text) BY <2>3, <3>5, <3>7
    <3>17. Goal BY <2>1, <2>7, <3>1, <3>5, <3>7, <3>13, <3>14, <3>15, <3>16 DEF Reads
    <3> QED BY <3>17 DEF c
  <2> QED BY <1>0, <2>6, <2>7
<1> QED BY <1>0, <1>1, <1>2

\* What was read is at a place of the file, and seeking has not failed.
LEMMA ReadPointBegun ==
    ASSUME NEW b, Good(b), Begun(b), text \in Seq(Bytes)
    PROVE  Begun(ReadPoint(b))
<1> DEFINE c == ReadPoint(b)
           p == Places(b)[2]
<1>1. Places(c) = IF b.backtracked THEN Places(b) ELSE <<p, Stream!Advance(p, c.scratch)>>
      BY ReadPointRight
<1>2. p \in Nat \X Nat /\ p[1] > 0 /\ p # <<0, 0>>
  <2>1. b.peek \in 1 .. 2 /\ b.peeks \in [1 .. 2 -> Nat \X Nat] BY BufferFields DEF Good, Core
  <2>2. p \in Nat \X Nat BY <2>1 DEF Places
  <2> QED BY <2>2 DEF Begun
<1> HIDE DEF c, p
<1>3. CASE b.backtracked
  <2>1. Places(b)[1] # <<0, 0>>
    <3>1. Began(b.taken).backtracked = FALSE BY DEF Began
    <3> QED BY <1>3, <3>1 DEF Begun
  <2> QED BY <1>1, <1>3, <2>1 DEF Begun, c
<1>4. CASE ~ b.backtracked
  <2>1. Places(c) = <<p, Stream!Advance(p, c.scratch)>> BY <1>1, <1>4
  <2>2. Stream!Advance(p, c.scratch)[1] > 0 BY <1>2, AdvanceRight
  <2>3. Places(c)[1] = p /\ Places(c)[2] = Stream!Advance(p, c.scratch) BY <2>1
  <2> QED BY <1>2, <2>2, <2>3 DEF Begun, c
<1> QED BY <1>3, <1>4

LEMMA DidReadRight ==
    ASSUME NEW b \in Buffers, Begun(b)
    PROVE  DidRead(b) <=> Places(b)[1] # <<0, 0>>
<1>1. CASE b.backtracked
  <2>1. Began(b.taken).backtracked = FALSE BY DEF Began
  <2>2. Places(b)[1] # <<0, 0>> BY <1>1, <2>1 DEF Begun
  <2>3. Places(b)[2] = b.peeks[3 - b.peek] BY <1>1 DEF Places
  <2>4. Places(b)[2] # <<0, 0>> BY DEF Begun
  <2> QED BY <2>2, <2>3, <2>4 DEF DidRead
<1>2. CASE ~ b.backtracked
  <2>1. Places(b)[1] = b.peeks[3 - b.peek] BY <1>2 DEF Places
  <2> QED BY <2>1 DEF DidRead
<1> QED BY <1>1, <1>2

\* UTF8FileBuffer holds a part of a file, at a place from which it can go on,
\* or nobody can seek in the file, and then it does not belong to a tokenizer.
BufferRight ==
    /\ text \in Seq(Bytes)
    /\ \/ Good(buffer) /\ Begun(buffer)
       \/ Lost(buffer) /\ ~ tokenizing

LEMMA BeganReset == ResetBuffer = Began(0)
BY DEF Began, ResetBuffer

LEMMA ResetRecord ==
    ASSUME NEW k \in Nat, NEW end \in BOOLEAN
    PROVE  [ResetBuffer EXCEPT !.taken = k, !.atEnd = end] =
             [window |-> <<>>, curr |-> 0, taken |-> k, done |-> FALSE, atEnd |-> end,
              scratch |-> <<>>, peeks |-> <<<<1, 1>>, <<0, 0>>>>, peek |-> 1, backtracked |-> FALSE]
<1>1. ASSUME NEW e, NEW q,
             NEW b, b = [window |-> e, curr |-> 0, taken |-> 0, done |-> FALSE, atEnd |-> FALSE,
                         scratch |-> e, peeks |-> q, peek |-> 1, backtracked |-> FALSE],
             NEW c, c = [b EXCEPT !.taken = k, !.atEnd = end]
      PROVE  c = [window |-> e, curr |-> 0, taken |-> k, done |-> FALSE, atEnd |-> end,
                  scratch |-> e, peeks |-> q, peek |-> 1, backtracked |-> FALSE]
      BY <1>1, ZenonT(60)
<1> QED BY <1>1 DEF ResetBuffer

LEMMA BeganFields ==
    ASSUME NEW k \in Nat, NEW b, b = Began(k)
    PROVE  /\ b \in Buffers
           /\ b.window = <<>> /\ b.curr = 0 /\ b.taken = k /\ b.done = FALSE /\ b.atEnd = FALSE
           /\ b.scratch = <<>> /\ b.backtracked = FALSE
           /\ Places(b) = Stream!Start /\ ~ DidRead(b) /\ Reached(b) = k
<1>1. /\ b.window = <<>> /\ b.curr = 0 /\ b.taken = k /\ b.done = FALSE /\ b.atEnd = FALSE
      /\ b.scratch = <<>> /\ b.peeks = <<<<1, 1>>, <<0, 0>>>> /\ b.peek = 1 /\ b.backtracked = FALSE
      BY DEF Began
<1>2. b \in Buffers
  <2>1. <<>> \in Seq(Stream!Bytes) OBVIOUS
  <2>2. <<<<1, 1>>, <<0, 0>>>> \in [1 .. 2 -> Nat \X Nat] OBVIOUS
  <2> QED BY <2>1, <2>2 DEF Began, Buffers
<1>3. b.peeks[3 - b.peek] = <<0, 0>> /\ b.peeks[b.peek] = <<1, 1>> BY <1>1
<1>4. Len(b.window) = 0 BY <1>1
<1>5. Left(b) = 0 BY <1>1, <1>4 DEF Left
<1>6. Places(b) = Stream!Start BY <1>1, <1>3 DEF Places, Stream!Start
<1>7. Reached(b) = k BY <1>1, <1>5 DEF Reached
<1>8. ~ DidRead(b) BY <1>3 DEF DidRead
<1> QED BY <1>1, <1>2, <1>6, <1>7, <1>8

LEMMA GoneFields ==
    ASSUME NEW k \in Nat, NEW b, b = Gone(k)
    PROVE  /\ b \in Buffers
           /\ b.window = <<>> /\ b.curr = 0 /\ b.taken = k /\ b.done = FALSE /\ b.atEnd = TRUE
           /\ b.scratch = <<>> /\ b.backtracked = FALSE
           /\ Places(b) = Stream!Start /\ ~ DidRead(b) /\ Reached(b) = k
<1>1. /\ b.window = <<>> /\ b.curr = 0 /\ b.taken = k /\ b.done = FALSE /\ b.atEnd = TRUE
      /\ b.scratch = <<>> /\ b.peeks = <<<<1, 1>>, <<0, 0>>>> /\ b.peek = 1 /\ b.backtracked = FALSE
      BY DEF Gone
<1>2. b \in Buffers
  <2>1. <<>> \in Seq(Stream!Bytes) OBVIOUS
  <2>2. <<<<1, 1>>, <<0, 0>>>> \in [1 .. 2 -> Nat \X Nat] OBVIOUS
  <2> QED BY <2>1, <2>2 DEF Gone, Buffers
<1>3. b.peeks[3 - b.peek] = <<0, 0>> /\ b.peeks[b.peek] = <<1, 1>> BY <1>1
<1>4. Len(b.window) = 0 BY <1>1
<1>5. Left(b) = 0 BY <1>1, <1>4 DEF Left
<1>6. Places(b) = Stream!Start BY <1>1, <1>3 DEF Places, Stream!Start
<1>7. Reached(b) = k BY <1>1, <1>5 DEF Reached
<1>8. ~ DidRead(b) BY <1>3 DEF DidRead
<1> QED BY <1>1, <1>2, <1>6, <1>7, <1>8

LEMMA ResetRight ==
    ASSUME text \in Seq(Bytes), NEW k \in 0 .. Len(text)
    PROVE  LET b == Began(k) IN Good(b) /\ Begun(b) /\ Reached(b) = k
<1> DEFINE b == Began(k)
<1>0. b = Began(k) /\ k \in Nat OBVIOUS
<1> HIDE DEF b
<1>1. /\ b \in Buffers
      /\ b.window = <<>> /\ b.curr = 0 /\ b.taken = k /\ b.done = FALSE /\ b.atEnd = FALSE
      /\ b.scratch = <<>> /\ b.backtracked = FALSE
      /\ Places(b) = Stream!Start /\ Reached(b) = k
      BY <1>0, BeganFields DEF b
<1>2. Len(text) \in Nat /\ Len(b.window) = 0 /\ Len(b.scratch) = 0 BY <1>1
<1>3. Core(b) BY <1>1, <1>2 DEF Core
<1>4. Good(b) BY <1>1, <1>2, <1>3 DEF Good
<1>5. Begun(b)
  <2>0. b = Began(b.taken) BY <1>0, <1>1
  <2>1. Places(b)[1] = <<0, 0>> /\ Places(b)[2] = <<1, 1>> BY <1>1 DEF Stream!Start
  <2>2. Places(b)[2][1] = 1 BY <2>1
  <2>3. Places(b)[2][1] > 0 BY <2>2
  <2> QED BY <2>0, <2>3 DEF Begun
<1> QED BY <1>1, <1>4, <1>5 DEF b

LEMMA UnreadRight ==
    ASSUME NEW b, Good(b), ~ b.backtracked,
           NEW c, c = [b EXCEPT !.peek = 3 - @, !.backtracked = TRUE,
                                !.curr = @ - Len(b.scratch), !.atEnd = @ /\ ~ b.done]
    PROVE  /\ Good(c) /\ c.scratch = b.scratch /\ c.backtracked = TRUE
           /\ Reached(c) = Reached(b) - Len(b.scratch)
           /\ Places(c) = Places(b)
<1>1. /\ b \in Buffers /\ b.peek \in 1 .. 2 /\ b.curr \in Nat /\ b.taken \in Nat /\ Len(b.window) \in Nat
      /\ b.scratch \in Seq(Bytes) /\ Core(b) /\ b.atEnd \in BOOLEAN /\ b.done \in BOOLEAN
      /\ Len(b.scratch) <= b.curr
      BY BufferFields DEF Good, Core
<1> DEFINE n == Len(b.scratch)
           end == b.atEnd /\ ~ b.done
<1>2. n \in Nat /\ n <= b.curr BY <1>1
<1>3. ~ end /\ end \in BOOLEAN BY DEF Good
<1>4. c = [b EXCEPT !.peek = 3 - @, !.backtracked = TRUE, !.curr = @ - n, !.atEnd = end] OBVIOUS
<1> HIDE DEF n, end
<1>5. /\ c.window = b.window /\ c.curr = b.curr - n /\ c.taken = b.taken /\ c.done = b.done
      /\ c.scratch = b.scratch /\ c.peek = 3 - b.peek /\ c.backtracked = TRUE
      /\ c.peeks = b.peeks /\ c.atEnd = end
      BY <1>1, <1>4 DEF Buffers
<1>6. b.curr - n \in Nat /\ 3 - b.peek \in 1 .. 2 /\ 3 - (3 - b.peek) = b.peek BY <1>1, <1>2
<1>7. c \in Buffers BY <1>1, <1>3, <1>4, <1>6 DEF Buffers
<1>8. Core(c) BY <1>1, <1>2, <1>5, <1>7 DEF Core
<1>9. Reached(c) = Reached(b) - n BY <1>1, <1>2, <1>5 DEF Reached, Left
<1>10. Good(c) BY <1>3, <1>5, <1>8 DEF Good
<1>11. Places(c) = Places(b) BY <1>1, <1>5, <1>6 DEF Places
<1> QED BY <1>5, <1>9, <1>10, <1>11 DEF n

LEMMA BufferTaken == BufferRight => buffer.taken \in Nat
<1> SUFFICES ASSUME BufferRight PROVE buffer.taken \in Nat OBVIOUS
<1>1. CASE Good(buffer) BY <1>1, BufferFields DEF Good, Core
<1>2. CASE Lost(buffer)
  <2>1. Len(text) \in Nat BY DEF BufferRight
  <2> QED BY <1>2, <2>1 DEF Lost
<1> QED BY <1>1, <1>2 DEF BufferRight

\* A step of the buffer or of its tokenizer changes the buffer in one of three
\* ways, or not at all.
LEMMA BufferStep ==
    ASSUME [BufferNext]_bufferVars, buffer.taken \in Nat
    PROVE  /\ text' = text /\ tokenizing' = tokenizing
           /\ \/ buffer' = ReadPoint(buffer)
              \/ /\ ~ buffer.backtracked /\ DidRead(buffer)
                 /\ buffer' = [buffer EXCEPT !.peek = 3 - @, !.backtracked = TRUE,
                                             !.curr = @ - Len(buffer.scratch),
                                             !.atEnd = @ /\ ~ buffer.done]
              \/ /\ ~ tokenizing
                 /\ \/ DidRead(buffer) /\ buffer' = Began(0)
                    \/ DidRead(buffer) /\ buffer' = Gone(buffer.taken)
                    \/ ~ DidRead(buffer) /\ buffer' = Began(buffer.taken)
              \/ buffer' = buffer
<1>1. CASE Reset
  <2>1. PICK sought \in BOOLEAN :
          buffer' = [ResetBuffer EXCEPT
                       !.taken = IF DidRead(buffer) /\ sought THEN 0 ELSE buffer.taken,
                       !.atEnd = DidRead(buffer) /\ ~ sought]
        BY <1>1 DEF Reset
  <2>2. ~ tokenizing /\ text' = text /\ tokenizing' = tokenizing BY <1>1 DEF Reset, BufferNext, bufferVars
  <2> DEFINE k == IF DidRead(buffer) /\ sought THEN 0 ELSE buffer.taken
             end == DidRead(buffer) /\ ~ sought
  <2>3. k \in Nat /\ end \in BOOLEAN OBVIOUS
  <2>4. buffer' = [window |-> <<>>, curr |-> 0, taken |-> k, done |-> FALSE, atEnd |-> end,
                   scratch |-> <<>>, peeks |-> <<<<1, 1>>, <<0, 0>>>>, peek |-> 1, backtracked |-> FALSE]
    <3>1. buffer' = [ResetBuffer EXCEPT !.taken = k, !.atEnd = end] BY <2>1
    <3> HIDE DEF k, end
    <3> QED BY <2>3, <3>1, ResetRecord
  <2>5. CASE DidRead(buffer) /\ sought
    <3>1. k = 0 /\ end = FALSE BY <2>5
    <3> HIDE DEF k, end
    <3> QED BY <2>2, <2>4, <2>5, <3>1 DEF Began
  <2>6. CASE DidRead(buffer) /\ ~ sought
    <3>1. k = buffer.taken /\ end = TRUE BY <2>6
    <3> HIDE DEF k, end
    <3> QED BY <2>2, <2>4, <2>6, <3>1 DEF Gone
  <2>7. CASE ~ DidRead(buffer)
    <3>1. k = buffer.taken /\ end = FALSE BY <2>7
    <3> HIDE DEF k, end
    <3> QED BY <2>2, <2>4, <2>7, <3>1 DEF Began
  <2> QED BY <2>5, <2>6, <2>7
<1> QED BY <1>1 DEF BufferNext, bufferVars, Read, Unread, TokBegin, TokSkip, TokFill

LEMMA BufferRightInit ==
    BufferInit => BufferRight /\ Stream!StreamInit
<1> SUFFICES ASSUME BufferInit PROVE BufferRight /\ Stream!StreamInit OBVIOUS
<1>1. text \in Seq(Bytes) BY BufferAssumption DEF BufferInit, Bytes
<1>2. buffer = Began(0) BY BeganReset DEF BufferInit
<1>3. 0 \in 0 .. Len(text) BY <1>1
<1>4. Good(buffer) /\ Begun(buffer) /\ Reached(buffer) = 0 BY <1>1, <1>2, <1>3, ResetRight
<1>5. buffer.scratch = <<>> /\ buffer.backtracked = FALSE /\ buffer.atEnd = FALSE /\ Places(buffer) = Stream!Start
      BY <1>2, BeganFields
<1>6. Stream!StreamInit BY <1>4, <1>5 DEF Stream!StreamInit, Reached, Places
<1> QED BY <1>1, <1>4, <1>6 DEF BufferRight

LEMMA BufferRightStep ==
    BufferRight /\ [BufferNext]_bufferVars => BufferRight' /\ [Stream!StreamNext]_Stream!streamVars
<1> SUFFICES ASSUME BufferRight, [BufferNext]_bufferVars
             PROVE  BufferRight' /\ [Stream!StreamNext]_Stream!streamVars
    OBVIOUS
<1> DEFINE b == buffer
           c == buffer'
<1>0. buffer.taken \in Nat BY BufferTaken
<1>1. /\ text \in Seq(Bytes) /\ text' = text /\ tokenizing' = tokenizing
      /\ (Good(b) /\ Begun(b)) \/ (Lost(b) /\ ~ tokenizing)
      BY <1>0, BufferStep DEF BufferRight
<1>2. Good(c) /\ Begun(c) => BufferRight'
  <2> SUFFICES ASSUME Good(c), Begun(c) PROVE BufferRight' OBVIOUS
  <2>1. Core(c) => Core(buffer)' BY <1>1 DEF Core
  <2>2. Reached(c) = Reached(buffer)' BY DEF Reached, Left
  <2>3. Good(buffer)' BY <1>1, <2>1, <2>2 DEF Good
  <2>4. Begun(buffer)' BY DEF Begun, Places
  <2> QED BY <1>1, <2>3, <2>4 DEF BufferRight
<1>3. Good(b) => b \in Buffers /\ ~ (b.atEnd /\ ~ b.done) BY DEF Good, Core
<1>4. Lost(b) => /\ b \in Buffers /\ ~ DidRead(b) /\ b.atEnd /\ ~ b.done /\ b.scratch = <<>>
                 /\ Places(b) = Stream!Start /\ Reached(b) = b.taken /\ b.taken \in 0 .. Len(text)
  <2> SUFFICES ASSUME Lost(b) PROVE /\ b \in Buffers /\ ~ DidRead(b) /\ b.atEnd /\ ~ b.done /\ b.scratch = <<>>
                                    /\ Places(b) = Stream!Start /\ Reached(b) = b.taken /\ b.taken \in 0 .. Len(text)
      OBVIOUS
  <2>1. b.taken \in 0 .. Len(text) /\ b = Gone(b.taken) BY DEF Lost
  <2>2. b.taken \in Nat BY <1>1, <2>1
  <2> HIDE DEF b
  <2> QED BY <2>1, <2>2, GoneFields
<1>5. Good(c) => ~ (c.atEnd /\ ~ c.done) BY DEF Good
<1>6. CASE c = b
  <2>1. UNCHANGED Stream!streamVars BY <1>1, <1>6 DEF Stream!streamVars, Left
  <2>2. BufferRight' BY <1>1, <1>6 DEF BufferRight, Good, Begun, Lost, Core, Reached, Left, Places
  <2> QED BY <2>1, <2>2
<1>7. CASE c = ReadPoint(b)
  <2>1. CASE Good(b) /\ Begun(b)
    <3>1. /\ Good(c) /\ c.scratch = Stream!ReadAt(text, Reached(b))[1] /\ Reached(c) = Stream!ReadAt(text, Reached(b))[2]
          /\ Places(c) = IF b.backtracked THEN Places(b)
                         ELSE <<Places(b)[2], Stream!Advance(Places(b)[2], c.scratch)>>
          /\ c.backtracked = FALSE
          BY <1>1, <1>7, <2>1, ReadPointRight
    <3>2. Begun(c) BY <1>1, <1>7, <2>1, ReadPointBegun
    <3>3. Stream!StreamRead BY <1>1, <1>3, <1>5, <2>1, <3>1 DEF Stream!StreamRead, Reached, Left, Places
    <3> QED BY <1>2, <3>1, <3>2, <3>3 DEF Stream!StreamNext
  <2>2. CASE Lost(b)
    <3>1. c = [b EXCEPT !.scratch = <<>>] BY <1>4, <1>7, <2>2 DEF ReadPoint
    <3>2. [b EXCEPT !.scratch = b.scratch] = b BY <1>4, <2>2 DEF Buffers
    <3> QED BY <1>4, <1>6, <2>2, <3>1, <3>2
  <2> QED BY <1>1, <2>1, <2>2
<1>8. CASE /\ ~ b.backtracked /\ DidRead(b)
           /\ c = [b EXCEPT !.peek = 3 - @, !.backtracked = TRUE,
                            !.curr = @ - Len(b.scratch), !.atEnd = @ /\ ~ b.done]
  <2>0. Good(b) /\ Begun(b) BY <1>1, <1>4, <1>8
  <2> HIDE DEF b, c
  <2>1. /\ Good(c) /\ c.scratch = b.scratch /\ c.backtracked = TRUE
        /\ Reached(c) = Reached(b) - Len(b.scratch) /\ Places(c) = Places(b)
        BY <1>8, <2>0, UnreadRight
  <2>2. Places(b)[1] # <<0, 0>> BY <1>3, <1>8, <2>0, DidReadRight
  <2>3. Begun(c) BY <2>0, <2>1, <2>2 DEF Begun
  <2>4. Stream!StreamUnread
        BY <1>1, <1>3, <1>5, <1>8, <2>0, <2>1, <2>2
        DEF Stream!StreamUnread, Stream!SomethingRead, Reached, Left, Places, b, c
  <2> QED BY <1>2, <2>1, <2>3, <2>4 DEF Stream!StreamNext
<1>9. CASE /\ ~ tokenizing
           /\ \/ DidRead(b) /\ c = Began(0)
              \/ DidRead(b) /\ c = Gone(b.taken)
              \/ ~ DidRead(b) /\ c = Began(b.taken)
  <2>1. /\ DidRead(b) <=> Places(b)[1] # <<0, 0>>
        /\ Reached(b) \in Int /\ Reached(b) <= b.taken /\ b.taken \in 0 .. Len(text)
        /\ ~ DidRead(b) => Reached(b) = b.taken
    <3>1. CASE Good(b) /\ Begun(b)
      <4>1. DidRead(b) <=> Places(b)[1] # <<0, 0>> BY <1>3, <3>1, DidReadRight
      <4>2. /\ Len(b.window) \in Nat /\ b.curr \in Nat /\ b.taken \in Nat /\ b.curr <= Len(b.window)
            /\ b.taken <= Len(text) /\ Len(text) \in Nat
            BY <1>1, <3>1, BufferFields DEF Good, Core
      <4>3. Reached(b) \in Int /\ Reached(b) <= b.taken BY <4>2 DEF Reached, Left
      <4>4. ASSUME ~ DidRead(b) PROVE Reached(b) = b.taken
        <5>1. b = Began(b.taken) BY <3>1, <4>1, <4>4 DEF Begun
        <5> HIDE DEF b
        <5> QED BY <4>2, <5>1, BeganFields
      <4>5. b.taken \in 0 .. Len(text) BY <4>2
      <4> QED BY <4>1, <4>3, <4>4, <4>5
    <3>2. CASE Lost(b)
      <4>1. Places(b)[1] = <<0, 0>> BY <1>4, <3>2 DEF Stream!Start
      <4>2. Len(text) \in Nat BY <1>1
      <4> QED BY <1>4, <3>2, <4>1, <4>2
    <3> QED BY <1>1, <3>1, <3>2
  <2>2. Len(text) \in Nat /\ b.taken \in Nat /\ 0 \in 0 .. Len(text)
    <3>1. Len(text) \in Nat BY <1>1
    <3> QED BY <2>1, <3>1
  <2>3. Stream!SomethingRead <=> DidRead(b) BY <2>1 DEF Stream!SomethingRead, Places
  <2>4. ASSUME /\ c.scratch = <<>> /\ c.backtracked = FALSE /\ c.done = FALSE
               /\ Places(c) = Stream!Start
               /\ \/ DidRead(b) /\ Reached(c) = 0 /\ c.atEnd = FALSE
                  \/ DidRead(b) /\ Reached(c) \in Reached(b) .. Len(text) /\ c.atEnd = TRUE
                  \/ ~ DidRead(b) /\ Reached(c) = Reached(b) /\ c.atEnd = FALSE
        PROVE  Stream!StreamReset
    <3>1. /\ Reached(b) = buffer.taken - Left(buffer) /\ Reached(c) = buffer'.taken - Left(buffer')
          /\ Left(buffer)' = Left(buffer')
          BY DEF Reached, Left
    <3>2. Stream!Start' = Stream!Start BY DEF Stream!Start
    <3> QED BY <1>1, <2>3, <2>4, <3>1, <3>2 DEF Stream!StreamReset, Places
  <2>5. ASSUME NEW k \in 0 .. Len(text), c = Began(k),
               (DidRead(b) /\ k = 0) \/ (~ DidRead(b) /\ k = b.taken)
        PROVE  BufferRight' /\ Stream!StreamReset
    <3>1. k \in Nat BY <2>2
    <3> HIDE DEF c
    <3>2. /\ c.scratch = <<>> /\ c.backtracked = FALSE /\ c.done = FALSE /\ c.atEnd = FALSE
          /\ Places(c) = Stream!Start /\ Reached(c) = k
          BY <2>5, <3>1, BeganFields
    <3>3. Good(c) /\ Begun(c) BY <1>1, <2>5, ResetRight
    <3> QED BY <1>2, <2>1, <2>4, <2>5, <3>2, <3>3
  <2>6. ASSUME DidRead(b), c = Gone(b.taken)
        PROVE  BufferRight' /\ Stream!StreamReset
    <3>1. /\ c.scratch = <<>> /\ c.backtracked = FALSE /\ c.done = FALSE /\ c.atEnd = TRUE
          /\ Places(c) = Stream!Start /\ Reached(c) = b.taken /\ c.taken = b.taken
      <4> HIDE DEF b, c
      <4> QED BY <2>2, <2>6, GoneFields
    <3>2. Lost(c) BY <2>1, <2>6, <3>1 DEF Lost
    <3>3. BufferRight' BY <1>1, <1>9, <3>2 DEF BufferRight, Lost, Gone
    <3>4. b.taken \in Reached(b) .. Len(text) BY <2>1, <2>2
    <3> QED BY <2>4, <2>6, <3>1, <3>3, <3>4
  <2> HIDE DEF b, c
  <2>7. CASE DidRead(b) /\ c = Began(0) BY <2>2, <2>5, <2>7 DEF Stream!StreamNext
  <2>8. CASE DidRead(b) /\ c = Gone(b.taken) BY <2>6, <2>8 DEF Stream!StreamNext
  <2>9. CASE ~ DidRead(b) /\ c = Began(b.taken) BY <2>1, <2>5, <2>9 DEF Stream!StreamNext
  <2> QED BY <1>9, <2>7, <2>8, <2>9
<1> QED BY <1>0, <1>6, <1>7, <1>8, <1>9, BufferStep

\* UTF8FileBuffer implements TextStream, for every text and window: the window
\* cannot be seen.
THEOREM BufferWindowHidden == BufferSpec => WindowHidden
<1>1. BufferInit => BufferRight /\ Stream!StreamInit BY BufferRightInit
<1>2. BufferRight /\ [BufferNext]_bufferVars => BufferRight' /\ [Stream!StreamNext]_Stream!streamVars
      BY BufferRightStep
<1> QED BY <1>1, <1>2, PTL DEF BufferSpec, WindowHidden, Stream!StreamSpec

-----------------------------------------------------------------------------
(* The tokens of a file *)

\* A code point has a byte, and is read from where the next one begins.
LEMMA ReadAtRight ==
    ASSUME NEW f \in Seq(Bytes), NEW o \in Nat
    PROVE  /\ Stream!ReadAt(f, o)[1] \in Seq(Bytes) /\ Stream!ReadAt(f, o)[2] \in Nat
           /\ Stream!ReadAt(f, o)[1] # <<>> => o < Stream!ReadAt(f, o)[2] /\ o < Len(f)
<1> DEFINE P(n) == /\ Stream!ReadAt(f, n)[1] \in Seq(Bytes) /\ Stream!ReadAt(f, n)[2] \in Nat
                   /\ Stream!ReadAt(f, n)[1] # <<>> => n < Stream!ReadAt(f, n)[2] /\ n < Len(f)
           Rest(n) == IF n < Len(f) THEN Len(f) - n ELSE 0
           Bad == {n \in Nat : ~ P(n)}
           N == {Rest(n) : n \in Bad}
<1>0. Len(f) \in Nat /\ \A n \in Nat : Rest(n) \in Nat OBVIOUS
<1> SUFFICES ASSUME Bad # {} PROVE FALSE
  <2> HIDE DEF P
  <2>1. P(o) OBVIOUS
  <2> QED BY <2>1 DEF P
<1>1. PICK n \in Bad : \A m \in Bad : Rest(n) <= Rest(m)
  <2> HIDE DEF Rest, P
  <2>1. N \in SUBSET Nat /\ N # {} BY <1>0
  <2>2. PICK k \in N : \A m \in N : k <= m
    <3> HIDE DEF N
    <3> QED BY <2>1, LeastExists
  <2>3. PICK n \in Bad : k = Rest(n) BY <2>2
  <2> QED BY <2>2, <2>3
<1>2. n \in Nat /\ ~ P(n)
  <2> HIDE DEF P
  <2> QED BY <1>1
<1> DEFINE e == Code(f, n)[1]
           word == SubSeq(f, n + 1, e)
<1>3. /\ e \in Nat /\ Code(f, n)[2] \in {Stream!Accept, Stream!Reject}
      /\ n < Len(f) => n < e /\ e <= Len(f)
      /\ ~ n < Len(f) => e = n /\ Code(f, n)[2] = Stream!Accept
      BY <1>2, DecodeRight
<1> HIDE DEF e
<1>4. CASE Code(f, n)[2] = Stream!Reject
  <2>1. Stream!ReadAt(f, n) = Stream!ReadAt(f, e) BY <1>2, <1>4, ReadAtUnfolds DEF e
  <2>2. n < Len(f) BY <1>3, <1>4 DEF Stream!Accept, Stream!Reject
  <2>3. n < e /\ e <= Len(f) BY <1>3, <2>2
  <2>4. Rest(e) < Rest(n) BY <1>0, <1>2, <1>3, <2>2, <2>3
  <2>5. P(e)
    <3>1. ~ Rest(n) <= Rest(e)
      <4>1. Rest(n) \in Nat /\ Rest(e) \in Nat BY <1>0, <1>2, <1>3
      <4> HIDE DEF Rest
      <4> QED BY <2>4, <4>1
    <3> HIDE DEF Rest, P
    <3> QED BY <1>1, <1>3, <3>1
  <2>6. P(n) BY <1>2, <1>3, <2>1, <2>2, <2>3, <2>5
  <2> QED BY <1>2, <2>6
<1>5. CASE Code(f, n)[2] # Stream!Reject
  <2>1. Stream!ReadAt(f, n) = <<word, e>> BY <1>2, <1>5, ReadAtUnfolds DEF e
  <2>2. word \in Seq(Bytes)
    <3>1. n + 1 \in Int /\ e \in Int /\ \A i \in n + 1 .. e : f[i] \in Bytes BY <1>0, <1>2, <1>3
    <3> QED BY <3>1, SubSeqProperties
  <2>3. ~ n < Len(f) => word = <<>>
    <3> SUFFICES ASSUME ~ n < Len(f) PROVE word = <<>> OBVIOUS
    <3>1. e = n BY <1>3
    <3>2. e < n + 1 /\ n + 1 \in Int /\ e \in Int BY <1>2, <1>3, <3>1
    <3> QED BY <3>2, SubSeqEmpty
  <2> HIDE DEF word
  <2>4. Stream!ReadAt(f, n)[1] = word /\ Stream!ReadAt(f, n)[2] = e BY <2>1
  <2>5. P(n) BY <1>3, <2>2, <2>3, <2>4
  <2> QED BY <1>2, <2>5
<1> QED BY <1>4, <1>5

\* The tokens, when a code point was read and the offset behind it is o.
After(cp, o, token) ==
    IF cp = <<>> THEN Behind(token) \o <<<<>>>>
    ELSE IF IsDelim(cp) THEN Behind(token) \o TokensFrom(text, o, <<>>)
    ELSE TokensFrom(text, o, token \o cp)

LEMMA BehindTyped ==
    ASSUME NEW token \in Seq(Bytes)
    PROVE  Behind(token) \in Seq(Seq(Bytes))
BY DEF Behind

LEMMA TokensUnfold ==
    ASSUME text \in Seq(Bytes), NEW o \in Nat, NEW token \in Seq(Bytes)
    PROVE  /\ TokensFrom(text, o, token) \in Seq(Seq(Bytes))
           /\ TokensFrom(text, o, token) = After(Stream!ReadAt(text, o)[1], Stream!ReadAt(text, o)[2], token)
<1> DEFINE D == Nat \X Seq(Bytes)
           V == Seq(Seq(Bytes))
           Cp(x) == Stream!ReadAt(text, x[1])[1]
           To(x) == Stream!ReadAt(text, x[1])[2]
           Eq(h) == h = [x \in Nat \X Seq(Stream!Bytes) |->
                       LET read == Stream!ReadAt(text, x[1])
                           tok  == x[2]
                       IN  IF read[1] = <<>> THEN Behind(tok) \o <<<<>>>>
                           ELSE IF IsDelim(read[1]) THEN Behind(tok) \o h[<<read[2], <<>>>>]
                           ELSE h[<<read[2], tok \o read[1]>>]]
           from == CHOOSE h : Eq(h)
           Re(h) == h = [x \in D |->
                       IF Cp(x) = <<>> THEN Behind(x[2]) \o <<<<>>>>
                       ELSE IF IsDelim(Cp(x)) THEN Behind(x[2]) \o h[<<To(x), <<>>>>]
                       ELSE h[<<To(x), x[2] \o Cp(x)>>]]
           stop == {x \in D : Cp(x) = <<>>}
           nx   == [x \in D |-> IF IsDelim(Cp(x)) THEN <<To(x), <<>>>> ELSE <<To(x), x[2] \o Cp(x)>>]
           mu   == [x \in D |-> IF x[1] < Len(text) THEN Len(text) - x[1] ELSE 0]
           base == [x \in D |-> Behind(x[2]) \o <<<<>>>>]
           g    == [x \in D |-> [v \in V |-> IF IsDelim(Cp(x)) THEN Behind(x[2]) \o v ELSE v]]
<1>1. \A p \in Nat, t \in Seq(Bytes) : TokensFrom(text, p, t) = from[<<p, t>>] BY DEF TokensFrom
<1>2. \A h : Eq(h) <=> Re(h) BY DEF Bytes
<1>3. ASSUME NEW x \in D
      PROVE  /\ Cp(x) \in Seq(Bytes) /\ To(x) \in Nat /\ x[1] \in Nat /\ x[2] \in Seq(Bytes)
             /\ Cp(x) # <<>> => x[1] < To(x) /\ x[1] < Len(text)
             /\ <<To(x), <<>>>> \in D /\ <<To(x), x[2] \o Cp(x)>> \in D
             /\ Behind(x[2]) \in V
  <2>1. x[1] \in Nat /\ x[2] \in Seq(Bytes) OBVIOUS
  <2>2. /\ Cp(x) \in Seq(Bytes) /\ To(x) \in Nat
        /\ Cp(x) # <<>> => x[1] < To(x) /\ x[1] < Len(text)
        BY <2>1, ReadAtRight
  <2> HIDE DEF Cp, To
  <2>3. <<>> \in Seq(Bytes) /\ x[2] \o Cp(x) \in Seq(Bytes) BY <2>1, <2>2
  <2>4. Behind(x[2]) \in V BY <2>1, BehindTyped
  <2> QED BY <2>1, <2>2, <2>3, <2>4
<1> HIDE DEF Cp, To
<1>4. Descends(D, stop, nx, mu)
  <2>0. Len(text) \in Nat OBVIOUS
  <2>1. nx \in [D -> D] BY <1>3
  <2>2. mu \in [D -> Nat] BY <1>3, <2>0
  <2>3. ASSUME NEW x \in D \ stop PROVE mu[nx[x]] < mu[x]
    <3>1. x[1] \in Nat /\ To(x) \in Nat /\ x[1] < To(x) /\ x[1] < Len(text) BY <1>3
    <3>2. nx[x] \in D /\ nx[x][1] = To(x) BY <1>3
    <3>3. mu[nx[x]] = IF To(x) < Len(text) THEN Len(text) - To(x) ELSE 0
      <4> HIDE DEF nx, D
      <4> QED BY <3>2
    <3>4. mu[x] = Len(text) - x[1] BY <3>1
    <3> HIDE DEF mu, nx, D
    <3> QED BY <2>0, <3>1, <3>3, <3>4
  <2> QED BY <2>1, <2>2, <2>3 DEF Descends
<1>5. base \in [D -> V]
  <2>1. <<<<>>>> \in V OBVIOUS
  <2> HIDE DEF V
  <2>2. \A v, w \in V : v \o w \in V BY DEF V
  <2>3. \A x \in D : Behind(x[2]) \o <<<<>>>> \in V BY <1>3, <2>1, <2>2
  <2> HIDE DEF D
  <2> QED BY <2>3
<1>6. g \in [D -> [V -> V]]
  <2> HIDE DEF V
  <2>1. \A v, w \in V : v \o w \in V BY DEF V
  <2>2. \A x \in D : Behind(x[2]) \in V BY <1>3
  <2> HIDE DEF D
  <2>3. \A x \in D : [v \in V |-> IF IsDelim(Cp(x)) THEN Behind(x[2]) \o v ELSE v] \in [V -> V] BY <2>1, <2>2
  <2> QED BY <2>3
<1>7. PICK h \in [D -> V] : Re(h)
  <2>1. PICK h \in [D -> V] : Recurses(D, stop, nx, base, g, h)
    <3> HIDE DEF D, V, stop, nx, mu, base, g
    <3> QED BY <1>4, <1>5, <1>6, DescentExists
  <2>2. ASSUME NEW x \in D
        PROVE  h[x] = IF Cp(x) = <<>> THEN Behind(x[2]) \o <<<<>>>>
                      ELSE IF IsDelim(Cp(x)) THEN Behind(x[2]) \o h[<<To(x), <<>>>>]
                      ELSE h[<<To(x), x[2] \o Cp(x)>>]
    <3>1. h[x] = IF x \in stop THEN base[x] ELSE g[x][h[nx[x]]] BY <2>1 DEF Recurses, Unfolded
    <3>2. nx[x] \in D /\ nx[x] = IF IsDelim(Cp(x)) THEN <<To(x), <<>>>> ELSE <<To(x), x[2] \o Cp(x)>> BY <1>3
    <3>3. h[nx[x]] \in V
      <4> HIDE DEF D, V, nx
      <4> QED BY <3>2
    <3>4. g[x][h[nx[x]]] = IF IsDelim(Cp(x)) THEN Behind(x[2]) \o h[nx[x]] ELSE h[nx[x]]
      <4> HIDE DEF D, V, nx
      <4> QED BY <3>3
    <3>5. x \in stop <=> Cp(x) = <<>> OBVIOUS
    <3>6. base[x] = Behind(x[2]) \o <<<<>>>> OBVIOUS
    <3> HIDE DEF stop, nx, mu, base, g, D, V
    <3> QED BY <3>1, <3>2, <3>4, <3>5, <3>6
  <2>3. Re(h)
    <3> HIDE DEF D, V
    <3> QED BY <2>1, <2>2
  <2> HIDE DEF Re
  <2> QED BY <2>1, <2>3
<1>8. Re(from)
  <2> HIDE DEF Re, Eq
  <2> QED BY <1>2, <1>7
<1> HIDE DEF from, Eq
<1>9. ASSUME NEW x \in D
      PROVE  from[x] = IF Cp(x) = <<>> THEN Behind(x[2]) \o <<<<>>>>
                       ELSE IF IsDelim(Cp(x)) THEN Behind(x[2]) \o from[<<To(x), <<>>>>]
                       ELSE from[<<To(x), x[2] \o Cp(x)>>]
  <2> HIDE DEF D
  <2> QED BY <1>8
<1>10. \A x \in D : from[x] \in V
  <2> DEFINE Bad == {x \in D : from[x] \notin V}
             N == {mu[x] : x \in Bad}
  <2> SUFFICES ASSUME Bad # {} PROVE FALSE OBVIOUS
  <2>1. N \in SUBSET Nat /\ N # {}
    <3>1. mu \in [D -> Nat] BY <1>4 DEF Descends
    <3> HIDE DEF mu, D, V
    <3> QED BY <3>1
  <2>2. PICK n \in N : \A m \in N : n <= m
    <3> HIDE DEF N
    <3> QED BY <2>1, LeastExists
  <2>3. PICK x \in Bad : n = mu[x]
    <3> HIDE DEF mu, D, V, Bad
    <3> QED BY <2>2
  <2>4. x \in D /\ from[x] \notin V
    <3> HIDE DEF D, V
    <3> QED BY <2>3
  <2>5. CASE x \in stop
    <3>1. from[x] = base[x]
      <4>1. Cp(x) = <<>> BY <2>5
      <4>2. base[x] = Behind(x[2]) \o <<<<>>>> BY <2>4
      <4> HIDE DEF D, V, base
      <4> QED BY <1>9, <2>4, <4>1, <4>2
    <3> HIDE DEF D, V, base
    <3> QED BY <1>5, <2>4, <3>1
  <2>6. CASE x \notin stop
    <3>1. Cp(x) # <<>> BY <2>4, <2>6
    <3>2. nx[x] \in D /\ mu[nx[x]] < mu[x] /\ mu[nx[x]] \in Nat /\ mu[x] \in Nat
      <4>1. nx \in [D -> D] /\ mu \in [D -> Nat] /\ (\A y \in D \ stop : mu[nx[y]] < mu[y]) BY <1>4 DEF Descends
      <4> HIDE DEF nx, mu, D, stop
      <4> QED BY <2>4, <2>6, <4>1
    <3>3. from[nx[x]] \in V
      <4>1. nx[x] \notin Bad
        <5> SUFFICES ASSUME nx[x] \in Bad PROVE FALSE OBVIOUS
        <5> HIDE DEF nx, mu, Bad
        <5>1. mu[nx[x]] \in N OBVIOUS
        <5>2. n <= mu[nx[x]]
          <6> HIDE DEF N
          <6> QED BY <2>2, <5>1
        <5> QED BY <2>3, <3>2, <5>2
      <4> HIDE DEF nx, mu, D, V
      <4> QED BY <3>2, <4>1
    <3>4. from[x] = IF IsDelim(Cp(x)) THEN Behind(x[2]) \o from[nx[x]] ELSE from[nx[x]]
      <4>1. nx[x] = IF IsDelim(Cp(x)) THEN <<To(x), <<>>>> ELSE <<To(x), x[2] \o Cp(x)>> BY <2>4
      <4> HIDE DEF nx, D, V
      <4> QED BY <1>9, <2>4, <3>1, <4>1
    <3>5. Behind(x[2]) \in V BY <1>3, <2>4
    <3>6. \A v, w \in V : v \o w \in V OBVIOUS
    <3> HIDE DEF V, nx
    <3> QED BY <2>4, <3>3, <3>4, <3>5, <3>6
  <2> QED BY <2>5, <2>6
<1> DEFINE x == <<o, token>>
<1>11. x \in D /\ x[1] = o /\ x[2] = token OBVIOUS
<1>12. TokensFrom(text, o, token) = from[x] BY <1>1
<1>13. <<>> \in Seq(Bytes) OBVIOUS
<1>14. /\ To(x) \in Nat /\ token \o Cp(x) \in Seq(Bytes)
  <2>1. Cp(x) \in Seq(Bytes) /\ To(x) \in Nat BY <1>3, <1>11
  <2> HIDE DEF x
  <2> QED BY <2>1
<1>15. TokensFrom(text, To(x), <<>>) = from[<<To(x), <<>>>>] BY <1>1, <1>13, <1>14
<1>16. TokensFrom(text, To(x), token \o Cp(x)) = from[<<To(x), token \o Cp(x)>>] BY <1>1, <1>14
<1>17. Cp(x) = Stream!ReadAt(text, o)[1] /\ To(x) = Stream!ReadAt(text, o)[2] BY <1>11 DEF Cp, To
<1> HIDE DEF x, D, V
<1>18. from[x] = IF Cp(x) = <<>> THEN Behind(token) \o <<<<>>>>
                 ELSE IF IsDelim(Cp(x)) THEN Behind(token) \o from[<<To(x), <<>>>>]
                 ELSE from[<<To(x), token \o Cp(x)>>]
      BY <1>9, <1>11
<1>19. from[x] = After(Cp(x), To(x), token) BY <1>15, <1>16, <1>18 DEF After
<1> QED BY <1>10, <1>11, <1>12, <1>17, <1>19 DEF V

\* A token that has begun is the beginning of the next one.
LEMMA BegunToken ==
    ASSUME text \in Seq(Bytes), NEW o \in Nat, NEW token \in Seq(Bytes), token # <<>>
    PROVE  LET from == TokensFrom(text, o, token)
           IN  1 \in DOMAIN from /\ Len(from[1]) >= Len(token)
<1> DEFINE T(x) == TokensFrom(text, x[1], x[2])
           P(x) == 1 \in DOMAIN T(x) /\ Len(T(x)[1]) >= Len(x[2])
           D == {x \in Nat \X Seq(Bytes) : x[2] # <<>>}
           Rest(x) == IF x[1] < Len(text) THEN Len(text) - x[1] ELSE 0
           Bad == {x \in D : ~ P(x)}
           N == {Rest(x) : x \in Bad}
<1>0. Len(text) \in Nat OBVIOUS
<1>a. \A x \in D : x[1] \in Nat /\ x[2] \in Seq(Bytes) /\ x[2] # <<>> OBVIOUS
<1>b. \A x \in D : Rest(x) \in Nat BY <1>0, <1>a
<1> SUFFICES ASSUME Bad # {} PROVE FALSE
  <2> DEFINE y == <<o, token>>
  <2>1. y \in D /\ y[1] = o /\ y[2] = token OBVIOUS
  <2>2. P(y)
    <3> HIDE DEF P, D, y
    <3> QED BY <2>1
  <2> HIDE DEF y, D
  <2> QED BY <2>1, <2>2
<1>1. PICK x \in Bad : \A y \in Bad : Rest(x) <= Rest(y)
  <2> HIDE DEF Rest, P, D
  <2>1. N \in SUBSET Nat /\ N # {} BY <1>b
  <2>2. PICK n \in N : \A m \in N : n <= m
    <3> HIDE DEF N
    <3> QED BY <2>1, LeastExists
  <2>3. PICK x \in Bad : n = Rest(x) BY <2>2
  <2> QED BY <2>2, <2>3
<1>2. x \in D /\ ~ P(x)
  <2> HIDE DEF P, D
  <2> QED BY <1>1
<1> DEFINE at == x[1]
           begun == x[2]
           cp == Stream!ReadAt(text, at)[1]
           to == Stream!ReadAt(text, at)[2]
<1>3. at \in Nat /\ begun \in Seq(Bytes) /\ begun # <<>> BY <1>a, <1>2
<1> HIDE DEF at, begun
<1>4. cp \in Seq(Bytes) /\ to \in Nat /\ (cp # <<>> => at < to /\ at < Len(text)) BY <1>3, ReadAtRight
<1>5. T(x) = After(cp, to, begun) BY <1>3, TokensUnfold DEF at, begun
<1> HIDE DEF cp, to
<1>6. Behind(begun) = <<begun>> BY <1>3 DEF Behind
<1>7. ASSUME NEW s \in Seq(Seq(Bytes)), T(x) = <<begun>> \o s PROVE P(x)
  <2>1. <<begun>> \in Seq(Seq(Bytes)) /\ Len(<<begun>>) = 1 BY <1>3
  <2> DEFINE one == <<begun>>
  <2>2. one \o s \in Seq(Seq(Bytes)) /\ Len(one \o s) = 1 + Len(s) /\ (one \o s)[1] = one[1]
    <3> HIDE DEF one
    <3>1. Len(s) \in Nat /\ 1 \in 1 .. Len(one) + Len(s) BY <2>1 DEF one
    <3>2. one \in Seq(Seq(Bytes)) /\ Len(one) = 1 BY <2>1 DEF one
    <3>3. /\ one \o s \in Seq(Seq(Bytes)) /\ Len(one \o s) = Len(one) + Len(s)
          /\ \A i \in 1 .. Len(one) + Len(s) : (one \o s)[i] = IF i <= Len(one) THEN one[i] ELSE s[i - Len(one)]
          BY <3>2, ConcatProperties
    <3> QED BY <3>1, <3>2, <3>3
  <2>3. one[1] = begun OBVIOUS
  <2>4. 1 \in DOMAIN (one \o s) BY <2>2
  <2>5. Len(begun) \in Nat BY <1>3
  <2> HIDE DEF one
  <2>6. T(x) = one \o s BY <1>7 DEF one
  <2>7. 1 \in DOMAIN T(x) /\ T(x)[1] = begun BY <2>2, <2>3, <2>4, <2>6
  <2> HIDE DEF T
  <2> QED BY <2>5, <2>7 DEF begun
<1>8. CASE cp = <<>>
  <2>1. T(x) = <<begun>> \o <<<<>>>> BY <1>5, <1>6, <1>8 DEF After
  <2>2. <<<<>>>> \in Seq(Seq(Bytes)) OBVIOUS
  <2> HIDE DEF T, P
  <2> QED BY <1>2, <1>7, <2>1, <2>2
<1>9. CASE cp # <<>> /\ IsDelim(cp)
  <2>1. T(x) = <<begun>> \o TokensFrom(text, to, <<>>) BY <1>5, <1>6, <1>9 DEF After
  <2>2. <<>> \in Seq(Bytes) OBVIOUS
  <2>3. TokensFrom(text, to, <<>>) \in Seq(Seq(Bytes)) BY <1>4, <2>2, TokensUnfold
  <2> HIDE DEF T, P
  <2> QED BY <1>2, <1>7, <2>1, <2>3
<1>10. CASE cp # <<>> /\ ~ IsDelim(cp)
  <2> DEFINE y == <<to, begun \o cp>>
  <2>1. T(x) = TokensFrom(text, to, begun \o cp) BY <1>5, <1>10 DEF After
  <2>2. begun \o cp \in Seq(Bytes) /\ Len(begun \o cp) = Len(begun) + Len(cp) BY <1>3, <1>4
  <2>3. Len(begun) \in Nat /\ Len(cp) \in Nat /\ Len(begun) > 0
    <3>1. Len(begun) \in Nat /\ Len(begun) # 0 BY <1>3
    <3> QED BY <1>4, <3>1
  <2>4. begun \o cp # <<>>
    <3>1. Len(begun \o cp) > 0 BY <2>2, <2>3
    <3>2. Len(<<>>) = 0 OBVIOUS
    <3> HIDE DEF y
    <3> QED BY <3>1, <3>2
  <2>5. y \in D /\ y[1] = to /\ y[2] = begun \o cp BY <1>4, <2>2, <2>4
  <2>6. Rest(y) < Rest(x) /\ Rest(y) \in Nat /\ Rest(x) \in Nat
    <3>1. Rest(x) = Len(text) - at BY <1>4, <1>10 DEF at
    <3>2. Rest(y) = IF to < Len(text) THEN Len(text) - to ELSE 0 BY <2>5
    <3> HIDE DEF Rest, y
    <3>3. at \in Nat /\ to \in Nat /\ at < to /\ at < Len(text) BY <1>3, <1>4, <1>10
    <3> QED BY <1>0, <3>1, <3>2, <3>3
  <2>7. P(y)
    <3>1. ~ Rest(x) <= Rest(y)
      <4> HIDE DEF Rest
      <4> QED BY <2>6
    <3> HIDE DEF Rest, P, D, y
    <3> QED BY <1>1, <2>5, <3>1
  <2>8. T(y) = T(x) BY <2>1, <2>5
  <2>9. P(x)
    <3>1. 1 \in DOMAIN T(x) /\ Len(T(x)[1]) >= Len(begun \o cp)
      <4> HIDE DEF T, y
      <4> QED BY <2>5, <2>7, <2>8
    <3>2. T(x)[1] \in Seq(Bytes)
      <4>1. T(x) \in Seq(Seq(Bytes)) BY <1>3, TokensUnfold DEF at, begun
      <4> HIDE DEF T
      <4> QED BY <3>1, <4>1
    <3>3. Len(T(x)[1]) \in Nat BY <3>2
    <3>4. Len(T(x)[1]) >= Len(begun) BY <2>2, <2>3, <3>1, <3>3
    <3> HIDE DEF T
    <3> QED BY <3>1, <3>4 DEF begun
  <2> HIDE DEF P
  <2> QED BY <1>2, <2>9
<1> QED BY <1>8, <1>9, <1>10

-----------------------------------------------------------------------------
(* The tokens that are returned *)

\* No token is longer than a line.
Fits == \A i \in DOMAIN AllTokens : Len(AllTokens[i]) <= LineLength

TokensTyped ==
    /\ tokens \in Seq(Seq(Bytes)) /\ line \in Seq(Bytes)
    /\ filling \in {"out", "skip", "fill", "over"}
    /\ ~ tokenizing => filling = "out" /\ tokens = <<>>

\* What UTF8FileTokBuffer has returned, with what it will return, is the tokens.
Remains(b, l, where, ts) ==
    /\ where \in {"out", "skip"} => AllTokens = ts \o TokensFrom(text, Reached(b), <<>>)
    /\ where = "skip" => l = <<>>
    /\ where = "fill" => /\ AllTokens = ts \o After(b.scratch, Reached(b), l)
                         /\ b.scratch = <<>> => Reached(b) = Len(text)
                         /\ IsDelim(b.scratch) => l # <<>>
    /\ where = "over" => ts = AllTokens

TokensInv ==
    /\ BufferRight /\ TokensTyped
    /\ tokenizing /\ Fits => Remains(buffer, line, filling, tokens)

LEMMA PrefixOf ==
    ASSUME NEW S, NEW s \in Seq(S), NEW t \in Seq(S)
    PROVE  IsPrefix(s, s \o t)
<1>1. Len(s) \in Nat /\ Len(t) \in Nat /\ Len(s \o t) = Len(s) + Len(t) OBVIOUS
<1> DEFINE n == Len(s)
           u == s \o t
           a == SubSeq(s, 1, n)
           b == SubSeq(u, 1, n)
<1>2. u \in Seq(S) /\ (\A i \in 1 .. n : u[i] = s[i]) /\ n <= Len(u) BY <1>1
<1>3. a \in Seq(S) /\ Len(a) = n /\ \A i \in 1 .. n : a[i] = s[i] BY <1>1
<1> HIDE DEF u
<1>4. b \in Seq(S) /\ Len(b) = n /\ \A i \in 1 .. n : b[i] = u[i] BY <1>1, <1>2
<1> HIDE DEF a, b
<1>5. a = b
  <2>1. \A i \in 1 .. Len(a) : a[i] = b[i] BY <1>2, <1>3, <1>4
  <2> QED BY <1>3, <1>4, <2>1
<1>6. n <= Len(u) BY <1>2
<1> QED BY <1>5, <1>6 DEF a, b, u, IsPrefix

LEMMA Associates ==
    ASSUME NEW q \in Seq(Seq(Bytes)), NEW r \in Seq(Seq(Bytes)), NEW s \in Seq(Seq(Bytes))
    PROVE  q \o (r \o s) = (q \o r) \o s
OBVIOUS

LEMMA AfterTyped ==
    ASSUME text \in Seq(Bytes), NEW cp \in Seq(Bytes), NEW o \in Nat, NEW token \in Seq(Bytes)
    PROVE  After(cp, o, token) \in Seq(Seq(Bytes))
<1>1. <<>> \in Seq(Bytes) /\ token \o cp \in Seq(Bytes) /\ <<<<>>>> \in Seq(Seq(Bytes)) OBVIOUS
<1>2. /\ TokensFrom(text, o, <<>>) \in Seq(Seq(Bytes))
      /\ TokensFrom(text, o, token \o cp) \in Seq(Seq(Bytes))
      BY <1>1, TokensUnfold
<1>3. Behind(token) \in Seq(Seq(Bytes)) BY BehindTyped
<1>4. \A v, w \in Seq(Seq(Bytes)) : v \o w \in Seq(Seq(Bytes)) OBVIOUS
<1> QED BY <1>1, <1>2, <1>3, <1>4 DEF After

\* The next code point comes out of what remains.
LEMMA RemainsRead ==
    ASSUME text \in Seq(Bytes), NEW b, Good(b), NEW token \in Seq(Bytes)
    PROVE  LET c == ReadPoint(b)
           IN  TokensFrom(text, Reached(b), token) = After(c.scratch, Reached(c), token)
<1> DEFINE c == ReadPoint(b)
<1>1. c.scratch = Stream!ReadAt(text, Reached(b))[1] /\ Reached(c) = Stream!ReadAt(text, Reached(b))[2]
      BY ReadPointRight
<1>2. Reached(b) \in Nat BY EndRight DEF Good
<1> HIDE DEF c
<1>3. TokensFrom(text, Reached(b), token) = After(c.scratch, Reached(c), token) BY <1>1, <1>2, TokensUnfold
<1> QED BY <1>3 DEF c

LEMMA TokensInvInit == BufferInit => TokensInv
<1> SUFFICES ASSUME BufferInit PROVE TokensInv OBVIOUS
<1>1. BufferRight BY BufferRightInit
<1>2. TokensTyped
  <2>1. <<>> \in Seq(Bytes) /\ <<>> \in Seq(Seq(Bytes)) OBVIOUS
  <2> QED BY <2>1 DEF BufferInit, TokensTyped
<1>3. Remains(buffer, line, filling, tokens)
  <2>1. text \in Seq(Bytes) BY <1>1 DEF BufferRight
  <2>2. Reached(buffer) = 0
    <3>1. buffer = Began(0) BY BeganReset DEF BufferInit
    <3> QED BY <3>1, BeganFields
  <2>3. AllTokens \in Seq(Seq(Bytes))
    <3>1. <<>> \in Seq(Bytes) /\ 0 \in Nat OBVIOUS
    <3> QED BY <2>1, <3>1, TokensUnfold DEF AllTokens
  <2>4. AllTokens = <<>> \o TokensFrom(text, Reached(buffer), <<>>)
    <3>1. AllTokens = <<>> \o AllTokens BY <2>3
    <3> QED BY <2>2, <3>1 DEF AllTokens
  <2>5. filling = "out" /\ tokens = <<>> BY DEF BufferInit
  <2> QED BY <2>4, <2>5 DEF Remains
<1> QED BY <1>1, <1>2, <1>3 DEF TokensInv

\* While no token is returned, but begun or delimiters are skipped.
LEMMA RemainsSkip ==
    ASSUME text \in Seq(Bytes), Good(buffer), Remains(buffer, line, "skip", tokens),
           NEW c, c = ReadPoint(buffer)
    PROVE  Remains(c, line, IF IsDelim(c.scratch) THEN "skip" ELSE "fill", tokens)
<1>1. line = <<>> /\ AllTokens = tokens \o TokensFrom(text, Reached(buffer), <<>>) BY DEF Remains
<1>2. <<>> \in Seq(Bytes) OBVIOUS
<1>3. TokensFrom(text, Reached(buffer), <<>>) = After(c.scratch, Reached(c), <<>>) BY <1>2, RemainsRead
<1>4. AllTokens = tokens \o After(c.scratch, Reached(c), <<>>) BY <1>1, <1>3
<1>5. CASE IsDelim(c.scratch)
  <2>1. c.scratch # <<>> BY <1>5 DEF IsDelim
  <2>2. Reached(c) \in Nat BY ReadPointRight, EndRight DEF Good
  <2>3. TokensFrom(text, Reached(c), <<>>) \in Seq(Seq(Bytes)) BY <1>2, <2>2, TokensUnfold
  <2>4. After(c.scratch, Reached(c), <<>>) = <<>> \o TokensFrom(text, Reached(c), <<>>) BY <1>5, <2>1 DEF After, Behind
  <2>5. <<>> \o TokensFrom(text, Reached(c), <<>>) = TokensFrom(text, Reached(c), <<>>) BY <2>3
  <2>6. AllTokens = tokens \o TokensFrom(text, Reached(c), <<>>) BY <1>4, <2>4, <2>5
  <2> QED BY <1>1, <1>5, <2>6 DEF Remains
<1>6. CASE ~ IsDelim(c.scratch)
  <2>1. c.scratch = <<>> => Reached(c) = Len(text) BY ReadPointRight
  <2> QED BY <1>1, <1>4, <1>6, <2>1 DEF Remains
<1> QED BY <1>5, <1>6

LEMMA RemainsFill ==
    ASSUME text \in Seq(Bytes), Good(buffer), tokens \in Seq(Seq(Bytes)), line \in Seq(Bytes), Fits,
           Remains(buffer, line, "fill", tokens)
    PROVE  IF Len(line) < LineLength /\ buffer.scratch # <<>> /\ ~ IsDelim(buffer.scratch)
           THEN Remains(ReadPoint(buffer), line \o buffer.scratch, "fill", tokens)
           ELSE Remains(buffer, line, IF line = <<>> THEN "over" ELSE "out", Append(tokens, line))
<1> DEFINE b == buffer
           cp == b.scratch
           o == Reached(b)
<1>1. /\ AllTokens = tokens \o After(cp, o, line)
      /\ cp = <<>> => o = Len(text)
      /\ IsDelim(cp) => line # <<>>
      BY DEF Remains
<1>2. cp \in Seq(Bytes) /\ o \in Nat BY BufferFields, EndRight DEF Good, Core
<1>3. LineLength \in Nat BY BufferAssumption
<1>4. <<>> \in Seq(Bytes) OBVIOUS
<1>5. Append(tokens, line) = tokens \o <<line>> OBVIOUS
<1>6. CASE cp = <<>>
  <2>1. AllTokens = tokens \o (Behind(line) \o <<<<>>>>) BY <1>1, <1>6 DEF After
  <2>2. CASE line = <<>>
    <3>1. <<>> \o <<<<>>>> = <<<<>>>> OBVIOUS
    <3>2. Behind(line) = <<>> BY <2>2 DEF Behind
    <3>3. AllTokens = tokens \o <<<<>>>> BY <2>1, <3>1, <3>2
    <3>4. AllTokens = Append(tokens, line) BY <1>5, <2>2, <3>3
    <3> QED BY <1>6, <2>2, <3>4 DEF Remains
  <2>3. CASE line # <<>>
    <3>1. Behind(line) = <<line>> BY <2>3 DEF Behind
    <3>2. tokens \o (<<line>> \o <<<<>>>>) = (tokens \o <<line>>) \o <<<<>>>> OBVIOUS
    <3>3. TokensFrom(text, o, <<>>) = <<<<>>>>
      <4>1. Stream!ReadAt(text, o)[1] = <<>> BY <1>1, <1>6, ReadAtEnd
      <4>2. TokensFrom(text, o, <<>>) = Behind(<<>>) \o <<<<>>>> BY <1>2, <1>4, <4>1, TokensUnfold DEF After
      <4>3. Behind(<<>>) = <<>> BY DEF Behind
      <4>4. <<>> \o <<<<>>>> = <<<<>>>> OBVIOUS
      <4> QED BY <4>2, <4>3, <4>4
    <3>4. AllTokens = Append(tokens, line) \o TokensFrom(text, o, <<>>) BY <1>5, <2>1, <3>1, <3>2, <3>3
    <3> QED BY <1>6, <2>3, <3>4 DEF Remains
  <2> QED BY <2>2, <2>3
<1>7. CASE cp # <<>> /\ IsDelim(cp)
  <2>1. line # <<>> BY <1>1, <1>7
  <2>2. Behind(line) = <<line>> BY <2>1 DEF Behind
  <2> DEFINE rest == TokensFrom(text, o, <<>>)
  <2>3. rest \in Seq(Seq(Bytes)) BY <1>2, <1>4, TokensUnfold
  <2>4. After(cp, o, line) = <<line>> \o rest BY <1>7, <2>2 DEF After
  <2> HIDE DEF rest
  <2>5. tokens \o (<<line>> \o rest) = (tokens \o <<line>>) \o rest
    <3> DEFINE one == <<line>>
    <3>1. one \in Seq(Seq(Bytes)) OBVIOUS
    <3> HIDE DEF one
    <3>2. tokens \o (one \o rest) = (tokens \o one) \o rest BY <2>3, <3>1, Associates
    <3> QED BY <3>2 DEF one
  <2>6. AllTokens = Append(tokens, line) \o rest BY <1>1, <1>5, <2>4, <2>5
  <2> QED BY <1>7, <2>1, <2>6 DEF Remains, rest
<1>8. CASE cp # <<>> /\ ~ IsDelim(cp)
  <2> DEFINE grown == line \o cp
             rest == TokensFrom(text, o, grown)
  <2>1. /\ grown \in Seq(Bytes) /\ Len(grown) = Len(line) + Len(cp)
        /\ Len(line) \in Nat /\ Len(cp) \in Nat /\ Len(cp) > 0
        BY <1>2, <1>8
  <2>2. grown # <<>>
    <3>1. Len(grown) > 0 BY <2>1
    <3> QED BY <3>1
  <2>3. After(cp, o, line) = rest BY <1>8 DEF After
  <2> HIDE DEF grown
  <2>4. rest \in Seq(Seq(Bytes)) BY <1>2, <2>1, TokensUnfold
  <2>5. Len(line) < LineLength
    <3>1. 1 \in DOMAIN rest /\ Len(rest[1]) >= Len(grown) BY <1>2, <2>1, <2>2, BegunToken
    <3> HIDE DEF rest
    <3>2. AllTokens = tokens \o rest BY <1>1, <2>3
    <3> DEFINE n == Len(tokens) + 1
    <3>3. n \in DOMAIN (tokens \o rest) /\ (tokens \o rest)[n] = rest[1] BY <2>4, <3>1
    <3>4. Len(rest[1]) <= LineLength
      <4> HIDE DEF n
      <4> QED BY <3>2, <3>3 DEF Fits
    <3>5. Len(rest[1]) \in Nat
      <4>1. rest[1] \in Seq(Bytes) BY <2>4, <3>1
      <4> QED BY <4>1
    <3> QED BY <1>3, <2>1, <3>1, <3>4, <3>5
  <2> DEFINE c == ReadPoint(b)
  <2>6. rest = After(c.scratch, Reached(c), grown) BY <2>1, RemainsRead
  <2>7. c.scratch = <<>> => Reached(c) = Len(text) BY ReadPointRight
  <2> HIDE DEF c
  <2>8. Remains(c, grown, "fill", tokens) BY <1>1, <2>2, <2>3, <2>6, <2>7 DEF Remains
  <2> QED BY <1>8, <2>5, <2>8 DEF c, grown
<1> QED BY <1>6, <1>7, <1>8

LEMMA HeldRight ==
    ASSUME BufferRight
    PROVE  /\ text \in Seq(Bytes) /\ (tokenizing => Good(buffer))
           /\ buffer.scratch \in Seq(Bytes) /\ Reached(buffer) \in Nat
<1>1. text \in Seq(Bytes) /\ Len(text) \in Nat BY DEF BufferRight
<1>2. CASE Good(buffer)
  <2>1. buffer.scratch \in Seq(Bytes) BY <1>2, BufferFields DEF Good, Core
  <2>2. Reached(buffer) \in Nat BY <1>1, <1>2, EndRight DEF Good
  <2> QED BY <1>1, <1>2, <2>1, <2>2
<1>3. CASE Lost(buffer) /\ ~ tokenizing
  <2>1. buffer.taken \in Nat /\ buffer = Gone(buffer.taken)
    <3>1. buffer.taken \in 0 .. Len(text) /\ buffer = Gone(buffer.taken) BY <1>3 DEF Lost
    <3> QED BY <1>1, <3>1
  <2>2. buffer.scratch = <<>> /\ Reached(buffer) = buffer.taken BY <2>1, GoneFields
  <2>3. <<>> \in Seq(Bytes) OBVIOUS
  <2> QED BY <1>1, <1>3, <2>1, <2>2, <2>3
<1> QED BY <1>2, <1>3 DEF BufferRight

LEMMA TokensInvStep == TokensInv /\ [BufferNext]_bufferVars => TokensInv'
<1> SUFFICES ASSUME TokensInv, [BufferNext]_bufferVars PROVE TokensInv' OBVIOUS
<1>0. text \in Seq(Bytes) /\ (tokenizing => Good(buffer)) /\ buffer.scratch \in Seq(Bytes)
      BY HeldRight DEF TokensInv
<1>1. /\ BufferRight /\ text \in Seq(Bytes) /\ (tokenizing => Good(buffer)) /\ buffer.scratch \in Seq(Bytes)
      /\ tokens \in Seq(Seq(Bytes)) /\ line \in Seq(Bytes) /\ filling \in {"out", "skip", "fill", "over"}
      /\ ~ tokenizing => filling = "out" /\ tokens = <<>>
      /\ tokenizing /\ Fits => Remains(buffer, line, filling, tokens)
      BY <1>0 DEF TokensInv, TokensTyped
<1>2. BufferRight' BY <1>1, BufferRightStep
<1>3. text' = text /\ (tokenizing' = tokenizing) BY DEF BufferNext, bufferVars
<1>4. (Fits' <=> Fits) /\ (Remains(buffer', line', filling', tokens') => Remains(buffer, line, filling, tokens)')
  <2>1. AllTokens' = AllTokens BY <1>3 DEF AllTokens
  <2>2. Fits' <=> Fits BY <2>1 DEF Fits
  <2> SUFFICES ASSUME Remains(buffer', line', filling', tokens') PROVE Remains(buffer, line, filling, tokens)'
      BY <2>2
  <2>3. Reached(buffer)' = Reached(buffer') BY DEF Reached, Left
  <2>4. After(buffer.scratch, Reached(buffer), line)' = After(buffer'.scratch, Reached(buffer'), line')
        BY <1>3, <2>3 DEF After
  <2> QED BY <1>3, <2>1, <2>3, <2>4 DEF Remains
<1> SUFFICES /\ TokensTyped'
             /\ tokenizing /\ Fits => Remains(buffer', line', filling', tokens')
    BY <1>2, <1>3, <1>4 DEF TokensInv
<1>5. CASE (Read \/ Unread \/ Reset) /\ UNCHANGED <<line, filling, tokens>>
  <2>1. ~ tokenizing BY <1>5 DEF Read, Unread, Reset
  <2> QED BY <1>1, <1>3, <1>5, <2>1 DEF TokensTyped
<1>6. CASE TokBegin
  <2>1. tokenizing /\ filling = "out" /\ line' = <<>> /\ filling' = "skip" /\ buffer' = buffer /\ tokens' = tokens
        BY <1>6 DEF TokBegin
  <2>2. TokensTyped'
    <3>1. <<>> \in Seq(Bytes) OBVIOUS
    <3> QED BY <1>1, <1>3, <2>1, <3>1 DEF TokensTyped
  <2> QED BY <1>1, <2>1, <2>2 DEF Remains
<1>7. CASE TokSkip
  <2>1. /\ filling = "skip" /\ buffer' = ReadPoint(buffer) /\ line' = line /\ tokens' = tokens
        /\ filling' = IF IsDelim(buffer'.scratch) THEN "skip" ELSE "fill"
        BY <1>7 DEF TokSkip
  <2>2. TokensTyped' BY <1>1, <1>3, <2>1 DEF TokensTyped
  <2>3. ASSUME tokenizing, Fits PROVE Remains(buffer', line', filling', tokens')
    <3>1. Remains(buffer, line, "skip", tokens) BY <1>1, <2>1, <2>3
    <3>2. Remains(buffer', line, IF IsDelim(buffer'.scratch) THEN "skip" ELSE "fill", tokens)
          BY <1>1, <2>1, <3>1, RemainsSkip
    <3> QED BY <2>1, <3>2
  <2> QED BY <2>2, <2>3
<1>8. CASE TokFill
  <2> DEFINE more == Len(line) < LineLength /\ buffer.scratch # <<>> /\ ~ IsDelim(buffer.scratch)
  <2>1. /\ filling = "fill"
        /\ more => /\ line' = line \o buffer.scratch /\ buffer' = ReadPoint(buffer)
                   /\ filling' = filling /\ tokens' = tokens
        /\ ~ more => /\ filling' = IF line = <<>> THEN "over" ELSE "out"
                     /\ tokens' = Append(tokens, line) /\ line' = line /\ buffer' = buffer
        BY <1>8 DEF TokFill
  <2>2. TokensTyped'
    <3>1. tokenizing' BY <1>1, <1>3, <2>1
    <3>2. line \o buffer.scratch \in Seq(Bytes) /\ Append(tokens, line) \in Seq(Seq(Bytes)) BY <1>1
    <3> HIDE DEF more
    <3> QED BY <1>1, <2>1, <3>1, <3>2 DEF TokensTyped
  <2>3. ASSUME tokenizing, Fits PROVE Remains(buffer', line', filling', tokens')
    <3>1. Remains(buffer, line, "fill", tokens) BY <1>1, <2>1, <2>3
    <3>2. IF more THEN Remains(ReadPoint(buffer), line \o buffer.scratch, "fill", tokens)
          ELSE Remains(buffer, line, IF line = <<>> THEN "over" ELSE "out", Append(tokens, line))
          BY <1>1, <2>3, <3>1, RemainsFill
    <3> HIDE DEF more
    <3> QED BY <2>1, <3>2
  <2> QED BY <2>2, <2>3
<1>9. CASE UNCHANGED <<line, filling, tokens, buffer>>
  <2>1. line' = line /\ filling' = filling /\ tokens' = tokens /\ buffer' = buffer BY <1>9
  <2>2. TokensTyped' BY <1>1, <1>3, <2>1 DEF TokensTyped
  <2>3. tokenizing /\ Fits => Remains(buffer', line', filling', tokens') BY <1>1, <2>1
  <2> QED BY <2>2, <2>3
<1> QED BY <1>5, <1>6, <1>7, <1>8, <1>9 DEF BufferNext, bufferVars

LEMMA TokensInvEnough == TokensInv => TokensRight
<1> SUFFICES ASSUME TokensInv, Fits PROVE IsPrefix(tokens, AllTokens)
    BY DEF TokensRight, Fits
<1>0. text \in Seq(Bytes) /\ buffer.scratch \in Seq(Bytes) /\ Reached(buffer) \in Nat
      BY HeldRight DEF TokensInv
<1>1. /\ text \in Seq(Bytes) /\ buffer.scratch \in Seq(Bytes)
      /\ tokens \in Seq(Seq(Bytes)) /\ line \in Seq(Bytes)
      /\ filling \in {"out", "skip", "fill", "over"}
      /\ ~ tokenizing => tokens = <<>>
      /\ tokenizing => Remains(buffer, line, filling, tokens)
      BY <1>0 DEF TokensInv, TokensTyped
<1>2. Reached(buffer) \in Nat /\ <<>> \in Seq(Bytes) BY <1>0
<1> DEFINE All == Seq(Seq(Bytes))
<1>3. AllTokens \in All BY <1>1, <1>2, TokensUnfold DEF AllTokens
<1>4. TokensFrom(text, Reached(buffer), <<>>) \in All BY <1>1, <1>2, TokensUnfold
<1>5. After(buffer.scratch, Reached(buffer), line) \in All BY <1>1, <1>2, AfterTyped
<1>6. \E rest \in All : AllTokens = tokens \o rest
  <2>1. <<>> \in All /\ tokens \o <<>> = tokens BY <1>1
  <2>2. CASE ~ tokenizing
    <3>1. <<>> \o AllTokens = AllTokens BY <1>3
    <3> QED BY <1>1, <1>3, <2>2, <3>1
  <2>3. CASE tokenizing
    <3> HIDE DEF All
    <3> QED BY <1>1, <1>4, <1>5, <2>1, <2>3 DEF Remains
  <2> QED BY <2>2, <2>3
<1>7. \A rest \in All : IsPrefix(tokens, tokens \o rest) BY <1>1, PrefixOf
<1> HIDE DEF All
<1> QED BY <1>6, <1>7

\* In every state, the buffer is at a code point of its file, its window holds
\* what is behind it, and what the tokenizer has still to return is what is
\* left of the tokens.
THEOREM BufferInvariant == BufferSpec => []TokensInv
<1> QED BY TokensInvInit, TokensInvStep, PTL DEF BufferSpec

\* What the tokenizer returns is, in order, what lies between the delimiters of
\* a file in which nothing between them is longer than a line.
THEOREM BufferTokensRight == BufferSpec => []TokensRight
<1> QED BY BufferInvariant, TokensInvEnough, PTL

-----------------------------------------------------------------------------
(* Members of a set of numbers by how many are less.                          *)

Under(S, p) == {q \in S : q < p}

LEMMA UnderCounted ==
    ASSUME NEW S \in SUBSET Nat, IsFiniteSet(S), NEW p \in S
    PROVE  /\ IsFiniteSet(Under(S, p)) /\ Cardinality(Under(S, p)) \in Nat
           /\ Cardinality(Under(S, p)) < Cardinality(S) /\ Cardinality(S) \in Nat
           /\ \A q \in S : q < p => Cardinality(Under(S, q)) < Cardinality(Under(S, p))
<1>0. \A q \in S : q \in Nat OBVIOUS
<1>1. ASSUME NEW q \in S PROVE IsFiniteSet(Under(S, q)) /\ Cardinality(Under(S, q)) \in Nat
      BY FS_Subset, FS_CardinalityType DEF Under
<1>2. Cardinality(S) \in Nat BY FS_CardinalityType
<1>3. Cardinality(Under(S, p)) < Cardinality(S)
  <2>1. Under(S, p) \in SUBSET S /\ p \notin Under(S, p) BY <1>0 DEF Under
  <2>2. Cardinality(Under(S, p)) <= Cardinality(S) /\ Cardinality(Under(S, p)) # Cardinality(S)
        BY <2>1, FS_Subset
  <2> QED BY <1>1, <1>2, <2>2
<1>4. ASSUME NEW q \in S, q < p PROVE Cardinality(Under(S, q)) < Cardinality(Under(S, p))
  <2>1. \A r \in Nat : r < q => r < p BY <1>0, <1>4
  <2>2. Under(S, q) \in SUBSET Under(S, p) BY <1>0, <2>1 DEF Under
  <2>3. q \in Under(S, p) BY <1>4 DEF Under
  <2>4. q \notin Under(S, q) BY <1>0 DEF Under
  <2>5. /\ Cardinality(Under(S, q)) <= Cardinality(Under(S, p))
        /\ Cardinality(Under(S, q)) # Cardinality(Under(S, p))
        BY <1>1, <2>2, <2>3, <2>4, FS_Subset
  <2> QED BY <1>1, <2>5
<1> QED BY <1>1, <1>2, <1>3, <1>4

LEMMA UnderUnique ==
    ASSUME NEW S \in SUBSET Nat, IsFiniteSet(S), NEW p \in S, NEW q \in S,
           Cardinality(Under(S, p)) = Cardinality(Under(S, q))
    PROVE  p = q
<1>1. ~ q < p /\ ~ p < q
  <2>1. Cardinality(Under(S, p)) \in Nat BY UnderCounted
  <2>2. q < p => Cardinality(Under(S, q)) < Cardinality(Under(S, p)) BY UnderCounted
  <2>3. p < q => Cardinality(Under(S, p)) < Cardinality(Under(S, q)) BY UnderCounted
  <2> QED BY <2>1, <2>2, <2>3
<1>2. p \in Nat /\ q \in Nat OBVIOUS
<1> QED BY <1>1, <1>2

\* The members below a number: below the greatest of them, and that one.
LEMMA UnderStep ==
    ASSUME NEW S \in SUBSET Nat, NEW b \in Nat, Under(S, b) # {}
    PROVE  \E q \in S : q < b /\ Under(S, b) = Under(S, q) \cup {q} /\ q \notin Under(S, q)
<1> DEFINE T == Under(S, b)
<1>0. \A q \in S : q \in Nat OBVIOUS
<1>1. T \in SUBSET Nat /\ T # {} /\ \A q \in T : q \in S /\ q \in Nat /\ q < b BY DEF Under
<1>2. \A q \in T : q <= b BY <1>1
<1>3. PICK q \in T : \A r \in T : r <= q
  <2> HIDE DEF T
  <2> QED BY <1>1, <1>2, GreatestExists
<1>4. \A r : r \in T <=> r \in S /\ r < b BY DEF Under
<1> HIDE DEF T
<1>5. \A r \in S : r < b <=> r < q \/ r = q BY <1>0, <1>1, <1>3, <1>4
<1>6. \A r : r \in Under(S, q) <=> r \in S /\ r < q BY DEF Under
<1>7. q \in S /\ q < b /\ ~ q < q BY <1>0, <1>1
<1>8. T = Under(S, q) \cup {q} BY <1>4, <1>5, <1>6, <1>7
<1> QED BY <1>6, <1>7, <1>8 DEF T

\* Every number below the size of the set is that of a member.
LEMMA UnderExists ==
    ASSUME NEW b \in Nat, NEW S \in SUBSET (1 .. b), NEW n \in Nat, n < Cardinality(S)
    PROVE  \E p \in S : Cardinality(Under(S, p)) = n
<1> DEFINE C(p) == Cardinality(Under(S, p))
           Big  == {p \in Nat : n < C(p)}
<1>0. S \in SUBSET Nat /\ IsFiniteSet(S)
  <2>1. 1 \in Int /\ b \in Int /\ \A q \in 1 .. b : q \in Nat OBVIOUS
  <2>2. IsFiniteSet(1 .. b) BY <2>1, FS_Interval
  <2>3. IsFiniteSet(S) BY <2>2, FS_Subset
  <2> QED BY <2>1, <2>3
<1>1. \A p \in Nat : IsFiniteSet(Under(S, p)) /\ C(p) \in Nat
      BY <1>0, FS_Subset, FS_CardinalityType DEF Under
<1>2. b + 1 \in Big
  <2>1. \A q \in S : q < b + 1 OBVIOUS
  <2>2. Under(S, b + 1) = S BY <2>1 DEF Under
  <2> QED BY <2>2
<1>3. PICK p \in Big : \A q \in Big : p <= q
  <2>1. Big \in SUBSET Nat /\ Big # {} BY <1>2
  <2> HIDE DEF Big
  <2> QED BY <2>1, LeastExists
<1>4. p \in Nat /\ n < C(p) BY <1>3
<1>5. Under(S, p) # {}
  <2> SUFFICES ASSUME Under(S, p) = {} PROVE FALSE OBVIOUS
  <2>1. C(p) = 0 BY FS_EmptySet
  <2> QED BY <1>4, <2>1
<1>6. PICK q \in S : q < p /\ Under(S, p) = Under(S, q) \cup {q} /\ q \notin Under(S, q)
      BY <1>0, <1>4, <1>5, UnderStep
<1>7. q \in Nat /\ ~ p <= q BY <1>0, <1>4, <1>6
<1>8. ~ n < C(q) BY <1>3, <1>7
<1>9. C(p) = C(q) + 1
  <2>1. IsFiniteSet(Under(S, q)) BY <1>1, <1>7
  <2> QED BY <1>6, <2>1, FS_AddElement
<1>10. C(q) \in Nat BY <1>1, <1>7
<1> HIDE DEF C, Big
<1>11. C(q) = n BY <1>4, <1>8, <1>9, <1>10
<1> QED BY <1>11 DEF C

LEMMA NthRight ==
    ASSUME NEW S \in SUBSET Nat, IsFiniteSet(S), NEW n \in Nat
    PROVE  /\ \A p \in S : Cardinality(Under(S, p)) = n => Nth(S, n) = p
           /\ Cardinality(S) <= n => Nth(S, n) = 0
<1> DEFINE at == {p \in S : Cardinality(Under(S, p)) = n}
<1>1. Nth(S, n) = IF at = {} THEN 0 ELSE CHOOSE p \in at : TRUE BY DEF Nth, Under
<1>2. \A p, q \in at : p = q BY UnderUnique
<1>3. Cardinality(S) <= n => at = {}
  <2> SUFFICES ASSUME Cardinality(S) <= n, NEW p \in at PROVE FALSE OBVIOUS
  <2>1. Cardinality(Under(S, p)) < Cardinality(S) /\ Cardinality(S) \in Nat BY UnderCounted
  <2>2. Cardinality(Under(S, p)) = n OBVIOUS
  <2> QED BY <2>1, <2>2
<1> QED BY <1>1, <1>2, <1>3

-----------------------------------------------------------------------------
(* Sequences of numbers in ascending order.                                   *)

Ascends(s) == \A i, j \in DOMAIN s : i < j => s[i] < s[j]
Members(s) == {s[i] : i \in DOMAIN s}

LEMMA JoinAscends ==
    ASSUME NEW a \in Seq(Nat), NEW b \in Seq(Nat), Ascends(a), Ascends(b),
           \A x \in Members(a), y \in Members(b) : x < y
    PROVE  a \o b \in Seq(Nat) /\ Ascends(a \o b) /\ Members(a \o b) = Members(a) \cup Members(b)
<1> DEFINE c == a \o b
           m == Len(a)
<1>1. /\ c \in Seq(Nat) /\ m \in Nat /\ Len(b) \in Nat /\ Len(c) = m + Len(b)
      /\ DOMAIN a = 1 .. m /\ DOMAIN b = 1 .. Len(b) /\ DOMAIN c = 1 .. m + Len(b)
      /\ \A i \in 1 .. m : c[i] = a[i]
      /\ \A i \in 1 .. Len(b) : c[m + i] = b[i]
      OBVIOUS
<1>2. \A i \in DOMAIN c : i \in DOMAIN a \/ (i > m /\ i - m \in DOMAIN b /\ c[i] = b[i - m])
  <2> SUFFICES ASSUME NEW i \in DOMAIN c, ~ i \in DOMAIN a
               PROVE  i > m /\ i - m \in DOMAIN b /\ c[i] = b[i - m]
      OBVIOUS
  <2> HIDE DEF c, m
  <2>1. i > m /\ i - m \in 1 .. Len(b) /\ m + (i - m) = i BY <1>1
  <2> QED BY <1>1, <2>1
<1> HIDE DEF c, m
<1>3. ASSUME NEW i \in DOMAIN c, NEW j \in DOMAIN c, i < j PROVE c[i] < c[j]
  <2>1. CASE i \in DOMAIN a /\ j \in DOMAIN a BY <1>1, <1>3, <2>1 DEF Ascends
  <2>2. CASE i \in DOMAIN a /\ j \notin DOMAIN a
    <3>1. c[i] = a[i] /\ a[i] \in Members(a) BY <1>1, <2>2 DEF Members
    <3>2. c[j] \in Members(b) BY <1>2, <2>2 DEF Members
    <3> QED BY <3>1, <3>2
  <2>3. CASE i \notin DOMAIN a
    <3>1. j \notin DOMAIN a BY <1>1, <1>2, <1>3, <2>3
    <3>2. /\ i - m \in DOMAIN b /\ c[i] = b[i - m] /\ j - m \in DOMAIN b /\ c[j] = b[j - m]
          BY <1>2, <2>3, <3>1
    <3>3. i - m < j - m BY <1>1, <1>3
    <3> QED BY <3>2, <3>3 DEF Ascends
  <2> QED BY <2>1, <2>2, <2>3
<1>4. Members(c) = Members(a) \cup Members(b)
  <2>1. ASSUME NEW i \in DOMAIN c PROVE c[i] \in Members(a) \cup Members(b)
        BY <1>1, <1>2 DEF Members
  <2>2. ASSUME NEW i \in DOMAIN a PROVE a[i] \in Members(c)
    <3>1. i \in DOMAIN c /\ c[i] = a[i] BY <1>1
    <3> QED BY <3>1 DEF Members
  <2>3. ASSUME NEW i \in DOMAIN b PROVE b[i] \in Members(c)
    <3>1. m + i \in DOMAIN c /\ c[m + i] = b[i] BY <1>1
    <3> QED BY <3>1 DEF Members
  <2> QED BY <2>1, <2>2, <2>3 DEF Members
<1> QED BY <1>1, <1>3, <1>4 DEF Ascends, c

\* The pieces of a sequence are joined one after the other.
LEMMA FlattenRight ==
    ASSUME NEW V, NEW seqs \in Seq(Seq(V)), Len(seqs) # 0
    PROVE  \E f \in [1 .. Len(seqs) -> Seq(V)] :
               /\ f[1] = seqs[1] /\ \A i \in 2 .. Len(seqs) : f[i] = f[i - 1] \o seqs[i]
               /\ FlattenSeq(seqs) = f[Len(seqs)]
<1> DEFINE n    == Len(seqs)
           D    == 1 .. n
           nx   == [i \in D |-> IF i = 1 THEN 1 ELSE i - 1]
           mu   == [i \in D |-> i]
           base == [i \in D |-> seqs[i]]
           g    == [i \in D |-> [v \in Seq(V) |-> v \o seqs[i]]]
           F(f) == [i \in D |-> IF i = 1 THEN seqs[i] ELSE f[i - 1] \o seqs[i]]
           flat == CHOOSE f : f = F(f)
<1>1. n \in Nat /\ 1 \in D /\ n \in D /\ \A i \in D : i # 1 => i - 1 \in D OBVIOUS
<1>2. \A i \in D : seqs[i] \in Seq(V) OBVIOUS
<1>3. FlattenSeq(seqs) = flat[n] BY Zenon DEF FlattenSeq
<1>4. Descends(D, {1}, nx, mu)
  <2>1. nx \in [D -> D] /\ mu \in [D -> Nat] /\ \A i \in D : mu[i] = i /\ (i # 1 => nx[i] = i - 1)
        BY <1>1
  <2> HIDE DEF nx, mu
  <2> QED BY <1>1, <2>1 DEF Descends
<1>5. base \in [D -> Seq(V)] /\ g \in [D -> [Seq(V) -> Seq(V)]]
  <2>1. ASSUME NEW i \in D PROVE [v \in Seq(V) |-> v \o seqs[i]] \in [Seq(V) -> Seq(V)]
    <3>1. \A v \in Seq(V) : v \o seqs[i] \in Seq(V) BY <1>2, ConcatProperties
    <3> QED BY <3>1
  <2> QED BY <1>2, <2>1
<1>6. PICK f \in [D -> Seq(V)] : Recurses(D, {1}, nx, base, g, f)
  <2> HIDE DEF D, nx, mu, base, g
  <2> QED BY <1>4, <1>5, DescentExists
<1>7. ASSUME NEW i \in D PROVE f[i] = IF i = 1 THEN seqs[i] ELSE f[i - 1] \o seqs[i]
  <2>1. f[i] = Unfolded({1}, nx, base, g, f, i)
    <3> HIDE DEF D, nx, base, g
    <3> QED BY <1>6 DEF Recurses
  <2>2. base[i] = seqs[i] /\ nx[i] = (IF i = 1 THEN 1 ELSE i - 1) OBVIOUS
  <2>3. CASE i = 1
    <3> HIDE DEF base, nx, g, D
    <3> QED BY <2>1, <2>2, <2>3 DEF Unfolded
  <2>4. CASE i # 1
    <3>1. i - 1 \in D /\ f[i - 1] \in Seq(V) BY <1>1, <2>4
    <3>2. g[i][f[i - 1]] = f[i - 1] \o seqs[i] BY <3>1
    <3> HIDE DEF base, nx, g, D
    <3> QED BY <2>1, <2>2, <2>4, <3>2 DEF Unfolded
  <2> QED BY <2>3, <2>4
<1>8. f = F(f) BY <1>7
<1>9. flat = F(flat)
  <2> HIDE DEF F
  <2> QED BY <1>8
<1> HIDE DEF flat
<1>10. /\ \A i \in D : flat[i] = F(flat)[i]
       /\ DOMAIN flat = DOMAIN F(flat)
       BY <1>9, Zenon
<1>11. /\ \A i \in D : flat[i] = IF i = 1 THEN seqs[i] ELSE flat[i - 1] \o seqs[i]
  <2> HIDE DEF D
  <2> QED BY <1>10
<1>12. \A i \in D : flat[i] = f[i]
  <2> DEFINE S == {i \in D : flat[i] = f[i]}
  <2>1. ASSUME NEW i \in D, i \in {1} \/ nx[i] \in S PROVE i \in S
    <3>1. CASE i = 1 BY <1>7, <1>11, <3>1
    <3>2. CASE i # 1
      <4>1. i - 1 \in D /\ nx[i] = i - 1 BY <1>1, <3>2
      <4>2. i - 1 \in S BY <2>1, <3>2, <4>1
      <4>3. flat[i - 1] = f[i - 1] BY <4>2
      <4>4. flat[i] = f[i] BY <1>7, <1>11, <3>2, <4>3
      <4> QED BY <4>4
    <3> QED BY <3>1, <3>2
  <2> HIDE DEF S, D, nx, mu
  <2>2. D \subseteq S BY <1>4, <2>1, DescentCovers
  <2> QED BY <2>2 DEF S
<1>13. f[1] = seqs[1] BY <1>1, <1>7
<1>14. ASSUME NEW i \in 2 .. n PROVE f[i] = f[i - 1] \o seqs[i]
  <2>1. i \in D /\ i # 1 BY <1>1
  <2> QED BY <1>7, <2>1
<1>15. FlattenSeq(seqs) = f[n] BY <1>1, <1>3, <1>12
<1> HIDE DEF flat
<1> QED BY <1>13, <1>14, <1>15

\* An ascending sequence in which some members give way to themselves and the
\* next number, which is not in it.
SplitAt(s, os) == FlattenSeq([i \in DOMAIN s |-> IF s[i] \in os THEN <<s[i], s[i] + 1>> ELSE <<s[i]>>])

LEMMA SplitRight ==
    ASSUME NEW s \in Seq(Nat), Ascends(s), NEW os, \A x \in os : x + 1 \notin Members(s)
    PROVE  /\ SplitAt(s, os) \in Seq(Nat) /\ Ascends(SplitAt(s, os))
           /\ Members(SplitAt(s, os)) = Members(s) \cup {x + 1 : x \in Members(s) \cap os}
<1> DEFINE n == Len(s)
           Piece(x) == IF x \in os THEN <<x, x + 1>> ELSE <<x>>
           seqs == [i \in DOMAIN s |-> Piece(s[i])]
           InPiece(x) == IF x \in os THEN {x, x + 1} ELSE {x}
<1>1. n \in Nat /\ DOMAIN s = 1 .. n /\ \A i \in 1 .. n : s[i] \in Nat OBVIOUS
<1>2. ASSUME NEW x \in Nat
      PROVE  Piece(x) \in Seq(Nat) /\ Ascends(Piece(x)) /\ Members(Piece(x)) = InPiece(x)
  <2>1. CASE x \in os
    <3>1. Piece(x) = <<x, x + 1>> /\ InPiece(x) = {x, x + 1} BY <2>1
    <3>2. /\ <<x, x + 1>> \in Seq(Nat) /\ DOMAIN <<x, x + 1>> = {1, 2}
          /\ <<x, x + 1>>[1] = x /\ <<x, x + 1>>[2] = x + 1
          OBVIOUS
    <3> HIDE DEF Piece, InPiece
    <3> QED BY <3>1, <3>2 DEF Ascends, Members
  <2>2. CASE x \notin os
    <3>1. Piece(x) = <<x>> /\ InPiece(x) = {x} BY <2>2
    <3>2. <<x>> \in Seq(Nat) /\ DOMAIN <<x>> = {1} /\ <<x>>[1] = x OBVIOUS
    <3> HIDE DEF Piece, InPiece
    <3> QED BY <3>1, <3>2 DEF Ascends, Members
  <2> QED BY <2>1, <2>2
<1> HIDE DEF Piece
<1>3. /\ seqs \in Seq(Seq(Nat)) /\ Len(seqs) = n /\ DOMAIN seqs = 1 .. n
      /\ \A i \in 1 .. n : seqs[i] = Piece(s[i])
      BY <1>1, <1>2
<1>4. SplitAt(s, os) = FlattenSeq(seqs) BY DEF SplitAt, Piece
<1> HIDE DEF seqs
<1>5. CASE n = 0
  <2>1. SplitAt(s, os) = seqs BY <1>3, <1>4, <1>5 DEF FlattenSeq
  <2>2. DOMAIN seqs = {} /\ DOMAIN s = {} BY <1>1, <1>3, <1>5
  <2>3. SplitAt(s, os) \in Seq(Nat)
    <3>1. seqs = <<>> BY <1>3, <1>5, EmptySeq
    <3> QED BY <2>1, <3>1
  <2> QED BY <2>1, <2>2, <2>3 DEF Ascends, Members
<1>6. CASE n # 0
  <2>1. PICK f \in [1 .. n -> Seq(Nat)] :
            /\ f[1] = seqs[1] /\ \A i \in 2 .. n : f[i] = f[i - 1] \o seqs[i]
            /\ FlattenSeq(seqs) = f[n]
    <3> HIDE DEF n
    <3>1. Len(seqs) = n /\ Len(seqs) # 0 BY <1>3, <1>6
    <3>2. \E f \in [1 .. Len(seqs) -> Seq(Nat)] :
              /\ f[1] = seqs[1] /\ \A i \in 2 .. Len(seqs) : f[i] = f[i - 1] \o seqs[i]
              /\ FlattenSeq(seqs) = f[Len(seqs)]
          BY <1>3, <3>1, FlattenRight
    <3> QED BY <3>1, <3>2
  <2> DEFINE R(k) == UNION {InPiece(s[i]) : i \in 1 .. k}
             GoodTo(k) == f[k] \in Seq(Nat) /\ Ascends(f[k]) /\ Members(f[k]) = R(k)
             Bad == {k \in 1 .. n : ~ GoodTo(k)}
  <2>2. GoodTo(1)
    <3>1. f[1] = Piece(s[1]) /\ s[1] \in Nat BY <1>1, <1>3, <1>6, <2>1
    <3>2. R(1) = InPiece(s[1]) OBVIOUS
    <3> QED BY <1>2, <3>1, <3>2
  <2>3. ASSUME NEW k \in 2 .. n, GoodTo(k - 1) PROVE GoodTo(k)
    <3>1. k \in Nat /\ k - 1 \in 1 .. n /\ k \in 1 .. n /\ f[k] = f[k - 1] \o Piece(s[k])
          /\ s[k] \in Nat /\ f[k - 1] \in Seq(Nat)
      <4>1. k \in Nat /\ k - 1 \in 1 .. n /\ k \in 1 .. n BY <1>1
      <4>2. f[k] = f[k - 1] \o seqs[k] /\ seqs[k] = Piece(s[k]) BY <1>3, <2>1, <4>1
      <4>3. s[k] \in Nat BY <1>1, <4>1
      <4>4. f[k - 1] \in Seq(Nat)
        <5> HIDE DEF n
        <5> QED BY <4>1
      <4> QED BY <4>1, <4>2, <4>3, <4>4
    <3>2. ASSUME NEW i \in 1 .. k - 1, NEW x \in InPiece(s[i]) PROVE x < s[k]
      <4>1. i \in 1 .. n /\ i < k /\ s[i] \in Nat BY <1>1, <3>1
      <4>2. s[i] < s[k] BY <1>1, <3>1, <4>1 DEF Ascends
      <4>3. s[i] \in os => s[i] + 1 # s[k] BY <1>1, <3>1 DEF Members
      <4>4. x = s[i] \/ (s[i] \in os /\ x = s[i] + 1) BY <3>2
      <4>5. CASE x = s[i] BY <4>2, <4>5
      <4>6. CASE s[i] \in os /\ x = s[i] + 1
        <5>1. s[i] \in Nat /\ s[k] \in Nat BY <3>1, <4>1
        <5> QED BY <4>2, <4>3, <4>6, <5>1
      <4> QED BY <4>4, <4>5, <4>6
    <3>3. \A y \in InPiece(s[k]) : y \in Nat /\ s[k] <= y BY <3>1
    <3>4. \A x \in R(k - 1) : x \in Nat /\ x < s[k]
      <4>1. \A i \in 1 .. k - 1 : \A x \in InPiece(s[i]) : x \in Nat BY <1>1, <3>1
      <4> HIDE DEF InPiece
      <4> QED BY <3>2, <4>1
    <3>5. \A x \in Members(f[k - 1]), y \in Members(Piece(s[k])) : x < y
      <4> HIDE DEF InPiece, R
      <4>1. Members(f[k - 1]) = R(k - 1) /\ Members(Piece(s[k])) = InPiece(s[k]) BY <1>2, <2>3, <3>1
      <4> QED BY <3>1, <3>3, <3>4, <4>1
    <3>6. R(k) = R(k - 1) \cup InPiece(s[k])
      <4>1. 1 .. k = (1 .. k - 1) \cup {k} BY <3>1
      <4> HIDE DEF InPiece
      <4> QED BY <4>1
    <3> HIDE DEF R, InPiece
    <3>7. Ascends(Piece(s[k])) /\ Members(Piece(s[k])) = InPiece(s[k]) /\ Piece(s[k]) \in Seq(Nat)
          BY <1>2, <3>1
    <3>8. /\ f[k] \in Seq(Nat) /\ Ascends(f[k])
          /\ Members(f[k]) = Members(f[k - 1]) \cup Members(Piece(s[k]))
          BY <2>3, <3>1, <3>5, <3>7, JoinAscends
    <3> QED BY <2>3, <3>6, <3>7, <3>8
  <2>4. Bad = {}
    <3> SUFFICES ASSUME Bad # {} PROVE FALSE OBVIOUS
    <3>1. Bad \in SUBSET Nat OBVIOUS
    <3>2. PICK k \in Bad : \A j \in Bad : k <= j
      <4> HIDE DEF Bad
      <4> QED BY <3>1, LeastExists
    <3>3. k \in 1 .. n /\ ~ GoodTo(k) BY <3>2
    <3> HIDE DEF GoodTo
    <3>4. k # 1 BY <2>2, <3>3
    <3>5. k \in 2 .. n /\ k - 1 \in 1 .. n /\ ~ k <= k - 1 BY <1>1, <3>3, <3>4
    <3>6. GoodTo(k - 1) BY <3>2, <3>5
    <3> QED BY <2>3, <3>3, <3>5, <3>6
  <2>5. GoodTo(n)
    <3>1. n \in 1 .. n BY <1>1, <1>6
    <3> HIDE DEF GoodTo
    <3> QED BY <2>4, <3>1
  <2>6. R(n) = Members(s) \cup {x + 1 : x \in Members(s) \cap os}
    <3>1. \A i \in 1 .. n : InPiece(s[i]) = {s[i]} \cup {x + 1 : x \in {s[i]} \cap os} OBVIOUS
    <3> HIDE DEF InPiece
    <3> QED BY <1>1, <3>1 DEF Members
  <2> HIDE DEF R
  <2> QED BY <1>4, <2>1, <2>5, <2>6
<1> QED BY <1>5, <1>6

-----------------------------------------------------------------------------
(* The invariant: where the parser is, what the chain holds, and what the     *)
(* declarations have made of it.                                              *)

Kind(i)     == argv[i].kind
IsOption(i) == Kind(i) \in {"long", "short"}
Passed      == 1 .. here - 1
Given       == {i \in Passed : IsOption(i)}
PassedTexts      == {i \in Passed : Kind(i) = "text"}
Positionals == {i \in PassedTexts : opts[i].positional}

\* A text behind option o, and one with a sign of equality between.
Near(o) == o + 1 \in Passed /\ Kind(o + 1) = "text"
Far(o)  == o + 1 \in Passed /\ o + 2 \in Passed /\ Kind(o + 1) = "eq" /\ Kind(o + 2) = "text"

OptionRecords == [val : Nat, positional : BOOLEAN, candidate : BOOLEAN, accounted : BOOLEAN]

CliTyped ==
    /\ argv \in CommandLines /\ here \in 1 .. Len(argv) + 1
    /\ opts \in [1 .. Len(argv) -> OptionRecords] /\ list \in Seq(Nat)
    /\ karg \in Nat /\ equals \in BOOLEAN /\ cliErrors \in BOOLEAN
    /\ declared \in Nat /\ positionals \in Nat

\* A sign of equality follows a long option, which then keeps its value.
ParserInv ==
    /\ \A i \in Passed : Kind(i) = "eq" => i > 1 /\ Kind(i - 1) = "long"
    /\ karg # 0 <=> here > 1 /\ Kind(here - 1) # "text"
    /\ karg # 0 => /\ karg \in Given /\ karg + (IF equals THEN 2 ELSE 1) = here
                   /\ equals <=> Kind(here - 1) = "eq"
                   /\ opts[karg].candidate = ~ equals
    /\ \A i \in here .. Len(argv) : ~ opts[i].positional

\* The chain has the options and the positionals as they are in the arguments.
\* A text is one unless an option has it, by "=" for good.
TextsRight ==
    \A i \in PassedTexts :
        opts[i].positional
            <=> (i > 1 => Kind(i - 1) # "eq" /\ (IsOption(i - 1) => opts[i - 1].val = 0))

OptionRight(o) ==
    /\ ~ opts[o].positional /\ opts[o].val \in {0, o + 1, o + 2}
    /\ opts[o].val = o + 1 => Near(o) /\ opts[o].candidate
    /\ opts[o].val = o + 2 => ~ opts[o].candidate
    /\ opts[o].val = o + 2 <=> Far(o)

ListInv ==
    /\ Ascends(list) /\ Members(list) = Given \cup Positionals
    /\ positionals = Cardinality(Positionals)
    /\ TextsRight /\ \A o \in Given : OptionRight(o)

\* The declarations that have been made.
Own == General \o Tools[tool].own
Done ==
    CASE cliPhase = "general" -> {General[j] : j \in 1 .. declared}
      [] cliPhase = "own"     -> {Own[j] : j \in 1 .. Len(General) + declared}
      [] OTHER                -> {}

\* Names lead to the options that were given so, and by a declaration that
\* has been made to the option given by its other name.
LongsRight(D) ==
    /\ \A e \in longs : /\ e[2] \in Given /\ e[1] # NoName
                        /\ \/ Kind(e[2]) = "long" /\ argv[e[2]].name = e[1]
                           \/ \E d \in D : d.long = e[1]
    /\ \A e, f \in longs : e[1] = f[1] => e[2] = f[2]
    /\ \A o \in Given : Kind(o) = "long" => <<argv[o].name, o>> \in longs

ShortsRight(D) ==
    /\ \A e \in shorts : /\ e[2] \in Given /\ e[1] # NoName
                         /\ \/ Kind(e[2]) = "short" /\ Offset(argv[e[2]].name) = e[1]
                            \/ \E d \in D : Offset(d.short) = e[1]
    /\ \A e, f \in shorts : e[1] = f[1] => e[2] = f[2]
    /\ \A o \in Given : Kind(o) = "short" => <<Offset(argv[o].name), o>> \in shorts

\* What the declarations made of the options they name.
SettledInv(D) ==
    \A o \in Given :
        /\ opts[o].accounted <=> \E d \in D : Names(d, o)
        /\ Near(o) => (opts[o].val = 0 <=> \E d \in D : Names(d, o) /\ d.vals = "none")

\* What has been found by its number.
FoundInv ==
    /\ cached = <<0, 0>> \/ (cached[1] \in Nat /\ cached[2] \in Positionals
                             /\ Cardinality(Under(Positionals, cached[2])) = cached[1])
    /\ got = <<0, 0>> \/ got[2] = Nth(Positionals, got[1])

CliInv ==
    /\ CliTyped
    /\ cliPhase # "stop" => ListInv
    /\ cliPhase = "parse" => ParserInv /\ ~ cliErrors /\ declared = 0
    /\ cliPhase \in {"general", "own", "use"} => here = Len(argv) + 1
    /\ cliPhase \in {"general", "own"} => declared <= Len(Declaring)
    /\ cliPhase \in {"own", "use"} => tool \in DOMAIN Tools
    /\ cliPhase \in {"parse", "general", "own"} =>
           /\ LongsRight(Done) /\ ShortsRight(Done)
           /\ ~ cliErrors => SettledInv(Done)
           /\ cached = <<0, 0>> /\ got = <<0, 0>>
    /\ cliPhase = "use" => FoundInv /\ Positionals = Operands

-----------------------------------------------------------------------------
(* What the parser does.                                                      *)

LEMMA LineFacts ==
    ASSUME CliTyped
    PROVE  /\ Len(argv) \in Nat /\ DOMAIN argv = 1 .. Len(argv)
           /\ \A i \in 1 .. Len(argv) : Kind(i) \in {"long", "short", "eq", "text", "bad"}
           /\ \A i \in 1 .. Len(argv) : argv[i].name \in STRING
           /\ \A i \in 1 .. Len(argv) : IsOption(i) => argv[i].name # NoName
           /\ here \in Nat /\ \A i \in Passed : i \in 1 .. Len(argv) /\ i \in Nat /\ i < here
<1>1. argv \in Seq(Lexemes) BY CliAssumption DEF CliTyped
<1>2. \A i \in DOMAIN argv : IsOption(i) => argv[i].name # NoName
      BY CliAssumption DEF CliTyped, IsOption, Kind
<1>3. Len(argv) \in Nat /\ DOMAIN argv = 1 .. Len(argv) BY <1>1
<1>4. \A i \in 1 .. Len(argv) : argv[i] \in Lexemes BY <1>1
<1>5. here \in Nat /\ \A i \in Passed : i \in 1 .. Len(argv) /\ i \in Nat /\ i < here
      BY <1>3 DEF CliTyped, Passed
<1>6. \A i \in 1 .. Len(argv) : /\ Kind(i) \in {"long", "short", "eq", "text", "bad"}
                                /\ argv[i].name \in STRING
      BY <1>4 DEF Lexemes, Kind
<1> QED BY <1>2, <1>3, <1>5, <1>6

LEMMA PositionalsFinite ==
    ASSUME CliTyped
    PROVE  /\ Positionals \in SUBSET (1 .. Len(argv)) /\ Positionals \in SUBSET Nat
           /\ IsFiniteSet(Positionals) /\ Given \in SUBSET Nat
<1>1. Positionals \in SUBSET (1 .. Len(argv)) /\ Given \in SUBSET (1 .. Len(argv))
      BY LineFacts DEF Positionals, PassedTexts, Given
<1>2. 1 \in Int /\ Len(argv) \in Int /\ \A i \in 1 .. Len(argv) : i \in Nat BY LineFacts
<1>3. IsFiniteSet(1 .. Len(argv)) BY <1>2, FS_Interval
<1>4. IsFiniteSet(Positionals) BY <1>1, <1>3, FS_Subset
<1> QED BY <1>1, <1>2, <1>4

\* The next lexeme is passed.
LEMMA PassOne ==
    ASSUME CliTyped, here <= Len(argv), here' = here + 1, argv' = argv
    PROVE  /\ here \in 1 .. Len(argv) /\ here' \in 1 .. Len(argv) + 1 /\ here \notin Passed
           /\ Passed' = Passed \cup {here} /\ \A i \in Passed' : i = here \/ i < here
           /\ \A i : Kind(i)' = Kind(i) /\ IsOption(i)' = IsOption(i)
           /\ Given' = Given \cup (IF IsOption(here) THEN {here} ELSE {})
           /\ PassedTexts' = PassedTexts \cup (IF Kind(here) = "text" THEN {here} ELSE {})
<1>1. here \in Nat /\ Len(argv) \in Nat /\ here >= 1 BY LineFacts DEF CliTyped
<1>2. /\ here \in 1 .. Len(argv) /\ here' \in 1 .. Len(argv) + 1 /\ here \notin Passed
      /\ Passed' = Passed \cup {here}
      BY <1>1 DEF Passed
<1>3. \A i : Kind(i)' = Kind(i) BY DEF Kind
<1>4. \A i : IsOption(i)' = IsOption(i) BY <1>3 DEF IsOption
<1>5. Given' = Given \cup (IF IsOption(here) THEN {here} ELSE {}) BY <1>2, <1>4 DEF Given
<1>6. PassedTexts' = PassedTexts \cup (IF Kind(here) = "text" THEN {here} ELSE {})
      BY <1>2, <1>3 DEF PassedTexts
<1>7. \A i \in Passed' : i = here \/ i < here BY <1>2, LineFacts
<1> QED BY <1>2, <1>3, <1>4, <1>5, <1>6, <1>7

\* The texts behind the options that are before it do not change with that.
LEMMA NearKept ==
    ASSUME CliTyped, here <= Len(argv), here' = here + 1, argv' = argv, NEW o \in Given
    PROVE  /\ Near(o)' <=> Near(o) \/ (o + 1 = here /\ Kind(here) = "text")
           /\ Far(o)' <=> Far(o) \/ (o + 2 = here /\ Kind(o + 1) = "eq" /\ Kind(here) = "text")
           /\ Near(o) => o + 1 < here
           /\ Far(o) => o + 1 < here /\ o + 2 < here
<1>1. o \in Nat /\ o < here /\ here \in Nat BY LineFacts DEF Given
<1>2. \A i : i \in Passed' <=> i \in Passed \/ i = here BY PassOne
<1>3. \A i \in Passed : i < here BY LineFacts
<1>4. o + 2 = here => o + 1 \in Passed BY <1>1 DEF Passed
<1>5. \A i : Kind(i)' = Kind(i) BY PassOne
<1>6. o + 2 \in Passed => o + 1 # here BY <1>1, <1>3
<1>7. o + 1 = here => o + 2 # here BY <1>1
<1>8. Near(o)' <=> Near(o) \/ (o + 1 = here /\ Kind(here) = "text") BY <1>2, <1>5 DEF Near
<1>9. Far(o)' <=> Far(o) \/ (o + 2 = here /\ Kind(o + 1) = "eq" /\ Kind(here) = "text")
      BY <1>2, <1>4, <1>5, <1>6, <1>7 DEF Far
<1> QED BY <1>3, <1>8, <1>9 DEF Near, Far

\* An option or a positional comes behind what is in the chain.
LEMMA AppendRight ==
    ASSUME CliTyped, ListInv, here <= Len(argv)
    PROVE  /\ Append(list, here) \in Seq(Nat) /\ Ascends(Append(list, here))
           /\ Members(Append(list, here)) = Members(list) \cup {here}
<1>1. here \in Nat BY LineFacts
<1>2. \A x \in Members(list) : x < here
  <2>1. \A x \in Given \cup Positionals : x \in Passed BY DEF Given, Positionals, PassedTexts
  <2> QED BY <2>1, LineFacts DEF ListInv
<1>3. <<here>> \in Seq(Nat) /\ DOMAIN <<here>> = {1} /\ <<here>>[1] = here BY <1>1
<1>4. Ascends(<<here>>) /\ Members(<<here>>) = {here} BY <1>3 DEF Ascends, Members
<1>5. list \in Seq(Nat) /\ Ascends(list) BY DEF CliTyped, ListInv
<1>6. \A x \in Members(list), y \in Members(<<here>>) : x < y BY <1>2, <1>4
<1>7. Append(list, here) = list \o <<here>> BY <1>5, AppendIsConcat
<1> QED BY <1>3, <1>4, <1>5, <1>6, <1>7, JoinAscends

LEMMA OptsFacts ==
    ASSUME CliTyped
    PROVE  \A i \in 1 .. Len(argv) :
               /\ opts[i] \in OptionRecords /\ opts[i].val \in Nat /\ opts[i].positional \in BOOLEAN
               /\ opts[i].candidate \in BOOLEAN /\ opts[i].accounted \in BOOLEAN
BY DEF CliTyped, OptionRecords

LEMMA OptionTyped ==
    ASSUME NEW v \in Nat, NEW p \in BOOLEAN
    PROVE  /\ Option(v, p) \in OptionRecords
           /\ Option(v, p).val = v /\ Option(v, p).positional = p
           /\ Option(v, p).candidate /\ ~ Option(v, p).accounted
BY DEF Option, OptionRecords

LEMMA MakeOptionRight ==
    ASSUME CliTyped, ListInv, ParserInv, SettledInv({}), here <= Len(argv), IsOption(here),
           MakeOption, UNCHANGED <<argv, positionals, cliErrors, declared>>
    PROVE  /\ CliTyped' /\ ListInv' /\ ParserInv' /\ SettledInv({})'
           /\ Given' = Given \cup {here} /\ here \in Nat
<1>1. /\ list' = Append(list, here) /\ opts' = [opts EXCEPT ![here] = Option(0, FALSE)]
      /\ karg' = here /\ equals' = FALSE /\ here' = here + 1
      BY DEF MakeOption
<1>2. Kind(here) # "text" /\ Kind(here) # "eq" BY DEF IsOption
<1>3. /\ here \in 1 .. Len(argv) /\ here' \in 1 .. Len(argv) + 1 /\ here \notin Passed
      /\ Passed' = Passed \cup {here} /\ Given' = Given \cup {here} /\ PassedTexts' = PassedTexts
      /\ \A i : Kind(i)' = Kind(i) /\ IsOption(i)' = IsOption(i)
      BY <1>1, <1>2, PassOne
<1>4. here \in Nat /\ \A i \in Passed : i \in 1 .. Len(argv) /\ i < here BY LineFacts
<1>5. \A i \in 1 .. Len(argv) : opts'[i] = IF i = here THEN Option(0, FALSE) ELSE opts[i]
      BY <1>1 DEF CliTyped
<1>6. CliTyped'
  <2>1. opts' \in [1 .. Len(argv) -> OptionRecords] BY <1>1, OptionTyped DEF CliTyped
  <2>2. list' \in Seq(Nat) BY <1>1, AppendRight
  <2> QED BY <1>1, <1>3, <1>4, <2>1, <2>2 DEF CliTyped
<1>7. \A i \in Passed : i # here /\ opts'[i] = opts[i] BY <1>3, <1>4, <1>5
<1>8. Positionals' = Positionals BY <1>3, <1>7 DEF Positionals, PassedTexts
<1>9. opts'[here].val = 0 /\ ~ opts'[here].positional /\ opts'[here].candidate /\ ~ opts'[here].accounted
      BY <1>3, <1>5, OptionTyped
<1>10. \A o : o = here => ~ Near(o)' /\ ~ Far(o)'
  <2>1. here + 1 \notin Passed' BY <1>3, <1>4
  <2> QED BY <2>1 DEF Near, Far
<1>11. \A o \in Given : (Near(o)' <=> Near(o)) /\ (Far(o)' <=> Far(o)) BY <1>1, <1>2, NearKept
<1>12. TextsRight'
  <2> SUFFICES ASSUME NEW i \in PassedTexts'
               PROVE  opts'[i].positional
                        <=> (i > 1 => Kind(i - 1)' # "eq" /\ (IsOption(i - 1)' => opts'[i - 1].val = 0))
      BY DEF TextsRight
  <2>1. i \in PassedTexts /\ i \in Passed /\ i \in Nat BY <1>3, LineFacts DEF PassedTexts
  <2>2. i > 1 => i - 1 \in Passed BY <1>4, <2>1 DEF Passed
  <2>3. opts'[i] = opts[i] /\ (i > 1 => opts'[i - 1] = opts[i - 1]) BY <1>7, <2>1, <2>2
  <2> QED BY <1>3, <2>1, <2>3 DEF ListInv, TextsRight
<1>13. ASSUME NEW o \in Given' PROVE OptionRight(o)'
  <2>1. CASE o = here BY <1>4, <1>9, <1>10, <2>1 DEF OptionRight
  <2>2. CASE o # here
    <3>1. o \in Given /\ opts'[o] = opts[o] BY <1>3, <1>7, <2>2 DEF Given
    <3> QED BY <1>11, <3>1 DEF ListInv, OptionRight
  <2> QED BY <2>1, <2>2
<1>14. ListInv'
  <2>1. Ascends(list') /\ Members(list') = Members(list) \cup {here} BY <1>1, AppendRight
  <2>2. Members(list') = Given' \cup Positionals' BY <1>3, <1>8, <2>1 DEF ListInv
  <2> QED BY <1>8, <1>12, <1>13, <2>1, <2>2 DEF ListInv
<1>15. ParserInv'
  <2>1. ASSUME NEW i \in Passed', Kind(i)' = "eq" PROVE i > 1 /\ Kind(i - 1)' = "long"
        BY <1>2, <1>3, <2>1 DEF ParserInv
  <2>2. here' - 1 = here /\ here' > 1 BY <1>1, <1>3, <1>4
  <2>3. karg' # 0 BY <1>1, <1>3
  <2>4. karg' \in Given' /\ karg' + 1 = here' BY <1>1, <1>3
  <2>5. opts'[karg'].candidate = TRUE
    <3>1. opts'[karg'] = Option(0, FALSE) BY <1>1, <1>3, <1>5
    <3> QED BY <3>1 DEF Option
  <2>6. ASSUME NEW i \in here' .. Len(argv') PROVE ~ opts'[i].positional
    <3>1. i \in here .. Len(argv) /\ i \in 1 .. Len(argv) /\ i # here BY <1>1, <1>3, <1>4
    <3> QED BY <1>5, <3>1 DEF ParserInv
  <2> QED BY <1>1, <1>2, <1>3, <2>1, <2>2, <2>3, <2>4, <2>5, <2>6 DEF ParserInv
<1>16. SettledInv({})'
  <2> SUFFICES ASSUME NEW o \in Given'
               PROVE  ~ opts'[o].accounted /\ (Near(o)' => opts'[o].val # 0)
      BY DEF SettledInv
  <2>1. CASE o = here BY <1>9, <1>10, <2>1
  <2>2. CASE o # here
    <3>1. o \in Given /\ opts'[o] = opts[o] BY <1>3, <1>7, <2>2 DEF Given
    <3> QED BY <1>11, <3>1 DEF SettledInv
  <2> QED BY <2>1, <2>2
<1> QED BY <1>3, <1>4, <1>6, <1>14, <1>15, <1>16

\* The maps from names follow the options.
LEMMA LongsGrow ==
    ASSUME CliTyped, NEW D, LongsRight(D), here <= Len(argv), here' = here + 1, argv' = argv,
           Kind(here) = "long", ~ Defined(longs, Lexeme.name),
           longs' = longs \cup {<<Lexeme.name, here>>}
    PROVE  LongsRight(D)'
<1>1. IsOption(here) BY DEF IsOption
<1>2. /\ here \in 1 .. Len(argv) /\ Given' = Given \cup {here}
      /\ \A i : Kind(i)' = Kind(i)
      BY <1>1, PassOne
<1>3. Lexeme.name # NoName /\ Lexeme = argv[here] BY <1>1, <1>2, LineFacts DEF Lexeme
<1>4. \A e \in longs : e[1] # Lexeme.name BY DEF Defined
<1>5. \A e \in longs' : e \in longs \/ (e[1] = Lexeme.name /\ e[2] = here) OBVIOUS
<1>6. ASSUME NEW e \in longs'
      PROVE  /\ e[2] \in Given' /\ e[1] # NoName
             /\ \/ Kind(e[2])' = "long" /\ argv'[e[2]].name = e[1]
                \/ \E d \in D : d.long = e[1]
  <2>1. CASE e \in longs BY <1>2, <2>1 DEF LongsRight
  <2>2. CASE e[1] = Lexeme.name /\ e[2] = here BY <1>2, <1>3, <2>2
  <2> QED BY <1>5, <2>1, <2>2
<1>7. \A e, f \in longs' : e[1] = f[1] => e[2] = f[2] BY <1>4, <1>5 DEF LongsRight
<1>8. ASSUME NEW o \in Given', Kind(o)' = "long" PROVE <<argv'[o].name, o>> \in longs'
  <2>1. CASE o \in Given BY <1>2, <1>8, <2>1 DEF LongsRight
  <2>2. CASE o = here BY <1>3, <2>2
  <2> QED BY <1>2, <2>1, <2>2
<1> QED BY <1>6, <1>7, <1>8 DEF LongsRight

LEMMA LongsStay ==
    ASSUME CliTyped, NEW D, LongsRight(D), here <= Len(argv), here' = here + 1, argv' = argv,
           Kind(here) # "long", longs' = longs
    PROVE  LongsRight(D)'
<1>1. /\ \A i : Kind(i)' = Kind(i)
      /\ Given \subseteq Given' /\ \A o \in Given' : o \in Given \/ o = here
      BY PassOne
<1> QED BY <1>1 DEF LongsRight

LEMMA ShortsGrow ==
    ASSUME CliTyped, NEW D, ShortsRight(D), here <= Len(argv), here' = here + 1, argv' = argv,
           Kind(here) = "short", ~ Defined(shorts, Offset(Lexeme.name)),
           shorts' = shorts \cup {<<Offset(Lexeme.name), here>>}
    PROVE  ShortsRight(D)'
<1>1. IsOption(here) BY DEF IsOption
<1>2. /\ here \in 1 .. Len(argv) /\ Given' = Given \cup {here}
      /\ \A i : Kind(i)' = Kind(i)
      BY <1>1, PassOne
<1> DEFINE slot == Offset(Lexeme.name)
<1>3. slot # NoName /\ slot = Offset(argv[here].name)
  <2>1. Lexeme.name # NoName /\ Lexeme = argv[here] BY <1>1, <1>2, LineFacts DEF Lexeme
  <2> QED BY <2>1 DEF Offset, NoName
<1> HIDE DEF slot
<1>4. /\ \A e \in shorts : e[1] # slot
      /\ \A e \in shorts' : e \in shorts \/ (e[1] = slot /\ e[2] = here)
      /\ shorts \subseteq shorts' /\ <<slot, here>> \in shorts'
      BY DEF Defined, slot
<1>6. ASSUME NEW e \in shorts'
      PROVE  /\ e[2] \in Given' /\ e[1] # NoName
             /\ \/ Kind(e[2])' = "short" /\ Offset(argv'[e[2]].name) = e[1]
                \/ \E d \in D : Offset(d.short) = e[1]
  <2>1. CASE e \in shorts BY <1>2, <2>1 DEF ShortsRight
  <2>2. CASE e[1] = slot /\ e[2] = here BY <1>2, <1>3, <2>2
  <2> QED BY <1>4, <2>1, <2>2
<1>7. \A e, f \in shorts' : e[1] = f[1] => e[2] = f[2] BY <1>4 DEF ShortsRight
<1>8. ASSUME NEW o \in Given', Kind(o)' = "short" PROVE <<Offset(argv'[o].name), o>> \in shorts'
  <2>1. CASE o \in Given BY <1>2, <1>4, <1>8, <2>1 DEF ShortsRight
  <2>2. CASE o = here BY <1>3, <1>4, <2>2
  <2> QED BY <1>2, <2>1, <2>2
<1> QED BY <1>6, <1>7, <1>8 DEF ShortsRight

LEMMA ShortsStay ==
    ASSUME CliTyped, NEW D, ShortsRight(D), here <= Len(argv), here' = here + 1, argv' = argv,
           Kind(here) # "short", shorts' = shorts
    PROVE  ShortsRight(D)'
<1>1. /\ \A i : Kind(i)' = Kind(i)
      /\ Given \subseteq Given' /\ \A o \in Given' : o \in Given \/ o = here
      BY PassOne
<1> QED BY <1>1 DEF ShortsRight

ParseMade == CliTyped' /\ ListInv' /\ ParserInv' /\ SettledInv({})'

LEMMA ParseEqualsRight ==
    ASSUME CliTyped, ListInv, ParserInv, SettledInv({}), here <= Len(argv), Kind(here) = "eq",
           karg # 0, Kind(karg) # "short", ~ equals,
           opts' = [opts EXCEPT ![karg].candidate = FALSE], equals' = TRUE, here' = here + 1,
           UNCHANGED <<argv, list, karg, declared, positionals, cliErrors>>
    PROVE  ParseMade
<1>0. karg \in Given /\ karg + 1 = here /\ karg \in 1 .. Len(argv) /\ Kind(karg) = "long"
  <2>1. karg \in Given /\ karg + 1 = here BY DEF ParserInv
  <2> QED BY <2>1, LineFacts DEF Given, IsOption
<1>1. ~ IsOption(here) BY DEF IsOption
<1>2. /\ here \in 1 .. Len(argv) /\ here' \in 1 .. Len(argv) + 1 /\ here \notin Passed
      /\ Passed' = Passed \cup {here} /\ Given' = Given /\ PassedTexts' = PassedTexts
      /\ \A i : Kind(i)' = Kind(i) /\ IsOption(i)' = IsOption(i)
      BY <1>1, PassOne
<1>3. here \in Nat /\ karg \in Nat /\ \A i \in Passed : i \in 1 .. Len(argv) /\ i < here
      BY LineFacts DEF CliTyped
<1>4. \A i \in 1 .. Len(argv) :
          /\ opts'[i].val = opts[i].val /\ opts'[i].positional = opts[i].positional
          /\ opts'[i].accounted = opts[i].accounted
          /\ opts'[i].candidate = IF i = karg THEN FALSE ELSE opts[i].candidate
      BY OptsFacts DEF CliTyped, OptionRecords
<1>5. CliTyped'
  <2>1. opts' \in [1 .. Len(argv) -> OptionRecords] BY <1>0 DEF CliTyped, OptionRecords
  <2> QED BY <1>2, <2>1 DEF CliTyped
<1>6. Positionals' = Positionals BY <1>2, <1>3, <1>4 DEF Positionals, PassedTexts
<1>7. \A o \in Given : (Near(o)' <=> Near(o)) /\ (Far(o)' <=> Far(o)) BY NearKept
<1>8. TextsRight'
  <2> SUFFICES ASSUME NEW i \in PassedTexts
               PROVE  opts'[i].positional
                        <=> (i > 1 => Kind(i - 1)' # "eq" /\ (IsOption(i - 1)' => opts'[i - 1].val = 0))
      BY <1>2 DEF TextsRight
  <2>1. i \in 1 .. Len(argv) /\ i \in Nat BY LineFacts DEF PassedTexts
  <2>2. i > 1 => i - 1 \in 1 .. Len(argv) BY <1>3, <2>1, LineFacts
  <2> QED BY <1>2, <1>4, <2>1, <2>2 DEF ListInv, TextsRight
<1>9. ASSUME NEW o \in Given PROVE OptionRight(o)'
  <2>1. o \in 1 .. Len(argv) /\ o \in Nat BY LineFacts DEF Given
  <2>2. OptionRight(o) BY DEF ListInv
  <2>3. o = karg => opts[o].val # o + 1
    <3>1. o = karg => ~ Near(o) BY <1>0, <1>2 DEF Near
    <3> QED BY <2>2, <3>1 DEF OptionRight
  <2> QED BY <1>4, <1>7, <2>1, <2>2, <2>3 DEF OptionRight
<1>10. ListInv' BY <1>2, <1>6, <1>8, <1>9 DEF ListInv
<1>11. ParserInv'
  <2>1. ASSUME NEW i \in Passed', Kind(i)' = "eq" PROVE i > 1 /\ Kind(i - 1)' = "long"
    <3>1. CASE i = here
      <4>1. i - 1 = karg /\ i > 1 BY <1>0, <1>3, <3>1
      <4> QED BY <1>0, <1>2, <4>1
    <3>2. CASE i # here BY <1>2, <2>1, <3>2 DEF ParserInv
    <3> QED BY <3>1, <3>2
  <2>2. here' - 1 = here /\ here' > 1 BY <1>2, <1>3
  <2>3. karg' \in Given' /\ karg' + 2 = here' BY <1>0, <1>2, <1>3
  <2>4. opts'[karg'].candidate = FALSE BY <1>0, <1>4
  <2>5. ASSUME NEW i \in here' .. Len(argv') PROVE ~ opts'[i].positional
    <3>1. i \in here .. Len(argv) /\ i \in 1 .. Len(argv) BY <1>2, <1>3
    <3> QED BY <1>4, <3>1 DEF ParserInv
  <2> QED BY <1>2, <2>1, <2>2, <2>3, <2>4, <2>5 DEF ParserInv
<1>12. SettledInv({})'
  <2> SUFFICES ASSUME NEW o \in Given
               PROVE  ~ opts'[o].accounted /\ (Near(o)' => opts'[o].val # 0)
      BY <1>2 DEF SettledInv
  <2>1. o \in 1 .. Len(argv) BY LineFacts DEF Given
  <2> QED BY <1>4, <1>7, <2>1 DEF SettledInv
<1> QED BY <1>5, <1>10, <1>11, <1>12 DEF ParseMade

\* A text with no option before it is a positional.
LEMMA ParsePositional ==
    ASSUME CliTyped, ListInv, ParserInv, SettledInv({}), here <= Len(argv), Kind(here) = "text",
           karg = 0, list' = Append(list, here), opts' = [opts EXCEPT ![here] = Option(here, TRUE)],
           positionals' = positionals + 1, karg' = 0, equals' = FALSE, here' = here + 1,
           UNCHANGED <<argv, declared, cliErrors>>
    PROVE  ParseMade
<1>1. ~ IsOption(here) BY DEF IsOption
<1>2. /\ here \in 1 .. Len(argv) /\ here' \in 1 .. Len(argv) + 1 /\ here \notin Passed
      /\ Passed' = Passed \cup {here} /\ Given' = Given /\ PassedTexts' = PassedTexts \cup {here}
      /\ \A i : Kind(i)' = Kind(i) /\ IsOption(i)' = IsOption(i)
      BY <1>1, PassOne
<1>3. here \in Nat /\ \A i \in Passed : i \in 1 .. Len(argv) /\ i \in Nat /\ i < here BY LineFacts
<1>4. \A i \in 1 .. Len(argv) : opts'[i] = IF i = here THEN Option(here, TRUE) ELSE opts[i]
      BY DEF CliTyped
<1>5. CliTyped'
  <2>1. opts' \in [1 .. Len(argv) -> OptionRecords] BY <1>3, OptionTyped DEF CliTyped
  <2>2. list' \in Seq(Nat) BY AppendRight
  <2>3. positionals' \in Nat /\ karg' \in Nat
    <3>1. positionals \in Nat BY DEF CliTyped
    <3> QED BY <3>1
  <2>4. equals' \in BOOLEAN BY Zenon
  <2> QED BY <1>2, <2>1, <2>2, <2>3, <2>4, Zenon DEF CliTyped
<1>6. \A i \in Passed : i # here /\ opts'[i] = opts[i] BY <1>2, <1>3, <1>4
<1>7. opts'[here].positional
  <2>1. opts'[here] = Option(here, TRUE) BY <1>2, <1>4
  <2> QED BY <2>1 DEF Option
<1>8. Positionals' = Positionals \cup {here} /\ here \notin Positionals
      BY <1>2, <1>6, <1>7 DEF Positionals, PassedTexts
<1>9. here > 1 => Kind(here - 1) = "text" BY DEF ParserInv
<1>10. \A o \in Given : (Near(o)' <=> Near(o)) /\ (Far(o)' <=> Far(o))
  <2> SUFFICES ASSUME NEW o \in Given PROVE (Near(o)' <=> Near(o)) /\ (Far(o)' <=> Far(o)) OBVIOUS
  <2>1. o \in Nat /\ IsOption(o) /\ o >= 1 BY LineFacts DEF Given
  <2>2. o + 1 # here
    <3>1. o + 1 = here => here > 1 /\ here - 1 = o BY <1>3, <2>1
    <3> QED BY <1>9, <2>1, <3>1 DEF IsOption
  <2>3. o + 2 = here => Kind(o + 1) = "text"
    <3>1. o + 2 = here => here > 1 /\ here - 1 = o + 1 BY <1>3, <2>1
    <3> QED BY <1>9, <3>1
  <2> QED BY <2>2, <2>3, NearKept
<1>11. TextsRight'
  <2> SUFFICES ASSUME NEW i \in PassedTexts'
               PROVE  opts'[i].positional
                        <=> (i > 1 => Kind(i - 1)' # "eq" /\ (IsOption(i - 1)' => opts'[i - 1].val = 0))
      BY DEF TextsRight
  <2>1. CASE i = here BY <1>2, <1>7, <1>9, <2>1 DEF IsOption
  <2>2. CASE i \in PassedTexts
    <3>1. i \in Passed /\ i \in Nat BY <2>2, LineFacts DEF PassedTexts
    <3>2. i > 1 => i - 1 \in Passed BY <1>3, <3>1 DEF Passed
    <3>3. opts'[i] = opts[i] /\ (i > 1 => opts'[i - 1] = opts[i - 1]) BY <1>6, <3>1, <3>2
    <3> QED BY <1>2, <2>2, <3>3 DEF ListInv, TextsRight
  <2> QED BY <1>2, <2>1, <2>2
<1>12. \A o \in Given : o \in Passed /\ opts'[o] = opts[o] BY <1>6 DEF Given
<1>13. ASSUME NEW o \in Given PROVE OptionRight(o)' BY <1>10, <1>12 DEF ListInv, OptionRight
<1>14. positionals' = Cardinality(Positionals') BY <1>8, PositionalsFinite, FS_AddElement DEF ListInv
<1>15. ListInv'
  <2>1. Ascends(list') /\ Members(list') = Members(list) \cup {here} BY AppendRight
  <2> QED BY <1>2, <1>8, <1>11, <1>13, <1>14, <2>1 DEF ListInv
<1>16. ParserInv'
  <2>1. ASSUME NEW i \in Passed', Kind(i)' = "eq" PROVE i > 1 /\ Kind(i - 1)' = "long"
        BY <1>2, <2>1 DEF ParserInv
  <2>2. here' - 1 = here /\ here' > 1 BY <1>2, <1>3
  <2>3. ASSUME NEW i \in here' .. Len(argv') PROVE ~ opts'[i].positional
    <3>1. i \in here .. Len(argv) /\ i \in 1 .. Len(argv) /\ i # here BY <1>2, <1>3
    <3> QED BY <1>4, <3>1 DEF ParserInv
  <2> QED BY <1>2, <2>1, <2>2, <2>3 DEF ParserInv
<1>17. SettledInv({})' BY <1>2, <1>10, <1>12 DEF SettledInv
<1> QED BY <1>5, <1>15, <1>16, <1>17 DEF ParseMade

\* A text behind an option is its value.
LEMMA ParseValue ==
    ASSUME CliTyped, ListInv, ParserInv, SettledInv({}), here <= Len(argv), Kind(here) = "text",
           karg # 0, opts' = [opts EXCEPT ![karg].val = here],
           karg' = 0, equals' = FALSE, here' = here + 1,
           UNCHANGED <<argv, list, positionals, declared, cliErrors>>
    PROVE  ParseMade
<1>0. /\ karg \in Given /\ karg + (IF equals THEN 2 ELSE 1) = here /\ karg \in 1 .. Len(argv)
      /\ equals <=> Kind(here - 1) = "eq" 
      /\ opts[karg].candidate = ~ equals /\ equals \in BOOLEAN
  <2>1. /\ karg \in Given /\ karg + (IF equals THEN 2 ELSE 1) = here
        /\ equals <=> Kind(here - 1) = "eq" 
        /\ opts[karg].candidate = ~ equals
        BY DEF ParserInv
  <2> QED BY <2>1, LineFacts DEF Given, CliTyped
<1>1. ~ IsOption(here) BY DEF IsOption
<1>2. /\ here \in 1 .. Len(argv) /\ here' \in 1 .. Len(argv) + 1 /\ here \notin Passed
      /\ Passed' = Passed \cup {here} /\ Given' = Given /\ PassedTexts' = PassedTexts \cup {here}
      /\ \A i : Kind(i)' = Kind(i) /\ IsOption(i)' = IsOption(i)
      BY <1>1, PassOne
<1>3. /\ here \in Nat /\ karg \in Nat
      /\ \A i \in Passed : i \in 1 .. Len(argv) /\ i \in Nat /\ i < here
      BY LineFacts DEF CliTyped
<1>4. \A i \in 1 .. Len(argv) :
          /\ opts'[i].positional = opts[i].positional /\ opts'[i].candidate = opts[i].candidate
          /\ opts'[i].accounted = opts[i].accounted
          /\ opts'[i].val = IF i = karg THEN here ELSE opts[i].val
      BY OptsFacts DEF CliTyped, OptionRecords
<1>5. CliTyped'
  <2>1. opts' \in [1 .. Len(argv) -> OptionRecords] BY <1>0, <1>3 DEF CliTyped, OptionRecords
  <2> QED BY <1>2, <2>1 DEF CliTyped
<1>6. ~ opts'[here].positional
  <2>1. here \in here .. Len(argv) BY <1>2, LineFacts
  <2> QED BY <1>2, <1>4, <2>1 DEF ParserInv
<1>7. Positionals' = Positionals BY <1>2, <1>3, <1>4, <1>6 DEF Positionals, PassedTexts
\* What is right in front of the text: the option, or "=" behind it.
<1>8. ASSUME NEW o \in Given PROVE o + 1 = here <=> o = karg /\ ~ equals
  <2>1. o \in Nat /\ IsOption(o) BY LineFacts DEF Given
  <2>2. CASE equals
    <3>1. o + 1 = here => Kind(o) = "eq"
      <4>1. o + 1 = here => here - 1 = o BY <1>3, <2>1
      <4> QED BY <1>0, <2>2, <4>1
    <3> QED BY <2>1, <2>2, <3>1 DEF IsOption
  <2>3. CASE ~ equals BY <1>0, <1>3, <2>1, <2>3
  <2> QED BY <2>2, <2>3
<1>9. ASSUME NEW o \in Given PROVE o + 2 = here /\ Kind(o + 1) = "eq" <=> o = karg /\ equals
  <2>1. o \in Nat BY LineFacts DEF Given
  <2>2. CASE equals
    <3>1. karg + 2 = here BY <1>0, <2>2
    <3>2. o + 2 = here <=> o = karg BY <1>3, <2>1, <3>1
    <3>3. o = karg => o + 1 = here - 1 BY <1>3, <2>1, <3>1
    <3> QED BY <1>0, <2>2, <3>2, <3>3
  <2>3. CASE ~ equals
    <3>1. o + 2 = here => o + 1 = here - 1 BY <1>3, <2>1
    <3> QED BY <1>0, <2>3, <3>1
  <2> QED BY <2>2, <2>3
<1>10. \A o \in Given : /\ Near(o)' <=> Near(o) \/ (o = karg /\ ~ equals)
                        /\ Far(o)' <=> Far(o) \/ (o = karg /\ equals)
       BY <1>8, <1>9, NearKept
<1>11. ~ Near(karg) /\ ~ Far(karg)
  <2>1. ~ here < here /\ (~ equals => karg + 1 = here) /\ (equals => karg + 2 = here)
        BY <1>0, <1>3
  <2>2. ~ equals => ~ karg + 2 < here BY <1>3, <2>1
  <2>3. equals => Kind(karg + 1) = "eq"
    <3>1. equals => karg + 1 = here - 1 BY <1>3, <2>1
    <3> QED BY <1>0, <3>1
  <2>4. /\ Near(karg) => karg + 1 < here
        /\ Far(karg) => karg + 1 < here /\ karg + 2 < here
        BY <1>0, NearKept
  <2>5. Near(karg) => Kind(karg + 1) = "text" BY DEF Near
  <2> QED BY <1>0, <2>1, <2>3, <2>4, <2>5
<1>12. TextsRight'
  <2> SUFFICES ASSUME NEW i \in PassedTexts'
               PROVE  opts'[i].positional
                        <=> (i > 1 => Kind(i - 1)' # "eq" /\ (IsOption(i - 1)' => opts'[i - 1].val = 0))
      BY DEF TextsRight
  <2>1. CASE i = here
    <3>1. here > 1 /\ (~ equals => here - 1 = karg) BY <1>0, <1>3
    <3>2. ~ equals => IsOption(here - 1) /\ opts'[here - 1].val # 0 BY <1>0, <1>2, <1>3, <1>4, <3>1 DEF Given
    <3> QED BY <1>0, <1>2, <1>6, <2>1, <3>1, <3>2
  <2>2. CASE i \in PassedTexts
    <3>1. i \in 1 .. Len(argv) /\ i \in Nat /\ i < here /\ Kind(i) = "text" BY <2>2, LineFacts DEF PassedTexts
    <3>2. i > 1 => i - 1 \in 1 .. Len(argv) BY <1>3, <3>1, LineFacts
    <3>3. i > 1 => i - 1 # karg
      <4>1. ~ equals /\ i - 1 = karg => i = here BY <1>0, <1>3, <3>1
      <4>2. equals /\ i - 1 = karg => i = here - 1 BY <1>0, <1>3, <3>1
      <4> QED BY <1>0, <3>1, <4>1, <4>2
    <3> QED BY <1>2, <1>4, <2>2, <3>1, <3>2, <3>3 DEF ListInv, TextsRight
  <2> QED BY <1>2, <2>1, <2>2
<1>13. ASSUME NEW o \in Given PROVE OptionRight(o)'
  <2>1. o \in 1 .. Len(argv) /\ o \in Nat BY LineFacts DEF Given
  <2>2. OptionRight(o) BY DEF ListInv
  <2>3. CASE o # karg BY <1>4, <1>10, <2>1, <2>2, <2>3 DEF OptionRight
  <2>4. CASE o = karg /\ equals
    <3>1. opts'[o].val = o + 2 /\ ~ opts'[o].candidate /\ Far(o)' BY <1>0, <1>4, <1>10, <2>1, <2>4
    <3>2. ~ opts'[o].positional /\ o + 2 # o + 1 BY <1>4, <2>1, <2>2 DEF OptionRight
    <3> QED BY <3>1, <3>2 DEF OptionRight
  <2>5. CASE o = karg /\ ~ equals
    <3>1. opts'[o].val = o + 1 /\ opts'[o].candidate /\ Near(o)' /\ ~ Far(o)'
          BY <1>0, <1>4, <1>10, <1>11, <2>1, <2>5
    <3>2. ~ opts'[o].positional /\ o + 2 # o + 1 BY <1>4, <2>1, <2>2 DEF OptionRight
    <3> QED BY <3>1, <3>2 DEF OptionRight
  <2> QED BY <1>0, <2>3, <2>4, <2>5
<1>14. ListInv' BY <1>2, <1>7, <1>12, <1>13 DEF ListInv
<1>15. ParserInv'
  <2>1. ASSUME NEW i \in Passed', Kind(i)' = "eq" PROVE i > 1 /\ Kind(i - 1)' = "long"
        BY <1>2, <2>1 DEF ParserInv
  <2>2. here' - 1 = here /\ here' > 1 BY <1>2, <1>3
  <2>3. ASSUME NEW i \in here' .. Len(argv') PROVE ~ opts'[i].positional
    <3>1. i \in here .. Len(argv) /\ i \in 1 .. Len(argv) /\ i # here BY <1>2, <1>3
    <3> QED BY <1>4, <3>1 DEF ParserInv
  <2> QED BY <1>2, <2>1, <2>2, <2>3 DEF ParserInv
<1>16. SettledInv({})'
  <2> SUFFICES ASSUME NEW o \in Given
               PROVE  ~ opts'[o].accounted /\ (Near(o)' => opts'[o].val # 0)
      BY <1>2 DEF SettledInv
  <2>1. o \in 1 .. Len(argv) BY LineFacts DEF Given
  <2>2. o = karg => opts'[o].val # 0 BY <1>2, <1>4, <2>1
  <2>3. o # karg /\ Near(o)' => opts[o].val # 0 BY <1>10 DEF SettledInv
  <2> QED BY <1>4, <2>1, <2>2, <2>3 DEF SettledInv
<1> QED BY <1>5, <1>14, <1>15, <1>16 DEF ParseMade

LEMMA StillParsing ==
    ASSUME ParseMade, cliPhase' = "parse", ~ cliErrors', declared' = 0,
           LongsRight({})', ShortsRight({})', cached' = <<0, 0>>, got' = <<0, 0>>
    PROVE  CliInv'
<1>1. Done' = {} BY DEF Done
<1> QED BY <1>1 DEF CliInv, ParseMade

LEMMA Stops ==
    ASSUME CliTyped', cliPhase' = "stop"
    PROVE  CliInv'
BY DEF CliInv

LEMMA Fails ==
    ASSUME CliTyped, Fail, UNCHANGED <<argv, here, opts, list, karg, equals, declared, positionals>>
    PROVE  CliInv'
<1>1. cliErrors' \in BOOLEAN BY Zenon DEF Fail
<1>2. CliTyped' BY <1>1 DEF CliTyped
<1> QED BY <1>2, Stops DEF Fail

LEMMA ParsingFacts ==
    ASSUME CliInv, cliPhase = "parse"
    PROVE  /\ CliTyped /\ ListInv /\ ParserInv /\ LongsRight({}) /\ ShortsRight({}) /\ SettledInv({})
           /\ ~ cliErrors /\ declared = 0 /\ cached = <<0, 0>> /\ got = <<0, 0>>
<1>1. Done = {} BY DEF Done
<1> QED BY <1>1 DEF CliInv

LEMMA ParseStep ==
    ASSUME CliInv, ParseLong \/ ParseShort \/ ParseBad \/ ParseEquals \/ ParseText \/ ParseEnd
    PROVE  CliInv'
<1>0. cliPhase = "parse" BY DEF ParseLong, ParseShort, ParseBad, ParseEquals, ParseText, ParseEnd, Parsing
<1>1. /\ CliTyped /\ ListInv /\ ParserInv /\ LongsRight({}) /\ ShortsRight({}) /\ SettledInv({})
      /\ ~ cliErrors /\ declared = 0 /\ cached = <<0, 0>> /\ got = <<0, 0>>
      BY <1>0, ParsingFacts
<1>2. CASE ParseLong
  <2>1. /\ here <= Len(argv) /\ Kind(here) = "long" /\ IsOption(here)
        /\ argv' = argv /\ UNCHANGED <<declared, positionals, cached, got>>
        BY <1>2 DEF ParseLong, Parsing, Lexeme, Kind, IsOption
  <2>2. CASE Defined(longs, Lexeme.name)
        BY <1>1, <1>2, <2>2, Fails DEF ParseLong, tables
  <2>3. CASE ~ Defined(longs, Lexeme.name)
    <3>1. /\ MakeOption /\ longs' = longs \cup {<<Lexeme.name, here>>} /\ shorts' = shorts
          /\ cliPhase' = cliPhase /\ cliErrors' = cliErrors
          BY <1>2, <2>3 DEF ParseLong
    <3>2. ParseMade BY <1>1, <2>1, <3>1, MakeOptionRight DEF ParseMade
    <3>3. here' = here + 1 BY <3>1 DEF MakeOption
    <3>4. LongsRight({})' BY <1>1, <2>1, <2>3, <3>1, <3>3, LongsGrow
    <3>5. ShortsRight({})' BY <1>1, <2>1, <3>1, <3>3, ShortsStay
    <3> QED BY <1>0, <1>1, <2>1, <3>1, <3>2, <3>4, <3>5, StillParsing
  <2> QED BY <2>2, <2>3
<1>3. CASE ParseShort
  <2>1. /\ here <= Len(argv) /\ Kind(here) = "short" /\ IsOption(here)
        /\ argv' = argv /\ UNCHANGED <<declared, positionals, cached, got>>
        BY <1>3 DEF ParseShort, Parsing, Lexeme, Kind, IsOption
  <2>2. CASE Defined(shorts, Offset(Lexeme.name))
        BY <1>1, <1>3, <2>2, Fails DEF ParseShort, tables
  <2>3. CASE ~ Defined(shorts, Offset(Lexeme.name))
    <3>1. /\ MakeOption /\ shorts' = shorts \cup {<<Offset(Lexeme.name), here>>} /\ longs' = longs
          /\ cliPhase' = cliPhase /\ cliErrors' = cliErrors
          BY <1>3, <2>3 DEF ParseShort
    <3>2. ParseMade BY <1>1, <2>1, <3>1, MakeOptionRight DEF ParseMade
    <3>3. here' = here + 1 BY <3>1 DEF MakeOption
    <3>4. ShortsRight({})' BY <1>1, <2>1, <2>3, <3>1, <3>3, ShortsGrow
    <3>5. LongsRight({})' BY <1>1, <2>1, <3>1, <3>3, LongsStay
    <3> QED BY <1>0, <1>1, <2>1, <3>1, <3>2, <3>4, <3>5, StillParsing
  <2> QED BY <2>2, <2>3
<1>4. CASE ParseBad BY <1>1, <1>4, Fails DEF ParseBad, tables
<1>5. CASE ParseEquals
  <2>1. /\ here <= Len(argv) /\ Kind(here) = "eq" /\ argv' = argv
        /\ UNCHANGED <<list, longs, shorts, karg, declared, positionals, cached, got>>
        BY <1>5 DEF ParseEquals, Parsing, Lexeme, Kind
  <2>2. CASE karg = 0 \/ argv[karg].kind = "short" \/ equals
        BY <1>1, <1>5, <2>1, <2>2, Fails DEF ParseEquals
  <2>3. CASE ~ (karg = 0 \/ argv[karg].kind = "short" \/ equals)
    <3>1. /\ opts' = [opts EXCEPT ![karg].candidate = FALSE] /\ equals' = TRUE /\ here' = here + 1
          /\ cliPhase' = cliPhase /\ cliErrors' = cliErrors
          BY <1>5, <2>3 DEF ParseEquals
    <3>2. karg # 0 /\ Kind(karg) # "short" /\ ~ equals BY <2>3 DEF Kind
    <3>3. ParseMade BY <1>1, <2>1, <3>1, <3>2, ParseEqualsRight
    <3>4. LongsRight({})' BY <1>1, <2>1, <3>1, LongsStay
    <3>5. ShortsRight({})' BY <1>1, <2>1, <3>1, ShortsStay
    <3> QED BY <1>0, <1>1, <2>1, <3>1, <3>3, <3>4, <3>5, StillParsing
  <2> QED BY <2>2, <2>3
<1>6. CASE ParseText
  <2>1. /\ here <= Len(argv) /\ Kind(here) = "text" /\ argv' = argv
        /\ karg' = 0 /\ equals' = FALSE /\ here' = here + 1
        /\ UNCHANGED <<longs, shorts, cliPhase, cliErrors, declared, cached, got>>
        BY <1>6 DEF ParseText, Parsing, Lexeme, Kind
  <2>2. ParseMade
    <3>1. CASE karg = 0
      <4>1. /\ list' = Append(list, here) /\ opts' = [opts EXCEPT ![here] = Option(here, TRUE)]
            /\ positionals' = positionals + 1
            BY <1>6, <3>1 DEF ParseText
      <4> QED BY <1>1, <2>1, <3>1, <4>1, ParsePositional
    <3>2. CASE karg # 0
      <4>1. opts' = [opts EXCEPT ![karg].val = here] /\ UNCHANGED <<list, positionals>>
            BY <1>6, <3>2 DEF ParseText
      <4> QED BY <1>1, <2>1, <3>2, <4>1, ParseValue
    <3> QED BY <3>1, <3>2
  <2>3. LongsRight({})' BY <1>1, <2>1, LongsStay
  <2>4. ShortsRight({})' BY <1>1, <2>1, ShortsStay
  <2> QED BY <1>0, <1>1, <2>1, <2>2, <2>3, <2>4, StillParsing
<1>7. CASE ParseEnd
  <2>1. /\ here > Len(argv)
        /\ UNCHANGED <<argv, tool, here, tables, karg, equals, declared, positionals, cached, got>>
        BY <1>7 DEF ParseEnd
  <2>2. CASE karg # 0 /\ equals BY <1>1, <1>7, <2>1, <2>2, Fails DEF ParseEnd, tables
  <2>3. CASE ~ (karg # 0 /\ equals)
    <3>1. cliPhase' = "general" /\ cliErrors' = cliErrors BY <1>7, <2>3 DEF ParseEnd
    <3>2. here' = Len(argv') + 1
      <4>1. here = Len(argv) + 1 BY <1>1, <2>1, LineFacts DEF CliTyped
      <4> QED BY <2>1, <4>1
    <3>3. /\ Kind(0)' = Kind(0) /\ UNCHANGED <<Passed, Given, PassedTexts, Positionals>>
          /\ \A i : Kind(i)' = Kind(i) /\ IsOption(i)' = IsOption(i)
          BY <2>1 DEF Passed, Given, PassedTexts, Positionals, tables, Kind, IsOption
    <3>4. \A o : (Near(o)' <=> Near(o)) /\ (Far(o)' <=> Far(o)) BY <3>3 DEF Near, Far
    <3>5. \A o : OptionRight(o)' <=> OptionRight(o) BY <2>1, <3>4 DEF OptionRight, tables
    <3>6. ListInv' /\ CliTyped'
          BY <1>1, <2>1, <3>1, <3>3, <3>5 DEF ListInv, CliTyped, TextsRight, tables
    <3>7. LongsRight({})' /\ ShortsRight({})'
          BY <1>1, <2>1, <3>3 DEF LongsRight, ShortsRight, tables
    <3>8. SettledInv({})' BY <1>1, <2>1, <3>3, <3>4 DEF SettledInv, tables
    <3>9. Done' = {}
      <4>1. Done' = {General[j] : j \in 1 .. 0} BY <1>1, <2>1, <3>1 DEF Done
      <4> QED BY <4>1
    <3>10. declared' <= Len(Declaring')
      <4>1. Declaring' = General BY <3>1 DEF Declaring
      <4>2. General \in Seq(Declarations) BY CliAssumption
      <4> QED BY <1>1, <2>1, <4>1, <4>2
    <3> QED BY <1>1, <2>1, <3>1, <3>2, <3>6, <3>7, <3>8, <3>9, <3>10 DEF CliInv
  <2> QED BY <2>2, <2>3
<1> QED BY <1>2, <1>3, <1>4, <1>5, <1>6, <1>7

-----------------------------------------------------------------------------
(* What a declaration finds.                                                  *)

Fresh(D, d) ==
    \A e \in D : /\ e.long = d.long => d.long = NoName
                 /\ Offset(e.short) = Offset(d.short) => d.short = NoName

LEMMA GetRight ==
    ASSUME NEW map, \A e, f \in map : e[1] = f[1] => e[2] = f[2], NEW name
    PROVE  /\ (\A e \in map : e[1] # name) => Get(map, name) = 0
           /\ \A e \in map : e[1] = name => Get(map, name) = e[2]
           /\ Get(map, name) = 0 \/ \E e \in map : e[1] = name /\ e[2] = Get(map, name)
<1> DEFINE e0 == CHOOSE e \in map : e[1] = name
<1>1. (\E e \in map : e[1] = name) => e0 \in map /\ e0[1] = name OBVIOUS
<1>2. Get(map, name) = IF \E e \in map : e[1] = name THEN e0[2] ELSE 0 BY DEF Get, Defined
<1> HIDE DEF e0
<1> QED BY <1>1, <1>2

LEMMA OffsetNames ==
    ASSUME NEW c
    PROVE  Offset(c) = NoName <=> c = NoName
BY DEF Offset, NoName

\* A declaration finds the options that it names; none of them is named by
\* another one.
LEMMA NamesFound ==
    ASSUME CliTyped, NEW D, LongsRight(D), ShortsRight(D), NEW d, Fresh(D, d)
    PROVE  LET long  == Get(longs, d.long)
               short == Get(shorts, Offset(d.short))
           IN  /\ long = 0 \/ (long \in Given /\ Kind(long) = "long" /\ argv[long].name = d.long)
               /\ short = 0 \/ (short \in Given /\ Kind(short) = "short"
                                /\ Offset(argv[short].name) = Offset(d.short))
               /\ \A o \in Given : Names(d, o) <=> o = long \/ o = short
               /\ \A o \in Given : Names(d, o) => \A e \in D : ~ Names(e, o)
<1> DEFINE long  == Get(longs, d.long)
           short == Get(shorts, Offset(d.short))
<1>1. long = 0 \/ (long \in Given /\ Kind(long) = "long" /\ argv[long].name = d.long)
  <2>1. long = 0 \/ \E e \in longs : e[1] = d.long /\ e[2] = long
        BY GetRight DEF LongsRight
  <2> SUFFICES ASSUME NEW e \in longs, e[1] = d.long, e[2] = long
               PROVE  long \in Given /\ Kind(long) = "long" /\ argv[long].name = d.long
      BY <2>1
  <2> HIDE DEF long
  <2>2. e[2] \in Given /\ d.long # NoName BY DEF LongsRight
  <2>3. ~ \E f \in D : f.long = e[1] BY <2>2 DEF Fresh
  <2> QED BY <2>2, <2>3 DEF LongsRight
<1>2. short = 0 \/ (short \in Given /\ Kind(short) = "short" /\ Offset(argv[short].name) = Offset(d.short))
  <2>1. short = 0 \/ \E e \in shorts : e[1] = Offset(d.short) /\ e[2] = short
        BY GetRight DEF ShortsRight
  <2> SUFFICES ASSUME NEW e \in shorts, e[1] = Offset(d.short), e[2] = short
               PROVE  short \in Given /\ Kind(short) = "short" /\ Offset(argv[short].name) = Offset(d.short)
      BY <2>1
  <2> HIDE DEF short
  <2>2. e[2] \in Given /\ Offset(d.short) # NoName BY DEF ShortsRight
  <2>3. d.short # NoName BY <2>2, OffsetNames
  <2>4. ~ \E f \in D : Offset(f.short) = e[1] BY <2>3 DEF Fresh
  <2> QED BY <2>2, <2>4 DEF ShortsRight
<1>3. ASSUME NEW o \in Given, Names(d, o)
      PROVE  (o = long \/ o = short) /\ \A e \in D : ~ Names(e, o)
  <2>1. o \in 1 .. Len(argv) /\ IsOption(o) BY LineFacts DEF Given
  <2>2. CASE Kind(o) = "long" /\ argv[o].name = d.long
    <3>1. <<argv[o].name, o>> \in longs BY <2>2 DEF LongsRight
    <3>2. long = o
      <4>1. <<argv[o].name, o>>[1] = d.long /\ <<argv[o].name, o>>[2] = o BY <2>2
      <4>2. \A e \in longs : e[1] = d.long => long = e[2] BY GetRight DEF LongsRight
      <4> QED BY <3>1, <4>1, <4>2
    <3>3. d.long # NoName BY <2>1, <2>2, LineFacts
    <3>4. ASSUME NEW e \in D PROVE ~ Names(e, o) BY <2>2, <3>3 DEF Names, Kind, Fresh
    <3> QED BY <3>2, <3>4
  <2>3. CASE Kind(o) = "short" /\ Offset(argv[o].name) = Offset(d.short)
    <3>1. <<Offset(argv[o].name), o>> \in shorts BY <2>3 DEF ShortsRight
    <3>2. short = o
      <4>1. <<Offset(argv[o].name), o>>[1] = Offset(d.short) /\ <<Offset(argv[o].name), o>>[2] = o BY <2>3
      <4>2. \A e \in shorts : e[1] = Offset(d.short) => short = e[2] BY GetRight DEF ShortsRight
      <4> QED BY <3>1, <4>1, <4>2
    <3>3. d.short # NoName
      <4>1. argv[o].name # NoName BY <2>1, LineFacts
      <4> QED BY <2>3, <4>1, OffsetNames
    <3>4. ASSUME NEW e \in D PROVE ~ Names(e, o) BY <2>3, <3>3 DEF Names, Kind, Fresh
    <3> QED BY <3>2, <3>4
  <2> QED BY <1>3, <2>2, <2>3 DEF Names, Kind
<1>4. ASSUME NEW o \in Given, o = long \/ o = short PROVE Names(d, o)
  <2>1. o # 0 BY LineFacts DEF Given, Passed
  <2> HIDE DEF long, short
  <2> QED BY <1>1, <1>2, <1>4, <2>1 DEF Names, Kind
<1> QED BY <1>1, <1>2, <1>3, <1>4

\* The names of a declaration that has been made lead to what it found.
LEMMA LongsAliased ==
    ASSUME NEW D, LongsRight(D), NEW d, NEW short, short = 0 \/ short \in Given,
           UNCHANGED <<argv, here>>, longs' = Aliased(longs, d.long, Get(longs, d.long), short)
    PROVE  LongsRight(D \cup {d})'
<1> DEFINE long == Get(longs, d.long)
           new  == d.long # NoName /\ long = 0 /\ short # 0
<1>1. \A i : Kind(i)' = Kind(i) BY DEF Kind
<1>2. Given' = Given BY DEF Given, Passed, IsOption, Kind
<1>3. longs' = IF new THEN longs \cup {<<d.long, short>>} ELSE longs BY DEF Aliased
<1>4. \A e \in longs : e[1] = d.long => long = e[2] BY GetRight DEF LongsRight
<1>5. new => \A e \in longs : e[1] # d.long
  <2>1. \A e \in longs : e[2] # 0 BY DEF LongsRight, Given, Passed
  <2> QED BY <1>4, <2>1
<1> HIDE DEF long
<1>6. \A e \in longs' : e \in longs \/ (new /\ e[1] = d.long /\ e[2] = short) BY <1>3
<1>7. longs \subseteq longs' BY <1>3
<1>8. ASSUME NEW e \in longs'
      PROVE  /\ e[2] \in Given /\ e[1] # NoName
             /\ \/ Kind(e[2]) = "long" /\ argv[e[2]].name = e[1]
                \/ \E f \in D \cup {d} : f.long = e[1]
  <2>1. CASE e \in longs BY <2>1 DEF LongsRight
  <2>2. CASE new /\ e[1] = d.long /\ e[2] = short BY <2>2
  <2> QED BY <1>6, <2>1, <2>2
<1>9. \A e, f \in longs' : e[1] = f[1] => e[2] = f[2]
  <2> HIDE DEF new
  <2> QED BY <1>5, <1>6 DEF LongsRight
<1>10. \A o \in Given : Kind(o) = "long" => <<argv[o].name, o>> \in longs' BY <1>7 DEF LongsRight
<1> QED BY <1>1, <1>2, <1>8, <1>9, <1>10 DEF LongsRight

LEMMA ShortsAliased ==
    ASSUME NEW D, ShortsRight(D), NEW d, NEW long, long = 0 \/ long \in Given,
           UNCHANGED <<argv, here>>,
           shorts' = Aliased(shorts, Offset(d.short), Get(shorts, Offset(d.short)), long)
    PROVE  ShortsRight(D \cup {d})'
<1> DEFINE slot  == Offset(d.short)
           short == Get(shorts, slot)
           new   == slot # NoName /\ short = 0 /\ long # 0
<1>1. \A i : Kind(i)' = Kind(i) BY DEF Kind
<1>2. Given' = Given BY DEF Given, Passed, IsOption, Kind
<1>3. shorts' = IF new THEN shorts \cup {<<slot, long>>} ELSE shorts BY DEF Aliased
<1>4. \A e \in shorts : e[1] = slot => short = e[2] BY GetRight DEF ShortsRight
<1>5. new => \A e \in shorts : e[1] # slot
  <2>1. \A e \in shorts : e[2] # 0 BY DEF ShortsRight, Given, Passed
  <2> QED BY <1>4, <2>1
<1> HIDE DEF short
<1>6. \A e \in shorts' : e \in shorts \/ (new /\ e[1] = slot /\ e[2] = long) BY <1>3
<1>7. shorts \subseteq shorts' BY <1>3
<1>8. ASSUME NEW e \in shorts'
      PROVE  /\ e[2] \in Given /\ e[1] # NoName
             /\ \/ Kind(e[2]) = "short" /\ Offset(argv[e[2]].name) = e[1]
                \/ \E f \in D \cup {d} : Offset(f.short) = e[1]
  <2>1. CASE e \in shorts BY <2>1 DEF ShortsRight
  <2>2. CASE new /\ e[1] = slot /\ e[2] = long BY <2>2
  <2> QED BY <1>6, <2>1, <2>2
<1>9. \A e, f \in shorts' : e[1] = f[1] => e[2] = f[2]
  <2> HIDE DEF new, slot
  <2> QED BY <1>5, <1>6 DEF ShortsRight
<1>10. \A o \in Given : Kind(o) = "short" => <<Offset(argv[o].name), o>> \in shorts'
       BY <1>7 DEF ShortsRight
<1> QED BY <1>1, <1>2, <1>8, <1>9, <1>10 DEF ShortsRight

-----------------------------------------------------------------------------
(* Options give up their values.                                              *)

LEMMA SameCount ==
    ASSUME NEW S \in SUBSET Nat, IsFiniteSet(S)
    PROVE  /\ IsFiniteSet({x + 1 : x \in S})
           /\ Cardinality({x + 1 : x \in S}) = Cardinality(S)
<1> DEFINE T == {x + 1 : x \in S}
           f == [x \in S |-> x + 1]
<1>0. \A x \in S : x \in Nat OBVIOUS
<1>1. f \in [S -> T] OBVIOUS
<1>2. \A x, y \in S : f[x] = f[y] => x = y
  <2>1. \A x, y \in Nat : x + 1 = y + 1 => x = y OBVIOUS
  <2>2. \A x \in S : f[x] = x + 1 OBVIOUS
  <2> HIDE DEF f
  <2> QED BY <1>0, <2>1, <2>2
<1>3. \A y \in T : \E x \in S : f[x] = y OBVIOUS
<1> HIDE DEF f, T
<1>4. ExistsBijection(S, T)
  <2>1. f \in Injection(S, T)
    <3>1. IsInjective(f)
      <4>1. DOMAIN f = S BY <1>1
      <4> QED BY <1>2, <4>1 DEF IsInjective
    <3> QED BY <1>1, <3>1 DEF Injection
  <2>2. f \in Surjection(S, T) BY <1>1, <1>3 DEF Surjection
  <2> QED BY <2>1, <2>2 DEF ExistsBijection, Bijection
<1>5. IsFiniteSet(T) /\ Cardinality(T) = Cardinality(S) BY <1>4, FS_Bijection
<1> QED BY <1>5 DEF T

Divided(os, acc) ==
    \A o \in Given : IF o \in os THEN opts'[o].val = 0 /\ opts'[o].accounted = acc
                     ELSE opts'[o] = opts[o]

LEMMA SplitStep ==
    ASSUME CliTyped, ListInv, NEW os \in SUBSET Given, \A o \in os : opts[o].val = o + 1,
           NEW acc \in BOOLEAN, UNCHANGED <<argv, here>>,
           list' = SplitList(os), opts' = SplitOpts(os, acc),
           positionals' = positionals + Cardinality(os)
    PROVE  /\ ListInv' /\ opts' \in [1 .. Len(argv) -> OptionRecords] /\ list' \in Seq(Nat)
           /\ positionals' \in Nat /\ Divided(os, acc)
<1> DEFINE More == {o + 1 : o \in os}
<1>1. /\ \A i : Kind(i)' = Kind(i) /\ IsOption(i)' = IsOption(i)
      /\ Passed' = Passed /\ Given' = Given /\ PassedTexts' = PassedTexts
      BY DEF Kind, IsOption, Passed, Given, PassedTexts
<1>2. \A o : (Near(o)' <=> Near(o)) /\ (Far(o)' <=> Far(o)) BY <1>1 DEF Near, Far
<1>3. \A o \in Given : /\ o \in 1 .. Len(argv) /\ o \in Nat /\ IsOption(o) /\ OptionRight(o)
                       /\ o \in Passed
      BY LineFacts DEF Given, ListInv
<1>4. \A o \in os : o \in Given /\ o \in Nat /\ Near(o) /\ o + 1 \in PassedTexts /\ ~ Far(o)
  <2>1. \A o \in os : o \in Given /\ o \in Nat /\ Near(o) BY <1>3 DEF OptionRight
  <2> QED BY <2>1 DEF Near, Far, PassedTexts
<1>5. \A i \in PassedTexts : i \in 1 .. Len(argv) /\ i \in Nat /\ i \notin Given
      BY LineFacts DEF PassedTexts, Given, IsOption
<1>6. More \subseteq PassedTexts BY <1>4
<1>7. ASSUME NEW i \in 1 .. Len(argv)
      PROVE  opts'[i] = IF i \in os
                        THEN [opts[i] EXCEPT !.val = 0, !.candidate = FALSE, !.accounted = acc]
                        ELSE IF i \in More THEN Option(i, TRUE) ELSE opts[i]
  <2>1. DOMAIN opts = 1 .. Len(argv) BY DEF CliTyped
  <2>2. (\E o \in os : opts[o].val = i) <=> i \in More OBVIOUS
  <2> HIDE DEF More
  <2> QED BY <2>1, <2>2 DEF SplitOpts
<1>8. opts' \in [1 .. Len(argv) -> OptionRecords]
  <2>1. ASSUME NEW i \in 1 .. Len(argv) PROVE opts'[i] \in OptionRecords
    <3>1. opts[i] \in OptionRecords BY OptsFacts
    <3>2. [opts[i] EXCEPT !.val = 0, !.candidate = FALSE, !.accounted = acc] \in OptionRecords
          BY <3>1 DEF OptionRecords
    <3>3. i \in Nat BY LineFacts
    <3>4. Option(i, TRUE) \in OptionRecords BY <3>3, OptionTyped
    <3> HIDE DEF More
    <3> QED BY <1>7, <3>1, <3>2, <3>4
  <2>2. opts' = [i \in 1 .. Len(argv) |-> opts'[i]] BY DEF SplitOpts, CliTyped
  <2> QED BY <2>1, <2>2
<1>9. ASSUME NEW o \in os
      PROVE  opts'[o].val = 0 /\ opts'[o].accounted = acc /\ opts'[o].positional = opts[o].positional
  <2>1. o \in 1 .. Len(argv) BY <1>3, <1>4
  <2>2. opts[o] \in OptionRecords BY <2>1, OptsFacts
  <2>3. opts'[o] = [opts[o] EXCEPT !.val = 0, !.candidate = FALSE, !.accounted = acc] BY <1>7, <2>1
  <2> QED BY <2>2, <2>3 DEF OptionRecords
<1>10. ASSUME NEW i \in More PROVE opts'[i].positional
  <2>1. i \in 1 .. Len(argv) /\ i \notin os BY <1>4, <1>5, <1>6
  <2>2. opts'[i] = Option(i, TRUE)
    <3> HIDE DEF More
    <3> QED BY <1>7, <2>1
  <2> QED BY <2>2 DEF Option
<1>11. \A i \in 1 .. Len(argv) : i \notin os /\ i \notin More => opts'[i] = opts[i] BY <1>7
<1>12. ASSUME NEW o \in Given PROVE o \notin More BY <1>5, <1>6
<1>13. Divided(os, acc) BY <1>3, <1>9, <1>11, <1>12 DEF Divided
<1>14. Positionals' = Positionals \cup More
  <2> SUFFICES ASSUME NEW i \in PassedTexts
               PROVE  opts'[i].positional <=> opts[i].positional \/ i \in More
      BY <1>1, <1>6 DEF Positionals
  <2>1. CASE i \in More BY <1>10, <2>1
  <2>2. CASE i \notin More
    <3>1. opts'[i] = opts[i] BY <1>4, <1>5, <1>11, <2>2
    <3> HIDE DEF More
    <3> QED BY <2>2, <3>1
  <2> QED BY <2>1, <2>2
<1>15. Positionals \cap More = {}
  <2> SUFFICES ASSUME NEW o \in os, o + 1 \in Positionals PROVE FALSE OBVIOUS
  <2>1. o + 1 \in PassedTexts /\ opts[o + 1].positional BY DEF Positionals
  <2>2. o \in Nat /\ IsOption(o) /\ o >= 1 BY <1>3, <1>4 DEF Given, Passed
  <2>3. (o + 1) - 1 = o /\ o + 1 > 1 BY <2>2
  <2>4. opts[o].val = 0 BY <2>1, <2>2, <2>3 DEF ListInv, TextsRight
  <2> QED BY <2>2, <2>4
<1>16. positionals' = Cardinality(Positionals') /\ positionals' \in Nat
  <2>1. Given \in SUBSET Nat /\ IsFiniteSet(Positionals) BY PositionalsFinite
  <2>2. IsFiniteSet(os)
    <3>1. IsFiniteSet(Passed)
      <4>1. 1 \in Int /\ here - 1 \in Int BY LineFacts
      <4> QED BY <4>1, FS_Interval DEF Passed
    <3>2. os \in SUBSET Passed BY DEF Given
    <3> QED BY <3>1, <3>2, FS_Subset
  <2>3. os \in SUBSET Nat BY <2>1
  <2>4. IsFiniteSet(More) /\ Cardinality(More) = Cardinality(os) BY <2>2, <2>3, SameCount
  <2> HIDE DEF More
  <2>5. Cardinality(Positionals \cup More)
            = Cardinality(Positionals) + Cardinality(More) - Cardinality({})
        BY <1>15, <2>1, <2>4, FS_Union
  <2>6. Cardinality(os) \in Nat /\ Cardinality(Positionals) \in Nat BY <2>1, <2>2, FS_CardinalityType
  <2>7. Cardinality({}) = 0 BY FS_EmptySet
  <2> QED BY <1>14, <2>4, <2>5, <2>6, <2>7 DEF ListInv
<1>17. /\ list' \in Seq(Nat) /\ Ascends(list')
       /\ Members(list') = Members(list) \cup {x + 1 : x \in Members(list) \cap os}
  <2>1. list' = SplitAt(list, os)
    <3> DEFINE P(i) == IF list[i] \in os THEN <<list[i], opts[list[i]].val>> ELSE <<list[i]>>
               Q(i) == IF list[i] \in os THEN <<list[i], list[i] + 1>> ELSE <<list[i]>>
    <3>1. \A i \in DOMAIN list : P(i) = Q(i) OBVIOUS
    <3> HIDE DEF P, Q
    <3>2. [i \in DOMAIN list |-> P(i)] = [i \in DOMAIN list |-> Q(i)] BY <3>1
    <3> QED BY <3>2, Zenon DEF SplitList, SplitAt, P, Q
  <2>2. \A x \in os : x + 1 \notin Members(list) BY <1>4, <1>5, <1>15 DEF ListInv
  <2> QED BY <2>1, <2>2, SplitRight DEF CliTyped, ListInv
<1>18. Members(list') = Given' \cup Positionals'
  <2>1. Members(list) \cap os = os BY DEF ListInv
  <2> QED BY <1>1, <1>14, <1>17, <2>1 DEF ListInv
<1>19. TextsRight'
  <2> SUFFICES ASSUME NEW i \in PassedTexts
               PROVE  opts'[i].positional
                        <=> (i > 1 => Kind(i - 1)' # "eq" /\ (IsOption(i - 1)' => opts'[i - 1].val = 0))
      BY <1>1 DEF TextsRight
  <2>1. i \in Nat /\ i \in Passed BY <1>5 DEF PassedTexts
  <2>2. CASE i \in More
    <3>1. PICK o \in os : i = o + 1 BY <2>2
    <3>2. i - 1 = o /\ IsOption(o) /\ opts'[o].val = 0 BY <1>3, <1>4, <1>9, <3>1
    <3>3. Kind(o) # "eq" BY <3>2 DEF IsOption
    <3> QED BY <1>1, <1>10, <2>2, <3>2, <3>3
  <2>3. CASE i \notin More
    <3>1. opts'[i] = opts[i] BY <1>4, <1>5, <1>11, <2>3
    <3>2. i > 1 => i - 1 \in Passed /\ (i - 1) + 1 = i BY <2>1, LineFacts DEF Passed
    <3>3. ASSUME i > 1, IsOption(i - 1) PROVE opts'[i - 1] = opts[i - 1]
      <4>1. i - 1 \in Given BY <3>2, <3>3 DEF Given
      <4>2. i - 1 \notin os BY <2>3, <3>2, <3>3
      <4> QED BY <1>13, <4>1, <4>2 DEF Divided
    <3> QED BY <1>1, <3>1, <3>3 DEF ListInv, TextsRight
  <2> QED BY <2>2, <2>3
<1>20. ASSUME NEW o \in Given PROVE OptionRight(o)'
  <2>1. OptionRight(o) /\ o \in Nat BY <1>3
  <2>2. CASE o \in os
    <3>1. opts'[o].val = 0 /\ ~ opts'[o].positional BY <1>9, <2>1, <2>2 DEF OptionRight
    <3>2. ~ Far(o)' BY <1>2, <1>4, <2>2
    <3> QED BY <2>1, <3>1, <3>2 DEF OptionRight
  <2>3. CASE o \notin os
    <3>1. opts'[o] = opts[o] BY <1>13, <2>3 DEF Divided
    <3> QED BY <1>2, <2>1, <3>1 DEF OptionRight
  <2> QED BY <2>2, <2>3
<1> HIDE DEF More
<1>21. ListInv' BY <1>1, <1>16, <1>17, <1>18, <1>19, <1>20 DEF ListInv
<1> QED BY <1>8, <1>13, <1>16, <1>17, <1>21

\* The options keep what the chain is made by.
LEMMA ListKept ==
    ASSUME CliTyped, ListInv, UNCHANGED <<argv, here, list, positionals>>,
           \A i \in 1 .. Len(argv) : /\ opts'[i].val = opts[i].val
                                     /\ opts'[i].positional = opts[i].positional
                                     /\ opts'[i].candidate = opts[i].candidate
    PROVE  ListInv'
<1>1. /\ \A i : Kind(i)' = Kind(i) /\ IsOption(i)' = IsOption(i)
      /\ Passed' = Passed /\ Given' = Given /\ PassedTexts' = PassedTexts
      BY DEF Kind, IsOption, Passed, Given, PassedTexts
<1>2. \A o : (Near(o)' <=> Near(o)) /\ (Far(o)' <=> Far(o)) BY <1>1 DEF Near, Far
<1>3. \A i \in Passed : i \in 1 .. Len(argv) /\ i \in Nat BY LineFacts
<1>4. Positionals' = Positionals BY <1>1, <1>3 DEF Positionals, PassedTexts
<1>5. TextsRight'
  <2>1. \A i \in PassedTexts : i \in Passed /\ i \in Nat BY <1>3 DEF PassedTexts
  <2>2. \A i \in PassedTexts : i > 1 => i - 1 \in Passed BY <2>1, LineFacts DEF Passed
  <2> QED BY <1>1, <1>3, <2>1, <2>2 DEF ListInv, TextsRight
<1>6. ASSUME NEW o \in Given PROVE OptionRight(o)'
  <2>1. OptionRight(o) /\ o \in Passed BY DEF ListInv, Given
  <2> QED BY <1>2, <1>3, <2>1 DEF OptionRight
<1> QED BY <1>1, <1>4, <1>5, <1>6 DEF ListInv

\* An option that is named by a declaration: it gives up a value that it may
\* not have, and is accounted for.
LEMMA CheckOptionRight ==
    ASSUME CliTyped, ListInv, NEW o \in Given, NEW vals, CheckOption(o, vals),
           UNCHANGED <<argv, here>>
    PROVE  /\ ListInv' /\ opts' \in [1 .. Len(argv) -> OptionRecords] /\ list' \in Seq(Nat)
           /\ positionals' \in Nat /\ cliErrors' \in BOOLEAN
           /\ ~ cliErrors' =>
                /\ ~ cliErrors /\ opts'[o].accounted
                /\ \A p \in Given : p # o => opts'[p] = opts[p]
                /\ Near(o) /\ opts[o].val # 0 => (opts'[o].val = 0 <=> vals = "none")
<1>1. /\ o \in 1 .. Len(argv) /\ o \in Nat /\ OptionRight(o) /\ opts[o] \in OptionRecords
      /\ \A p \in Given : p \in 1 .. Len(argv)
      BY LineFacts, OptsFacts DEF Given, ListInv
<1>2. cliErrors \in BOOLEAN BY DEF CliTyped
<1>3. CASE vals = "requires" /\ opts[o].val = 0
  <2>1. cliErrors' = TRUE /\ UNCHANGED <<opts, list, positionals>> BY <1>3 DEF CheckOption
  <2>2. ListInv' BY <2>1, ListKept
  <2> QED BY <2>1, <2>2 DEF CliTyped
<1>4. CASE vals = "none" /\ opts[o].val # 0 /\ opts[o].candidate
  <2>1. /\ list' = SplitList({o}) /\ opts' = SplitOpts({o}, TRUE)
        /\ positionals' = positionals + 1 /\ cliErrors' = cliErrors
        BY <1>4 DEF CheckOption
  <2>2. opts[o].val = o + 1 BY <1>1, <1>4 DEF OptionRight
  <2>3. Cardinality({o}) = 1 BY FS_Singleton
  <2>4. {o} \in SUBSET Given /\ \A p \in {o} : opts[p].val = p + 1 BY <2>2
  <2>5. /\ ListInv' /\ opts' \in [1 .. Len(argv) -> OptionRecords] /\ list' \in Seq(Nat)
        /\ positionals' \in Nat /\ Divided({o}, TRUE)
        BY <2>1, <2>3, <2>4, SplitStep
  <2>6. /\ opts'[o].val = 0 /\ opts'[o].accounted = TRUE
        /\ \A p \in Given : p # o => opts'[p] = opts[p]
        BY <2>5 DEF Divided
  <2> QED BY <1>2, <1>4, <2>1, <2>5, <2>6
<1>5. CASE /\ ~ (vals = "requires" /\ opts[o].val = 0)
           /\ ~ (vals = "none" /\ opts[o].val # 0 /\ opts[o].candidate)
  <2>1. /\ opts' = [opts EXCEPT ![o].accounted = TRUE]
        /\ cliErrors' = (cliErrors \/ (vals = "none" /\ opts[o].val # 0))
        /\ UNCHANGED <<list, positionals>>
        BY <1>5 DEF CheckOption
  <2>2. \A i \in 1 .. Len(argv) :
            opts'[i] = IF i = o THEN [opts[o] EXCEPT !.accounted = TRUE] ELSE opts[i]
        BY <1>1, <2>1 DEF CliTyped
  <2>3. /\ opts'[o] \in OptionRecords /\ opts'[o].accounted /\ opts'[o].val = opts[o].val
        /\ opts'[o].positional = opts[o].positional /\ opts'[o].candidate = opts[o].candidate
    <3>1. opts'[o] = [opts[o] EXCEPT !.accounted = TRUE] BY <1>1, <2>2
    <3> QED BY <1>1, <3>1 DEF OptionRecords
  <2>4. \A i \in 1 .. Len(argv) : i # o => opts'[i] = opts[i] BY <2>2
  <2>5. opts' \in [1 .. Len(argv) -> OptionRecords]
    <3>1. opts' = [i \in 1 .. Len(argv) |-> opts'[i]] BY <2>1 DEF CliTyped
    <3>2. \A i \in 1 .. Len(argv) : opts'[i] \in OptionRecords BY <2>3, <2>4, OptsFacts
    <3> QED BY <3>1, <3>2
  <2>6. ListInv'
    <3>1. \A i \in 1 .. Len(argv) : /\ opts'[i].val = opts[i].val
                                    /\ opts'[i].positional = opts[i].positional
                                    /\ opts'[i].candidate = opts[i].candidate
          BY <2>3, <2>4
    <3> QED BY <2>1, <3>1, ListKept
  <2>7. ~ cliErrors' => /\ ~ cliErrors /\ (vals = "none" => opts[o].val = 0)
        BY <1>2, <2>1
  <2>8. list' \in Seq(Nat) /\ positionals' \in Nat BY <2>1 DEF CliTyped
  <2>9. cliErrors' \in BOOLEAN BY <2>1, Zenon
  <2>10. Near(o) /\ opts[o].val # 0 /\ ~ cliErrors' => vals # "none" BY <2>7
  <2>11. \A p \in Given : p # o => opts'[p] = opts[p] BY <1>1, <2>4
  <2> QED BY <2>3, <2>5, <2>6, <2>7, <2>8, <2>9, <2>10, <2>11
<1> QED BY <1>3, <1>4, <1>5

\* The declarations that have been made are those before the next one; it
\* shares no name with them.
LEMMA DoneStep ==
    ASSUME cliPhase = "general" \/ (cliPhase = "own" /\ tool \in DOMAIN Tools),
           declared \in Nat, declared < Len(Declaring),
           declared' = declared + 1, UNCHANGED <<cliPhase, tool>>,
           NEW d, d = Declaring[declared + 1]
    PROVE  /\ d \in Declarations /\ Fresh(Done, d) /\ Done' = Done \cup {d}
           /\ Len(Declaring) \in Nat
<1> DEFINE Below(s, n) == {s[j] : j \in 1 .. n}
<1>1. ASSUME NEW s \in Seq(Declarations), NoneShared(s), NEW n \in Nat, n < Len(s), d = s[n + 1]
      PROVE  d \in Declarations /\ Fresh(Below(s, n), d) /\ Below(s, n + 1) = Below(s, n) \cup {d}
  <2>1. n + 1 \in DOMAIN s /\ s[n + 1] \in Declarations BY <1>1
  <2>2. \A j \in 1 .. n : j \in DOMAIN s /\ j # n + 1 BY <1>1
  <2>3. 1 .. n + 1 = (1 .. n) \cup {n + 1} BY <1>1
  <2>4. Below(s, n + 1) = Below(s, n) \cup {d} BY <1>1, <2>3
  <2>5. Fresh(Below(s, n), d)
    <3> SUFFICES ASSUME NEW j \in 1 .. n
                 PROVE  /\ s[j].long = d.long => d.long = NoName
                        /\ Offset(s[j].short) = Offset(d.short) => d.short = NoName
        BY DEF Fresh
    <3> QED BY <1>1, <2>1, <2>2 DEF NoneShared
  <2> QED BY <1>1, <2>1, <2>4, <2>5
<1>2. CASE cliPhase = "general"
  <2>1. General \in Seq(Declarations) /\ NoneShared(General) BY CliAssumption
  <2>2. Declaring = General BY <1>2 DEF Declaring
  <2>3. Done = Below(General, declared) /\ Done' = Below(General, declared + 1) BY <1>2 DEF Done
  <2>4. Len(General) \in Nat BY <2>1
  <2> HIDE DEF Below
  <2> QED BY <1>1, <2>1, <2>2, <2>3, <2>4
<1>3. CASE cliPhase = "own" /\ tool \in DOMAIN Tools
  <2> DEFINE own == Tools[tool].own
             s == General \o own
             n == Len(General) + declared
  <2>1. own \in Seq(Declarations) /\ NoneShared(s) /\ General \in Seq(Declarations)
        BY <1>3, CliAssumption
  <2>2. Declaring = own BY <1>3 DEF Declaring
  <2>3. Done = Below(s, n) /\ Done' = Below(s, Len(General) + (declared + 1)) BY <1>3 DEF Done, Own
  <2> HIDE DEF own
  <2>4. s \in Seq(Declarations) /\ n \in Nat /\ n < Len(s) /\ Len(own) \in Nat BY <2>1, <2>2
  <2>5. s[n + 1] = own[declared + 1] BY <2>1, <2>2
  <2>6. Len(General) + (declared + 1) = n + 1 BY <2>1
  <2> HIDE DEF Below, s, n
  <2>7. d = s[n + 1] BY <2>2, <2>5
  <2>8. d \in Declarations /\ Fresh(Below(s, n), d) /\ Below(s, n + 1) = Below(s, n) \cup {d}
        BY <1>1, <2>1, <2>4, <2>7 DEF s
  <2>9. Done' = Below(s, n + 1) BY <2>3, <2>6
  <2> QED BY <2>2, <2>3, <2>4, <2>8, <2>9
<1> QED BY <1>2, <1>3

LEMMA DeclareStep ==
    ASSUME CliInv, Declare
    PROVE  CliInv'
<1> SUFFICES ASSUME NEW d, d = Declaring[declared + 1], NEW D, D = Done
             PROVE  CliInv'
    OBVIOUS
<1> DEFINE long == Get(longs, d.long)
           short == Get(shorts, Offset(d.short))
<1>1. /\ cliPhase \in {"general", "own"} /\ declared < Len(Declaring)
      /\ declared' = declared + 1
      /\ UNCHANGED <<argv, tool, here, karg, equals, cliPhase, cached, got>>
      /\ longs' = Aliased(longs, d.long, long, short)
      /\ shorts' = Aliased(shorts, Offset(d.short), short, long)
      BY DEF Declare
<1>2. IF long = 0 /\ short = 0
      THEN cliErrors' = (cliErrors \/ d.required) /\ UNCHANGED <<opts, list, positionals>>
      ELSE IF long # 0 /\ short # 0
      THEN cliErrors' = TRUE /\ UNCHANGED <<opts, list, positionals>>
      ELSE CheckOption(IF long = 0 THEN short ELSE long, d.vals)
      BY DEF Declare
<1>3. /\ CliTyped /\ ListInv /\ LongsRight(D) /\ ShortsRight(D) /\ here = Len(argv) + 1
      /\ cached = <<0, 0>> /\ got = <<0, 0>>
      BY <1>1 DEF CliInv
<1>4. (~ cliErrors => SettledInv(D)) /\ (cliPhase = "own" => tool \in DOMAIN Tools)
      BY <1>1 DEF CliInv
<1>5. d \in Declarations /\ Fresh(D, d) /\ Done' = D \cup {d} /\ Len(Declaring) \in Nat
  <2>1. declared \in Nat BY <1>3 DEF CliTyped
  <2> QED BY <1>1, <1>4, <2>1, DoneStep
<1>6. /\ long = 0 \/ (long \in Given /\ Kind(long) = "long")
      /\ short = 0 \/ (short \in Given /\ Kind(short) = "short")
      /\ \A o \in Given : Names(d, o) <=> o = long \/ o = short
      /\ \A o \in Given : Names(d, o) => \A e \in D : ~ Names(e, o)
      BY <1>3, <1>5, NamesFound
<1> HIDE DEF long, short
<1>7. LongsRight(D \cup {d})' /\ ShortsRight(D \cup {d})'
  <2>1. LongsRight(D \cup {d})' BY <1>1, <1>3, <1>6, LongsAliased DEF long
  <2>2. ShortsRight(D \cup {d})' BY <1>1, <1>3, <1>6, ShortsAliased DEF short
  <2> QED BY <2>1, <2>2
<1>8. cliErrors \in BOOLEAN /\ d.required \in BOOLEAN BY <1>3, <1>5 DEF CliTyped, Declarations
<1>9. /\ \A i : Kind(i)' = Kind(i) /\ Given' = Given
      /\ \A o : Near(o)' <=> Near(o)
      BY <1>1 DEF Kind, Given, Passed, IsOption, Near
<1>10. ASSUME NEW o \in Given, NEW e PROVE Names(e, o)' <=> Names(e, o) BY <1>1 DEF Names
<1>11. /\ ListInv' /\ opts' \in [1 .. Len(argv) -> OptionRecords] /\ list' \in Seq(Nat)
       /\ positionals' \in Nat /\ cliErrors' \in BOOLEAN
       /\ ~ cliErrors' => SettledInv(D \cup {d})'
  <2>1. CASE long = 0 /\ short = 0
    <3>1. cliErrors' = (cliErrors \/ d.required) /\ UNCHANGED <<opts, list, positionals>>
          BY <1>2, <2>1
    <3>2. ListInv' BY <1>1, <1>3, <3>1, ListKept
    <3>3. cliErrors' \in BOOLEAN BY <3>1, Zenon
    <3>4. \A o \in Given : o # 0 BY <1>3, LineFacts DEF Given, Passed
    <3>5. \A o \in Given : ~ Names(d, o) BY <1>6, <2>1, <3>4
    <3>6. ~ cliErrors' => ~ cliErrors BY <3>1
    <3>7. ~ cliErrors' => SettledInv(D \cup {d})'
          BY <1>4, <1>9, <1>10, <3>1, <3>5, <3>6 DEF SettledInv
    <3> QED BY <1>3, <3>1, <3>2, <3>3, <3>7 DEF CliTyped
  <2>2. CASE long # 0 /\ short # 0
    <3>1. cliErrors' = TRUE /\ UNCHANGED <<opts, list, positionals>> BY <1>2, <2>2
    <3>2. ListInv' BY <1>1, <1>3, <3>1, ListKept
    <3> QED BY <1>3, <3>1, <3>2 DEF CliTyped
  <2>3. CASE (long = 0) # (short = 0)
    <3> DEFINE o == IF long = 0 THEN short ELSE long
    <3>1. o \in Given /\ CheckOption(o, d.vals) /\ \A p \in Given : Names(d, p) <=> p = o
      <4>1. \A p \in Given : p # 0 BY <1>3, LineFacts DEF Given, Passed
      <4>2. CASE long = 0 /\ short # 0 BY <1>2, <1>6, <4>1, <4>2
      <4>3. CASE long # 0 /\ short = 0 BY <1>2, <1>6, <4>1, <4>3
      <4> QED BY <2>3, <4>2, <4>3
    <3> HIDE DEF o
    <3>2. /\ ListInv' /\ opts' \in [1 .. Len(argv) -> OptionRecords] /\ list' \in Seq(Nat)
          /\ positionals' \in Nat /\ cliErrors' \in BOOLEAN
          /\ ~ cliErrors' =>
               /\ ~ cliErrors /\ opts'[o].accounted
               /\ \A p \in Given : p # o => opts'[p] = opts[p]
               /\ Near(o) /\ opts[o].val # 0 => (opts'[o].val = 0 <=> d.vals = "none")
          BY <1>1, <1>3, <3>1, CheckOptionRight
    <3>3. ASSUME ~ cliErrors', NEW p \in Given
          PROVE  /\ opts'[p].accounted <=> \E e \in D \cup {d} : Names(e, p)
                 /\ Near(p) => (opts'[p].val = 0
                                <=> \E e \in D \cup {d} : Names(e, p) /\ e.vals = "none")
      <4>1. SettledInv(D) BY <1>4, <3>2, <3>3
      <4>2. CASE p = o
        <5>1. Names(d, p) /\ \A e \in D : ~ Names(e, p) BY <1>6, <3>1, <4>2
        <5>2. Near(p) => opts[p].val # 0 BY <4>1, <5>1 DEF SettledInv
        <5> QED BY <3>2, <3>3, <4>2, <5>1, <5>2
      <4>3. CASE p # o
        <5>1. ~ Names(d, p) /\ opts'[p] = opts[p] BY <3>1, <3>2, <3>3, <4>3
        <5> QED BY <4>1, <5>1 DEF SettledInv
      <4> QED BY <4>2, <4>3
    <3>4. ~ cliErrors' => SettledInv(D \cup {d})' BY <1>9, <1>10, <3>3 DEF SettledInv
    <3> QED BY <3>2, <3>4
  <2> QED BY <2>1, <2>2, <2>3
<1>12. CliTyped' BY <1>1, <1>3, <1>11 DEF CliTyped
<1>13. declared' <= Len(Declaring')
  <2>1. Declaring' = Declaring BY <1>1 DEF Declaring
  <2>2. declared \in Nat BY <1>3 DEF CliTyped
  <2> QED BY <1>1, <1>5, <2>1, <2>2
<1> QED BY <1>1, <1>3, <1>4, <1>5, <1>7, <1>11, <1>12, <1>13 DEF CliInv

LEMMA DispatchStep ==
    ASSUME CliInv, Dispatch
    PROVE  CliInv'
<1>1. /\ cliPhase = "general" /\ declared = Len(General) /\ declared' = 0
      /\ UNCHANGED <<argv, here, tables, positionals, karg, equals, cached, got>>
      BY DEF Dispatch
<1>2. /\ CliTyped /\ ListInv /\ LongsRight(Done) /\ ShortsRight(Done) /\ here = Len(argv) + 1
      /\ (~ cliErrors => SettledInv(Done)) /\ cached = <<0, 0>> /\ got = <<0, 0>>
      BY <1>1 DEF CliInv
<1>3. \/ cliPhase' = "stop" /\ (cliErrors' = cliErrors \/ cliErrors' = TRUE)
      \/ cliPhase' = "own" /\ tool' \in DOMAIN Tools /\ cliErrors' = cliErrors
      BY DEF Dispatch, Fail
<1>4. CliTyped' BY <1>1, <1>2, <1>3 DEF CliTyped, tables
<1>5. CASE cliPhase' = "stop" BY <1>4, <1>5, Stops
<1>6. CASE cliPhase' = "own" /\ tool' \in DOMAIN Tools /\ cliErrors' = cliErrors
  <2> DEFINE own == Tools[tool'].own
  <2>1. General \in Seq(Declarations) /\ own \in Seq(Declarations) BY <1>6, CliAssumption
  <2>2. Own' = General \o own BY DEF Own
  <2>3. Declaring' = own BY <1>6 DEF Declaring
  <2>4. Done' = Done
    <3>1. Done' = {Own'[j] : j \in 1 .. Len(General) + 0} BY <1>1, <1>6 DEF Done
    <3>2. Done = {General[j] : j \in 1 .. Len(General)} BY <1>1 DEF Done
    <3> HIDE DEF own
    <3>3. \A j \in 1 .. Len(General) : Own'[j] = General[j] BY <2>1, <2>2
    <3>4. Len(General) + 0 = Len(General) BY <2>1
    <3> QED BY <3>1, <3>2, <3>3, <3>4
  <2> HIDE DEF own
  <2>5. declared' <= Len(Declaring') BY <1>1, <2>1, <2>3
  <2>6. /\ \A i : Kind(i)' = Kind(i) /\ IsOption(i)' = IsOption(i)
        /\ Passed' = Passed /\ Given' = Given /\ PassedTexts' = PassedTexts
        BY <1>1 DEF Kind, IsOption, Passed, Given, PassedTexts
  <2>7. \A o : Near(o)' <=> Near(o) BY <2>6 DEF Near
  <2>8. ListInv' BY <1>1, <1>2, ListKept DEF tables
  <2>9. LongsRight(Done)' /\ ShortsRight(Done)'
        BY <1>1, <1>2, <2>4, <2>6 DEF LongsRight, ShortsRight, tables
  <2>10. \A e, o : Names(e, o)' <=> Names(e, o) BY <1>1 DEF Names
  <2>11. ~ cliErrors' => SettledInv(Done)'
         BY <1>1, <1>2, <1>6, <2>4, <2>6, <2>7, <2>10 DEF SettledInv, tables
  <2> QED BY <1>1, <1>2, <1>4, <1>6, <2>5, <2>8, <2>9, <2>11 DEF CliInv
<1> QED BY <1>3, <1>5, <1>6

\* Two declarations of a tool's command that name one option are the same.
LEMMA DeclaredOnce ==
    ASSUME CliTyped, tool \in DOMAIN Tools, NEW o \in Given
    PROVE  LET all == ToSet(General) \cup ToSet(Tools[tool].own)
           IN  /\ all = {Own[j] : j \in 1 .. Len(General) + Len(Tools[tool].own)}
               /\ \A d, e \in all : Names(d, o) /\ Names(e, o) => d = e
<1> DEFINE own == Tools[tool].own
           all == ToSet(General) \cup ToSet(own)
           n   == Len(General) + Len(own)
<1>1. General \in Seq(Declarations) /\ own \in Seq(Declarations) /\ NoneShared(Own)
      BY CliAssumption DEF Own
<1>2. Own = General \o own BY DEF Own
<1> HIDE DEF own
<1>3. /\ Len(General) \in Nat /\ Len(own) \in Nat /\ DOMAIN Own = 1 .. n
      /\ DOMAIN General = 1 .. Len(General) /\ DOMAIN own = 1 .. Len(own)
      /\ \A j \in 1 .. Len(General) : Own[j] = General[j]
      /\ \A j \in 1 .. Len(own) : Own[Len(General) + j] = own[j]
      BY <1>1, <1>2
<1>4. all = {Own[j] : j \in 1 .. n}
  <2>1. ASSUME NEW j \in 1 .. n PROVE Own[j] \in all
    <3>1. CASE j <= Len(General)
      <4>1. j \in 1 .. Len(General) BY <1>3, <3>1
      <4> QED BY <1>3, <4>1 DEF ToSet
    <3>2. CASE j > Len(General)
      <4>1. j - Len(General) \in 1 .. Len(own) /\ Len(General) + (j - Len(General)) = j
            BY <1>3, <3>2
      <4>2. Own[j] = own[j - Len(General)] BY <1>3, <4>1
      <4> QED BY <1>3, <4>1, <4>2 DEF ToSet
    <3> QED BY <1>3, <3>1, <3>2
  <2>2. ASSUME NEW d \in all PROVE \E j \in 1 .. n : Own[j] = d
    <3>1. CASE d \in ToSet(General)
      <4>1. PICK j \in 1 .. Len(General) : General[j] = d BY <1>3, <3>1 DEF ToSet
      <4>2. j \in 1 .. n BY <1>3
      <4> QED BY <1>3, <4>1, <4>2
    <3>2. CASE d \in ToSet(own)
      <4>1. PICK j \in 1 .. Len(own) : own[j] = d BY <1>3, <3>2 DEF ToSet
      <4>2. Len(General) + j \in 1 .. n BY <1>3
      <4> QED BY <1>3, <4>1, <4>2
    <3> QED BY <3>1, <3>2
  <2> HIDE DEF all, n
  <2> QED BY <2>1, <2>2
<1>5. ASSUME NEW i \in 1 .. n, NEW j \in 1 .. n, Names(Own[i], o), Names(Own[j], o)
      PROVE  i = j
  <2>1. IsOption(o) /\ argv[o].name # NoName BY LineFacts DEF Given
  <2>2. CASE Kind(o) = "long"
    <3>1. argv[o].name = Own[i].long /\ argv[o].name = Own[j].long BY <1>5, <2>2 DEF Names, Kind
    <3> QED BY <1>1, <1>3, <2>1, <3>1 DEF NoneShared
  <2>3. CASE Kind(o) = "short"
    <3>1. /\ Offset(argv[o].name) = Offset(Own[i].short)
          /\ Offset(argv[o].name) = Offset(Own[j].short)
          BY <1>5, <2>3 DEF Names, Kind
    <3>2. Own[i].short # NoName BY <2>1, <3>1, OffsetNames
    <3>3. Offset(Own[i].short) = Offset(Own[j].short) BY <3>1
    <3> QED BY <1>1, <1>3, <3>2, <3>3 DEF NoneShared
  <2> QED BY <2>1, <2>2, <2>3 DEF IsOption
<1> HIDE DEF n
<1>6. \A d, e \in all : Names(d, o) /\ Names(e, o) => d = e BY <1>4, <1>5
<1> QED BY <1>4, <1>6 DEF n, own

\* The positionals that are left, when what nobody declared has given up its
\* values too, are the operands of the command line.
LEMMA BoundStep ==
    ASSUME CliInv, Bound
    PROVE  CliInv'
<1>1. /\ cliPhase = "own" /\ declared = Len(Declaring)
      /\ UNCHANGED <<argv, tool, here, longs, shorts, karg, equals, declared, cached, got>>
      BY DEF Bound
<1>2. /\ CliTyped /\ ListInv /\ here = Len(argv) + 1 /\ tool \in DOMAIN Tools
      /\ (~ cliErrors => SettledInv(Done)) /\ cached = <<0, 0>> /\ got = <<0, 0>>
      BY <1>1 DEF CliInv
<1>3. CASE Valid("help")
  <2>1. UNCHANGED <<list, opts, positionals, cliErrors>> /\ cliPhase' = "stop" BY <1>3 DEF Bound
  <2>2. CliTyped' BY <1>1, <1>2, <2>1 DEF CliTyped
  <2> QED BY <2>1, <2>2, Stops
<1>4. CASE ~ Valid("help")
  <2> DEFINE os == {o \in ToSet(list) : /\ ~ opts[o].accounted /\ ~ opts[o].positional
                                        /\ opts[o].val # 0 /\ opts[o].candidate}
             n == positionals + Cardinality(os)
             given == IF Valid("stdin") THEN 1 ELSE 0
  <2>1. /\ list' = SplitList(os) /\ opts' = SplitOpts(os, FALSE) /\ positionals' = n
        /\ cliErrors' = (cliErrors \/ n + given # Tools[tool].files)
        /\ cliPhase' = IF cliErrors' THEN "stop" ELSE "use"
        BY <1>4 DEF Bound
  <2> HIDE DEF given
  <2>2. ToSet(list) = Given \cup Positionals BY <1>2 DEF ToSet, ListInv, Members
  <2>3. \A o \in Given : OptionRight(o) /\ o \in Nat BY <1>2, PositionalsFinite DEF ListInv
  <2>4. os \in SUBSET Given BY <2>2 DEF Positionals
  <2>5. ASSUME NEW o \in os PROVE opts[o].val = o + 1
    <3>1. o \in Given /\ opts[o].val # 0 /\ opts[o].candidate BY <2>4
    <3> HIDE DEF os
    <3> QED BY <2>3, <3>1 DEF OptionRight
  <2>6. \A o \in Given : o \notin os => opts[o].accounted \/ opts[o].val = 0 \/ ~ opts[o].candidate
        BY <2>2, <2>3 DEF OptionRight
  <2>7. \A o \in os : ~ opts[o].accounted OBVIOUS
  <2> HIDE DEF os
  <2>8. /\ ListInv' /\ opts' \in [1 .. Len(argv) -> OptionRecords] /\ list' \in Seq(Nat)
        /\ positionals' \in Nat /\ Divided(os, FALSE)
        BY <1>1, <1>2, <2>1, <2>4, <2>5, SplitStep
  <2>9. cliErrors' \in BOOLEAN
    <3> HIDE DEF n
    <3> QED BY <2>1, Zenon
  <2>10. CliTyped' BY <1>1, <1>2, <2>8, <2>9 DEF CliTyped
  <2>11. CASE cliPhase' = "stop" BY <2>10, <2>11, Stops
  <2>12. CASE cliPhase' # "stop"
    <3>1. cliPhase' = "use" /\ ~ cliErrors BY <2>1, <2>12
    <3> DEFINE own == Tools[tool].own
               all == ToSet(General) \cup ToSet(own)
    <3>2. Done = {Own[j] : j \in 1 .. Len(General) + Len(own)} BY <1>1 DEF Done, Declaring
    <3>3. ASSUME NEW o \in Given
          PROVE  /\ opts[o].accounted <=> \E d \in all : Names(d, o)
                 /\ Near(o) => (opts[o].val = 0 <=> \E d \in all : Names(d, o) /\ d.vals = "none")
                 /\ \A d, e \in all : Names(d, o) /\ Names(e, o) => d = e
      <4>1. Done = all /\ \A d, e \in all : Names(d, o) /\ Names(e, o) => d = e
            BY <1>2, <3>2, DeclaredOnce
      <4>2. SettledInv(Done) BY <1>2, <3>1
      <4> HIDE DEF all
      <4> QED BY <4>1, <4>2 DEF SettledInv
    <3>4. ASSUME NEW o \in Given PROVE Takes(o) <=> \E d \in all : d.vals # "none" /\ Names(d, o)
          BY DEF Takes
    <3> HIDE DEF all, own
    <3>5. ASSUME NEW o \in Given, Near(o) PROVE opts'[o].val = 0 <=> ~ Takes(o)
      <4>1. CASE o \in os
        <5>1. opts'[o].val = 0 BY <2>8, <4>1 DEF Divided
        <5>2. ~ Takes(o) BY <2>7, <3>3, <3>4, <4>1
        <5> QED BY <5>1, <5>2
      <4>2. CASE o \notin os
        <5>1. opts'[o] = opts[o] BY <2>8, <4>2 DEF Divided
        <5>2. ~ Far(o) BY <3>5 DEF Near, Far
        <5>3. opts[o].val = 0 \/ opts[o].val = o + 1 BY <2>3, <5>2 DEF OptionRight
        <5>4. CASE opts[o].val = 0 BY <3>3, <3>4, <3>5, <5>1, <5>4
        <5>5. CASE opts[o].val # 0
          <6>1. opts[o].candidate BY <2>3, <5>3, <5>5 DEF OptionRight
          <6>2. opts[o].accounted BY <2>6, <4>2, <5>5, <6>1
          <6>3. Takes(o) BY <3>3, <3>4, <3>5, <5>5, <6>2
          <6> QED BY <5>1, <5>5, <6>3
        <5> QED BY <5>4, <5>5
      <4> QED BY <4>1, <4>2
    <3>6. /\ \A i : Kind(i)' = Kind(i) /\ IsOption(i)' = IsOption(i)
          /\ PassedTexts' = PassedTexts /\ Passed = DOMAIN argv /\ Operands' = Operands
      <4>1. /\ \A i : Kind(i)' = Kind(i) /\ IsOption(i)' = IsOption(i)
            /\ PassedTexts' = PassedTexts
            BY <1>1 DEF Kind, IsOption, PassedTexts, Passed
      <4>2. Passed = DOMAIN argv
        <5>1. Len(argv) \in Nat /\ DOMAIN argv = 1 .. Len(argv) BY <1>2, LineFacts
        <5> QED BY <1>2, <5>1 DEF Passed
      <4>3. Operands' = Operands BY <1>1 DEF Operands, IsOperand, Takes, Names
      <4> QED BY <4>1, <4>2, <4>3
    <3>7. Positionals' = Operands
      <4> SUFFICES ASSUME NEW i \in PassedTexts
                   PROVE  opts'[i].positional <=> IsOperand(i)
          BY <3>6 DEF Positionals, Operands, PassedTexts, IsOperand, Kind
      <4>1. opts'[i].positional
                <=> (i > 1 => Kind(i - 1) # "eq" /\ (IsOption(i - 1) => opts'[i - 1].val = 0))
            BY <2>8, <3>6 DEF ListInv, TextsRight
      <4>2. IsOperand(i)
                <=> (i > 1 => Kind(i - 1) # "eq" /\ (IsOption(i - 1) => ~ Takes(i - 1)))
            BY DEF IsOperand, IsOption, Kind, PassedTexts
      <4>3. i \in Passed /\ i \in Nat /\ Kind(i) = "text" BY <1>2, LineFacts DEF PassedTexts
      <4>4. ASSUME i > 1, IsOption(i - 1) PROVE opts'[i - 1].val = 0 <=> ~ Takes(i - 1)
        <5>1. i - 1 \in Passed /\ (i - 1) + 1 = i
          <6>1. here \in Nat BY <1>2, LineFacts
          <6> QED BY <4>3, <4>4, <6>1 DEF Passed
        <5>2. i - 1 \in Given /\ Near(i - 1) BY <4>3, <4>4, <5>1 DEF Given, Near
        <5> QED BY <3>5, <5>2
      <4> QED BY <4>1, <4>2, <4>4
    <3>8. FoundInv' BY <1>1, <1>2 DEF FoundInv
    <3>9. here' = Len(argv') + 1 /\ tool' \in DOMAIN Tools BY <1>1, <1>2
    <3> QED BY <2>8, <2>10, <3>1, <3>6, <3>7, <3>8, <3>9 DEF CliInv
  <2> QED BY <2>11, <2>12
<1> QED BY <1>3, <1>4

-----------------------------------------------------------------------------
(* The number-th positional is found on the chain.                            *)

PlacesFrom(s, from, S) == {x \in from .. Len(s) : s[x] \in S}

\* A scan for the member p of S from the first place on which there is no
\* member less than c; p has k lesser members, c has i.
Scan(s, S, c, from, p, k, i) ==
    /\ s \in Seq(Nat) /\ Ascends(s) /\ S \in SUBSET Members(s) /\ IsFiniteSet(S)
    /\ c \in Nat /\ from \in Nat \ {0} /\ \A x \in DOMAIN s : from <= x <=> c <= s[x]
    /\ p \in S /\ c <= p
    /\ k \in Nat /\ Cardinality(Under(S, p)) = k
    /\ i \in Nat /\ Cardinality(Under(S, c)) = i

\* Among the places of an ascending sequence from there on, that of p has as
\* many lesser ones as there are members of S from c to p.
LEMMA ScanRight ==
    ASSUME NEW s, NEW S, NEW c, NEW from, NEW p, NEW k, NEW i, Scan(s, S, c, from, p, k, i)
    PROVE  \E q \in DOMAIN s : q # 0 /\ s[q] = p /\ Nth(PlacesFrom(s, from, S), k - i) = q
<1> SUFFICES ASSUME s \in Seq(Nat), Ascends(s), S \in SUBSET Members(s), IsFiniteSet(S),
                    c \in Nat, from \in Nat \ {0}, \A x \in DOMAIN s : from <= x <=> c <= s[x],
                    p \in S, c <= p, k \in Nat, Cardinality(Under(S, p)) = k,
                    i \in Nat, Cardinality(Under(S, c)) = i
             PROVE  \E q \in DOMAIN s : q # 0 /\ s[q] = p /\ Nth(PlacesFrom(s, from, S), k - i) = q
    BY DEF Scan
<1> DEFINE L == PlacesFrom(s, from, S)
           M == {y \in S : c <= y /\ y < p}
<1>1. /\ Len(s) \in Nat /\ DOMAIN s = 1 .. Len(s) /\ \A x \in DOMAIN s : s[x] \in Nat /\ x \in Nat
      OBVIOUS
<1>2. S \in SUBSET Nat /\ \A y \in S : \E x \in DOMAIN s : s[x] = y BY <1>1 DEF Members
<1>3. PICK q \in DOMAIN s : s[q] = p BY <1>2
<1>4. \A x, y \in DOMAIN s : x < y <=> s[x] < s[y]
  <2>1. \A x, y \in DOMAIN s : x < y => s[x] < s[y] BY DEF Ascends
  <2> SUFFICES ASSUME NEW x \in DOMAIN s, NEW y \in DOMAIN s, s[x] < s[y] PROVE x < y BY <2>1
  <2>2. x \in Nat /\ y \in Nat /\ s[x] \in Nat /\ s[y] \in Nat BY <1>1
  <2>3. ~ y < x BY <2>1, <2>2
  <2>4. x # y BY <2>2
  <2> QED BY <2>2, <2>3, <2>4
<1>5. q \in L /\ L \in SUBSET Nat /\ IsFiniteSet(L) /\ \A x \in L : x \in DOMAIN s
  <2>1. from <= q BY <1>3
  <2>2. q \in L BY <1>1, <1>3, <2>1 DEF PlacesFrom
  <2>3. \A x \in from .. Len(s) : x \in Nat /\ x \in DOMAIN s BY <1>1
  <2>4. from \in Int /\ Len(s) \in Int BY <1>1
  <2>5. IsFiniteSet(from .. Len(s)) BY <2>4, FS_Interval
  <2>6. L \in SUBSET (from .. Len(s)) BY DEF PlacesFrom
  <2> QED BY <2>2, <2>3, <2>5, <2>6, FS_Subset
<1>6. \A x : x \in Under(L, q) <=> x \in DOMAIN s /\ s[x] \in M
  <2>1. \A x \in DOMAIN s : x \in L <=> c <= s[x] /\ s[x] \in S BY <1>1 DEF PlacesFrom
  <2>2. \A x \in DOMAIN s : x < q <=> s[x] < p BY <1>3, <1>4
  <2> HIDE DEF L
  <2> QED BY <1>5, <2>1, <2>2 DEF Under
<1>7. Cardinality(Under(L, q)) = Cardinality(M) /\ IsFiniteSet(M)
  <2> DEFINE A == Under(L, q)
             f == [x \in A |-> s[x]]
  <2>1. IsFiniteSet(A) BY <1>5, FS_Subset DEF Under
  <2>2. \A y \in M : \E x \in A : s[x] = y BY <1>2, <1>6
  <2>3. \A x \in A : x \in DOMAIN s /\ s[x] \in M BY <1>6
  <2>4. \A x, y \in A : s[x] = s[y] => x = y
    <3> SUFFICES ASSUME NEW x \in A, NEW y \in A, s[x] = s[y] PROVE x = y OBVIOUS
    <3>1. x \in DOMAIN s /\ y \in DOMAIN s /\ x \in Nat /\ y \in Nat /\ s[x] \in Nat /\ s[y] \in Nat
          BY <1>1, <2>3
    <3>2. ~ s[x] < s[y] /\ ~ s[y] < s[x] BY <3>1
    <3>3. ~ x < y /\ ~ y < x BY <1>4, <3>1, <3>2
    <3> QED BY <3>1, <3>3
  <2> HIDE DEF A, M
  <2>5. f \in [A -> M] BY <2>3
  <2>6. f \in Injection(A, M)
    <3>1. DOMAIN f = A /\ \A x \in A : f[x] = s[x] OBVIOUS
    <3> HIDE DEF f
    <3>2. IsInjective(f) BY <2>4, <3>1 DEF IsInjective
    <3> QED BY <2>5, <3>2 DEF Injection
  <2>7. f \in Surjection(A, M)
    <3>1. \A x \in A : f[x] = s[x] OBVIOUS
    <3> HIDE DEF f
    <3> QED BY <2>2, <2>5, <3>1 DEF Surjection
  <2>8. ExistsBijection(A, M) BY <2>6, <2>7 DEF ExistsBijection, Bijection
  <2>9. Cardinality(M) = Cardinality(A) /\ IsFiniteSet(M) BY <2>1, <2>8, FS_Bijection
  <2> QED BY <2>9 DEF A
<1>8. Cardinality(Under(S, p)) = Cardinality(Under(S, c)) + Cardinality(M)
  <2>1. p \in Nat /\ \A y \in S : y \in Nat BY <1>2
  <2>2. \A y \in S : y < p <=> y < c \/ (c <= y /\ y < p) BY <2>1
  <2>3. Under(S, p) = Under(S, c) \cup M BY <2>2 DEF Under
  <2>4. Under(S, c) \cap M = {}
    <3>1. \A y \in S : ~ (y < c /\ c <= y) BY <2>1
    <3>2. \A y \in Under(S, c) \cap M : y \in S /\ y < c /\ c <= y BY DEF Under
    <3> HIDE DEF M
    <3> QED BY <3>1, <3>2
  <2>5. IsFiniteSet(Under(S, c)) BY FS_Subset DEF Under
  <2> HIDE DEF M
  <2>6. Cardinality(Under(S, c) \cup M)
            = Cardinality(Under(S, c)) + Cardinality(M) - Cardinality({})
        BY <1>7, <2>4, <2>5, FS_Union
  <2>7. Cardinality(Under(S, c)) \in Nat /\ Cardinality(M) \in Nat /\ Cardinality({}) = 0
        BY <1>7, <2>5, FS_CardinalityType, FS_EmptySet
  <2> QED BY <2>3, <2>6, <2>7
<1> DEFINE n == k - i
<1>9. n \in Nat /\ Cardinality(Under(L, q)) = n
  <2>1. IsFiniteSet(Under(S, c)) BY FS_Subset DEF Under
  <2>2. Cardinality(Under(S, c)) \in Nat /\ Cardinality(M) \in Nat
        BY <1>7, <2>1, FS_CardinalityType
  <2> HIDE DEF M, L
  <2> QED BY <1>7, <1>8, <2>2
<1> HIDE DEF L, n
<1>10. Nth(L, n) = q BY <1>5, <1>9, NthRight
<1>11. q # 0 BY <1>1
<1> QED BY <1>3, <1>10, <1>11 DEF L, n

LEMMA IndexStep ==
    ASSUME CliInv, Index
    PROVE  CliInv'
<1>1. /\ cliPhase = "use"
      /\ UNCHANGED <<argv, tool, here, tables, positionals, karg, equals, cliPhase, cliErrors,
                     declared>>
      BY DEF Index
<1>2. /\ CliTyped /\ ListInv /\ here = Len(argv) + 1 /\ tool \in DOMAIN Tools
      /\ FoundInv /\ Positionals = Operands
      BY <1>1 DEF CliInv
<1>3. /\ Positionals \in SUBSET (1 .. Len(argv)) /\ Positionals \in SUBSET Nat
      /\ IsFiniteSet(Positionals) /\ positionals = Cardinality(Positionals)
      /\ Len(argv) \in Nat /\ list \in Seq(Nat) /\ Ascends(list)
      /\ Positionals \in SUBSET Members(list)
      BY <1>2, PositionalsFinite, LineFacts DEF ListInv, CliTyped
<1>4. {x \in DOMAIN list : opts[list[x]].positional} = {x \in DOMAIN list : list[x] \in Positionals}
  <2>1. \A x \in DOMAIN list : list[x] \in Given \cup Positionals BY <1>2 DEF ListInv, Members
  <2>2. \A o \in Given : ~ opts[o].positional BY <1>2 DEF ListInv, OptionRight
  <2>3. \A o \in Positionals : opts[o].positional BY DEF Positionals
  <2> QED BY <2>1, <2>2, <2>3
<1>5. ASSUME NEW k \in Nat, k < positionals,
             NEW o \in Nat, NEW c \in Nat,
             o = 0 => c = 0,
             o # 0 => o \in Positionals /\ c = Cardinality(Under(Positionals, o)) /\ c <= k
      PROVE  /\ ScannedBy(o, c, k) \in Positionals
             /\ Cardinality(Under(Positionals, ScannedBy(o, c, k))) = k
             /\ ScannedBy(o, c, k) = Nth(Positionals, k)
  <2> DEFINE from == IF o = 0 THEN 1 ELSE CHOOSE p \in DOMAIN list : list[p] = o
  <2>1. PICK p \in Positionals : Cardinality(Under(Positionals, p)) = k
        BY <1>3, <1>5, UnderExists
  <2>2. Nth(Positionals, k) = p BY <1>3, <2>1, NthRight
  <2>3. Cardinality(Under(Positionals, o)) = c
    <3>1. CASE o = 0
      <4>1. \A y \in Positionals : ~ y < 0 BY <1>3
      <4>2. Under(Positionals, o) = {} BY <3>1, <4>1 DEF Under
      <4> QED BY <1>5, <3>1, <4>2, FS_EmptySet
    <3>2. CASE o # 0 BY <1>5, <3>2
    <3> QED BY <3>1, <3>2
  <2>4. o <= p
    <3>1. p \in Nat BY <1>3
    <3>2. CASE o = 0 BY <3>1, <3>2
    <3>3. CASE o # 0
      <4>1. o \in Positionals /\ c <= k BY <1>5, <3>3
      <4>2. p < o => Cardinality(Under(Positionals, p)) < Cardinality(Under(Positionals, o))
            BY <1>3, <4>1, UnderCounted
      <4> QED BY <1>5, <2>1, <2>3, <3>1, <4>1, <4>2
    <3> QED BY <3>2, <3>3
  <2>5. from \in Nat \ {0} /\ from \in Nat /\ \A x \in DOMAIN list : from <= x <=> o <= list[x]
    <3>1. DOMAIN list = 1 .. Len(list) /\ Len(list) \in Nat /\ \A x \in DOMAIN list : list[x] \in Nat
          BY <1>3
    <3>2. CASE o = 0 BY <3>1, <3>2
    <3>3. CASE o # 0
      <4>1. \E x \in DOMAIN list : list[x] = o BY <1>3, <1>5, <3>3 DEF Members
      <4>2. from \in DOMAIN list /\ list[from] = o BY <3>3, <4>1
      <4> HIDE DEF from
      <4>3. ASSUME NEW x \in DOMAIN list PROVE from <= x <=> o <= list[x]
        <5>1. x < from => list[x] < o BY <1>3, <4>2 DEF Ascends
        <5>2. from < x => o < list[x] BY <1>3, <4>2 DEF Ascends
        <5>3. from = x => o = list[x] BY <4>2
        <5>4. x \in Nat /\ from \in Nat /\ list[x] \in Nat BY <3>1, <4>2
        <5> QED BY <5>1, <5>2, <5>3, <5>4
      <4>4. from \in Nat \ {0} BY <3>1, <4>2
      <4> QED BY <4>3, <4>4
    <3> QED BY <3>2, <3>3
  <2>6. ScannedBy(o, c, k)
            = LET at == Nth({x \in from .. Len(list) : opts[list[x]].positional}, k - c)
              IN  IF at = 0 THEN 0 ELSE list[at]
        BY DEF ScannedBy
  <2> HIDE DEF from
  <2>7. {x \in from .. Len(list) : opts[list[x]].positional}
            = PlacesFrom(list, from, Positionals)
    <3>1. \A x \in from .. Len(list) : x \in DOMAIN list BY <1>3, <2>5
    <3> QED BY <1>4, <3>1 DEF PlacesFrom
  <2>8. Scan(list, Positionals, o, from, p, k, c)
        BY <1>3, <1>5, <2>1, <2>3, <2>4, <2>5 DEF Scan
  <2>9. PICK q \in DOMAIN list :
            q # 0 /\ list[q] = p /\ Nth(PlacesFrom(list, from, Positionals), k - c) = q
        BY <2>8, ScanRight
  <2>10. ScannedBy(o, c, k) = p BY <2>6, <2>7, <2>9
  <2> QED BY <2>1, <2>2, <2>10
<1>6. PICK k \in 0 .. MaxOffset :
          LET near == cached[2] # 0 /\ k >= cached[1]
              o == IF k >= positionals THEN 0
                   ELSE IF near THEN ScannedBy(cached[2], cached[1], k) ELSE ScannedBy(0, 0, k)
          IN  got' = <<k, o>> /\ cached' = IF o = 0 THEN cached ELSE <<k, o>>
      BY DEF Index
<1>7. k \in Nat /\ positionals \in Nat
  <2>1. MaxOffset \in Nat BY CliAssumption
  <2> QED BY <1>2, <2>1 DEF CliTyped
<1> DEFINE o == IF k >= positionals THEN 0
                ELSE IF cached[2] # 0 /\ k >= cached[1] THEN ScannedBy(cached[2], cached[1], k)
                ELSE ScannedBy(0, 0, k)
<1>8. got' = <<k, o>> /\ cached' = IF o = 0 THEN cached ELSE <<k, o>> BY <1>6
<1>9. /\ o = Nth(Positionals, k)
      /\ o # 0 => o \in Positionals /\ Cardinality(Under(Positionals, o)) = k
  <2>1. CASE k >= positionals
    <3>1. o = 0 /\ Nth(Positionals, k) = 0 BY <1>3, <1>7, <2>1, NthRight
    <3> QED BY <3>1
  <2>2. CASE k < positionals /\ cached[2] # 0 /\ k >= cached[1]
    <3>1. /\ cached[1] \in Nat /\ cached[2] \in Positionals
          /\ Cardinality(Under(Positionals, cached[2])) = cached[1]
          BY <1>2, <2>2 DEF FoundInv
    <3>2. cached[2] \in Nat /\ cached[1] <= k BY <1>3, <1>7, <2>2, <3>1
    <3>3. o = ScannedBy(cached[2], cached[1], k) BY <1>7, <2>2
    <3> HIDE DEF o
    <3> QED BY <1>5, <1>7, <2>2, <3>1, <3>2, <3>3
  <2>3. CASE k < positionals /\ ~ (cached[2] # 0 /\ k >= cached[1])
    <3>1. o = ScannedBy(0, 0, k) BY <1>7, <2>3
    <3> HIDE DEF o
    <3> QED BY <1>5, <1>7, <2>3, <3>1
  <2> QED BY <1>7, <2>1, <2>2, <2>3
<1> HIDE DEF o
<1>10. /\ Positionals' = Positionals /\ Operands' = Operands
       /\ \A n, m : Nth(Positionals, n)' = Nth(Positionals, n)
  <2>1. Positionals' = Positionals BY <1>1 DEF Positionals, PassedTexts, Passed, Kind, tables
  <2>2. Operands' = Operands BY <1>1 DEF Operands, IsOperand, Takes, Names
  <2> QED BY <2>1, <2>2 DEF Nth
<1>11. FoundInv'
  <2>1. got'[1] = k /\ got'[2] = o BY <1>8
  <2>2. cached' = <<0, 0>> \/ (cached'[1] \in Nat /\ cached'[2] \in Positionals
                             /\ Cardinality(Under(Positionals, cached'[2])) = cached'[1])
    <3>1. CASE o = 0 BY <1>2, <1>8, <3>1 DEF FoundInv
    <3>2. CASE o # 0
      <4>1. cached' = <<k, o>> BY <1>8, <3>2
      <4> QED BY <1>7, <1>9, <3>2, <4>1
    <3> QED BY <3>1, <3>2
  <2>3. got'[2] = Nth(Positionals, got'[1]) BY <1>9, <2>1
  <2> QED BY <1>10, <2>2, <2>3 DEF FoundInv, Under, Nth
<1>12. CliTyped' BY <1>1, <1>2 DEF CliTyped, tables
<1>13. ListInv' BY <1>1, <1>2, ListKept DEF tables
<1> QED BY <1>1, <1>2, <1>10, <1>11, <1>12, <1>13 DEF CliInv

-----------------------------------------------------------------------------
(* The invariant holds, and what it says of the last phase is the property.   *)

LEMMA CliBegins ==
    ASSUME CliInit
    PROVE  CliInv
<1>1. /\ argv \in CommandLines /\ here = 1 /\ karg = 0 /\ equals = FALSE
      /\ opts = [i \in 1 .. Len(argv) |-> Option(0, FALSE)] /\ list = <<>>
      /\ longs = {} /\ shorts = {} /\ cliPhase = "parse" /\ cliErrors = FALSE
      /\ declared = 0 /\ positionals = 0 /\ cached = <<0, 0>> /\ got = <<0, 0>>
      BY DEF CliInit
<1>2. Len(argv) \in Nat
  <2>1. argv \in Seq(Lexemes) BY <1>1, CliAssumption
  <2> QED BY <2>1
<1>3. CliTyped
  <2>1. opts \in [1 .. Len(argv) -> OptionRecords] BY <1>1, OptionTyped
  <2>2. here \in 1 .. Len(argv) + 1 BY <1>1, <1>2
  <2>3. equals \in BOOLEAN /\ cliErrors \in BOOLEAN BY <1>1, Zenon
  <2>4. argv \in CommandLines /\ list \in Seq(Nat) /\ karg \in Nat /\ declared \in Nat /\ positionals \in Nat
        BY <1>1
  <2> QED BY <2>1, <2>2, <2>3, <2>4 DEF CliTyped
<1>4. Passed = {} /\ Given = {} /\ PassedTexts = {} /\ Positionals = {}
      BY <1>1 DEF Passed, Given, PassedTexts, Positionals
<1>5. ListInv
  <2>1. Ascends(list) /\ Members(list) = {} BY <1>1 DEF Ascends, Members
  <2>2. Cardinality({}) = 0 BY FS_EmptySet
  <2> QED BY <1>1, <1>4, <2>1, <2>2 DEF ListInv, TextsRight
<1>6. ParserInv
  <2>1. \A i \in here .. Len(argv) : ~ opts[i].positional
    <3>1. \A i \in 1 .. Len(argv) : opts[i] = Option(0, FALSE) BY <1>1
    <3>2. ~ Option(0, FALSE).positional BY DEF Option
    <3> QED BY <1>1, <3>1, <3>2
  <2>2. karg = 0 /\ ~ here > 1 BY <1>1
  <2> QED BY <1>4, <2>1, <2>2 DEF ParserInv
<1>7. Done = {} BY <1>1 DEF Done
<1>8. LongsRight(Done) /\ ShortsRight(Done) /\ SettledInv(Done)
      BY <1>1, <1>4 DEF LongsRight, ShortsRight, SettledInv
<1> QED BY <1>1, <1>3, <1>5, <1>6, <1>8 DEF CliInv

LEMMA CliKept ==
    ASSUME CliInv, [CliNext]_cliVars
    PROVE  CliInv'
<1>1. CASE ParseLong \/ ParseShort \/ ParseBad \/ ParseEquals \/ ParseText \/ ParseEnd
      BY <1>1, ParseStep
<1>2. CASE Declare BY <1>2, DeclareStep
<1>3. CASE Dispatch BY <1>3, DispatchStep
<1>4. CASE Bound BY <1>4, BoundStep
<1>5. CASE Index BY <1>5, IndexStep
<1>6. CASE UNCHANGED cliVars
  <2>1. UNCHANGED <<argv, tool, here, opts, list, longs, shorts, karg, equals, cliPhase, cliErrors,
                    declared, positionals, cached, got>>
        BY <1>6 DEF cliVars
  <2>2. /\ \A i : Kind(i)' = Kind(i) /\ IsOption(i)' = IsOption(i)
        /\ Passed' = Passed /\ Given' = Given /\ PassedTexts' = PassedTexts
        /\ Positionals' = Positionals
        BY <2>1 DEF Kind, IsOption, Passed, Given, PassedTexts, Positionals
  <2>3. CliTyped' <=> CliTyped BY <2>1 DEF CliTyped
  <2>4. ParserInv' <=> ParserInv BY <2>1, <2>2 DEF ParserInv
  <2>5. CliTyped BY DEF CliInv
  <2>6. ListInv => ListInv' BY <2>1, <2>5, ListKept
  <2>7. Declaring' = Declaring /\ Done' = Done BY <2>1 DEF Declaring, Done, Own
  <2>8. Operands' = Operands BY <2>1 DEF Operands, IsOperand, Takes, Names
  <2>9. /\ LongsRight(Done)' <=> LongsRight(Done)
        /\ ShortsRight(Done)' <=> ShortsRight(Done)
        BY <2>1, <2>2, <2>7 DEF LongsRight, ShortsRight
  <2>10. SettledInv(Done)' <=> SettledInv(Done)
    <3>1. \A o : Near(o)' <=> Near(o) BY <2>2 DEF Near
    <3>2. \A d, o : Names(d, o)' <=> Names(d, o) BY <2>1 DEF Names
    <3> QED BY <2>1, <2>2, <2>7, <3>1, <3>2 DEF SettledInv
  <2>11. FoundInv' <=> FoundInv BY <2>1, <2>2 DEF FoundInv, Under, Nth
  <2> QED BY <2>1, <2>2, <2>3, <2>4, <2>6, <2>7, <2>8, <2>9, <2>10, <2>11 DEF CliInv
<1> QED BY <1>1, <1>2, <1>3, <1>4, <1>5, <1>6 DEF CliNext, CliStep, CliDone

\* The invariant of the command line: the chain has the options and the
\* positionals in the order of the arguments, the names lead to the options
\* that they stand for, each declared option has been settled once, and what
\* has been found by its number has that number (CommandLineOptions.cpp).
THEOREM CliInvariant == CliSpec => []CliInv
<1>1. CliInit => CliInv BY CliBegins
<1>2. CliInv /\ [CliNext]_cliVars => CliInv' BY CliKept
<1> QED BY <1>1, <1>2, PTL DEF CliSpec

\* Whatever the arguments and the declarations are, a tool that has got as far
\* as its files counts and finds the operands of the command line, from
\* whichever one it found before.
THEOREM OperandsAreRight == CliSpec => []OperandsRight
<1>1. CliInv => OperandsRight
  <2> SUFFICES ASSUME CliInv, cliPhase = "use"
               PROVE  /\ positionals = Cardinality(Operands)
                      /\ got = <<0, 0>> \/ got[2] = Nth(Operands, got[1])
      BY DEF OperandsRight
  <2>1. ListInv /\ FoundInv /\ Positionals = Operands BY DEF CliInv
  <2> QED BY <2>1 DEF ListInv, FoundInv
<1> QED BY <1>1, CliInvariant, PTL

=============================================================================
