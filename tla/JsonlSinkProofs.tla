--------------------------- MODULE JsonlSinkProofs ---------------------------
(***************************************************************************)
(* What the operations of JsonlSink do to its types and to the stream of a *)
(* key, the file followed by the buffer.  An operation keeps the stream or *)
(* adds a line at its end; one that fails, and a crash, also cuts the end  *)
(* off, never more of it than the buffer held.  How the rows in the file   *)
(* fare follows from that (LineInv).  Module RunnerProofs puts the         *)
(* operations together.                                                    *)
(***************************************************************************)
EXTENDS JsonlSink, FiniteSets, SequenceTheorems, FiniteSetTheorems, TLAPS

-----------------------------------------------------------------------------
(***************************************************************************)
(* Sequences                                                               *)
(***************************************************************************)

\* The concatenation of a sequence with two adjacent parts of another.
LEMMA CutJoin ==
    ASSUME NEW T, NEW f \in Seq(T), NEW t \in Seq(T),
           NEW p \in Nat, NEW q \in Nat, p <= q, q <= Len(t)
    PROVE  (f \o SubSeq(t, 1, p)) \o SubSeq(t, p + 1, q) = SubSeq(f \o t, 1, Len(f) + q)
<1>. DEFINE a == SubSeq(t, 1, p)
            b == SubSeq(t, p + 1, q)
            g == f \o a
            l == g \o b
            r == SubSeq(f \o t, 1, Len(f) + q)
<1>1. /\ a \in Seq(T) /\ Len(a) = p /\ \A i \in 1 .. p : a[i] = t[i]
      /\ b \in Seq(T) /\ Len(b) = q - p /\ \A i \in 1 .. q - p : b[i] = t[p + i]
  OBVIOUS
<1>2. /\ r \in Seq(T) /\ Len(r) = Len(f) + q
      /\ \A i \in 1 .. Len(f) + q : r[i] = (f \o t)[i]
  OBVIOUS
<1>3. \A i \in 1 .. Len(f) + q : r[i] = IF i <= Len(f) THEN f[i] ELSE t[i - Len(f)]
  BY <1>2
<1>. HIDE DEF a, b
<1>4. /\ g \in Seq(T) /\ Len(g) = Len(f) + p
      /\ \A i \in 1 .. Len(f) + p : g[i] = IF i <= Len(f) THEN f[i] ELSE a[i - Len(f)]
  BY <1>1, ConcatProperties
<1>. HIDE DEF g
<1>5. Len(f) \in Nat
  OBVIOUS
<1>6. /\ l \in Seq(T) /\ Len(l) = Len(f) + q
      /\ \A i \in 1 .. Len(f) + q :
            l[i] = IF i <= Len(f) + p THEN g[i] ELSE b[i - (Len(f) + p)]
  <2>1. /\ l \in Seq(T) /\ Len(l) = Len(g) + Len(b)
        /\ \A i \in 1 .. Len(g) + Len(b) :
              l[i] = IF i <= Len(g) THEN g[i] ELSE b[i - Len(g)]
    <3>1. g \in Seq(T) /\ b \in Seq(T)
      BY <1>1, <1>4
    <3>. QED  BY <3>1, ConcatProperties
  <2>2. Len(g) + Len(b) = Len(f) + q
    BY <1>1, <1>4, <1>5
  <2>. QED  BY <1>4, <2>1, <2>2
<1>. HIDE DEF l, r
<1>7. ASSUME NEW i \in 1 .. Len(f) + q
      PROVE  l[i] = r[i]
  <2>1. CASE i <= Len(f)
    <3>1. i \in 1 .. Len(f) + p /\ i <= Len(f) + p
      BY <1>5, <2>1
    <3>. QED  BY <1>3, <1>4, <1>6, <2>1, <3>1
  <2>2. CASE i > Len(f) /\ i <= Len(f) + p
    <3>1. i - Len(f) \in 1 .. p /\ i \in 1 .. Len(f) + p
      BY <1>5, <2>2
    <3>. QED  BY <1>1, <1>3, <1>4, <1>6, <2>2, <3>1
  <2>3. CASE i > Len(f) + p
    <3>1. i - (Len(f) + p) \in 1 .. q - p /\ p + (i - (Len(f) + p)) = i - Len(f)
      BY <1>5, <2>3
    <3>2. ~(i <= Len(f) + p) /\ ~(i <= Len(f))
      BY <1>5, <2>3
    <3>. QED  BY <1>1, <1>3, <1>6, <3>1, <3>2
  <2>. QED  BY <1>5, <2>1, <2>2, <2>3
<1>8. l = r
  BY <1>2, <1>6, <1>7, SeqEqual
<1>. QED  BY <1>8 DEF l, r, g, a, b

\* A prefix.
LEMMA Prefix ==
    ASSUME NEW T, NEW s \in Seq(T), NEW m \in 0 .. Len(s)
    PROVE  /\ SubSeq(s, 1, m) \in Seq(T) /\ Len(SubSeq(s, 1, m)) = m
           /\ \A i \in 1 .. m : SubSeq(s, 1, m)[i] = s[i]
OBVIOUS

LEMMA Within == \A a, b, l \in Nat : l <= b => a + l \in a .. (a + b)
OBVIOUS

-----------------------------------------------------------------------------
(***************************************************************************)
(* The operations                                                          *)
(***************************************************************************)
Kept(k) ==
    Stream(k)' = Stream(k) /\ written'[k] = written[k] /\ hit'[k] = hit[k]

Cut(k) ==
    /\ \E m \in Len(file[k]) .. Len(Stream(k)) : Stream(k)' = SubSeq(Stream(k), 1, m)
    /\ written'[k] = written[k]
    /\ hit'[k] = hit[k] \cup RowsIn(pending[k])

Lengthened(k) ==
    /\ Stream(k)' = Stream(k) \o Line(written[k] + 1)
    /\ written'[k] = written[k] + 1
    /\ hit'[k] = hit[k]

LengthenedAndCut(k) ==
    LET longer == Stream(k) \o Line(written[k] + 1)
    IN  /\ \E m \in Len(file[k]) .. Len(longer) : Stream(k)' = SubSeq(longer, 1, m)
        /\ written'[k] = written[k] + 1
        /\ hit'[k] = hit[k] \cup RowsIn(pending[k]) \cup {written[k] + 1}

LEMMA TokenFacts ==
    ASSUME NEW n \in Nat
    PROVE  /\ Line(n) \in Seq(Token) /\ Len(Line(n)) = 3
           /\ Line(n)[1] = <<n, 1>> /\ Line(n)[2] = <<n, 2>> /\ Line(n)[3] = <<n, Newline>>
BY DEF Line, Token, Newline

LEMMA TokenRow == \A t \in Token : t[1] \in Nat /\ t[2] \in 1 .. 3
BY DEF Token

LEMMA RowsInType ==
    ASSUME NEW s \in Seq(Token)
    PROVE  RowsIn(s) \subseteq Nat
BY TokenRow, ElementOfSeq DEF RowsIn

\* What Move does to the streams.
LEMMA MoveFacts ==
    ASSUME file \in [Keys -> Seq(Token)], NEW tokens \in [Keys -> Seq(Token)],
           NEW passed \in [Keys -> Nat], NEW kept \in [Keys -> Nat],
           \A k \in Keys : passed[k] <= kept[k] /\ kept[k] <= Len(tokens[k]),
           Move(tokens, passed, kept)
    PROVE  /\ file' \in [Keys -> Seq(Token)] /\ pending' \in [Keys -> Seq(Token)]
           /\ \A k \in Keys :
                 /\ Stream(k)' = SubSeq(file[k] \o tokens[k], 1, Len(file[k]) + kept[k])
                 /\ kept[k] = Len(tokens[k]) => Stream(k)' = file[k] \o tokens[k]
                 /\ passed[k] = kept[k] => pending'[k] = <<>>
                 /\ tokens[k] = <<>> => pending'[k] = <<>>
<1>. DEFINE S == Token
<1>. HIDE DEF S
<1>1. /\ file \in [Keys -> Seq(S)] /\ tokens \in [Keys -> Seq(S)]
      /\ file' = [k \in Keys |-> file[k] \o SubSeq(tokens[k], 1, passed[k])]
      /\ pending' = [k \in Keys |-> SubSeq(tokens[k], passed[k] + 1, kept[k])]
  BY DEF Move, S
<1>2. ASSUME NEW k \in Keys
      PROVE  /\ file'[k] \in Seq(S) /\ pending'[k] \in Seq(S)
             /\ Stream(k)' = SubSeq(file[k] \o tokens[k], 1, Len(file[k]) + kept[k])
             /\ kept[k] = Len(tokens[k]) => Stream(k)' = file[k] \o tokens[k]
             /\ passed[k] = kept[k] => pending'[k] = <<>>
             /\ tokens[k] = <<>> => pending'[k] = <<>>
  <2>1. /\ file[k] \in Seq(S) /\ tokens[k] \in Seq(S)
        /\ passed[k] \in Nat /\ kept[k] \in Nat
        /\ passed[k] <= kept[k] /\ kept[k] <= Len(tokens[k])
    BY <1>1
  <2>2. /\ file'[k] = file[k] \o SubSeq(tokens[k], 1, passed[k])
        /\ pending'[k] = SubSeq(tokens[k], passed[k] + 1, kept[k])
    BY <1>1
  <2>3. Stream(k)' = SubSeq(file[k] \o tokens[k], 1, Len(file[k]) + kept[k])
    <3>1. Stream(k)' = (file[k] \o SubSeq(tokens[k], 1, passed[k]))
                          \o SubSeq(tokens[k], passed[k] + 1, kept[k])
      BY <2>2 DEF Stream
    <3>2. (file[k] \o SubSeq(tokens[k], 1, passed[k]))
             \o SubSeq(tokens[k], passed[k] + 1, kept[k])
          = SubSeq(file[k] \o tokens[k], 1, Len(file[k]) + kept[k])
      BY <2>1, CutJoin
    <3>. QED  BY <3>1, <3>2
  <2>4. kept[k] = Len(tokens[k]) => Stream(k)' = file[k] \o tokens[k]
    <3>1. /\ file[k] \o tokens[k] \in Seq(S)
          /\ Len(file[k] \o tokens[k]) = Len(file[k]) + Len(tokens[k])
      BY <2>1, ConcatProperties
    <3>. QED  BY <2>3, <3>1, SubSeqFull
  <2>5. passed[k] = kept[k] \/ tokens[k] = <<>> => pending'[k] = <<>>
    <3>1. CASE passed[k] = kept[k]
      BY <2>1, <2>2, <3>1, SubSeqEmpty
    <3>2. CASE tokens[k] = <<>>
      <4>1. Len(tokens[k]) = 0
        BY <3>2
      <4>2. kept[k] < passed[k] + 1
        BY <2>1, <4>1
      <4>. QED  BY <2>1, <2>2, <4>2, SubSeqEmpty
    <3>. QED  BY <3>1, <3>2
  <2>6. file'[k] \in Seq(S) /\ pending'[k] \in Seq(S)
    BY <2>1, <2>2
  <2>. QED  BY <2>3, <2>4, <2>5, <2>6
<1>3. file' \in [Keys -> Seq(S)] /\ pending' \in [Keys -> Seq(S)]
  BY <1>1, <1>2
<1>. QED  BY <1>2, <1>3 DEF S

LEMMA OpenFacts ==
    ASSUME SinkTypeOK, NEW k \in Keys, Open(k)
    PROVE  /\ handles' \in Seq(Keys) /\ k \in ToSet(handles')
           /\ ToSet(handles) \subseteq ToSet(handles')
           /\ written' \in [Keys -> Nat] /\ written'[k] = written[k] + 1
           /\ \A j \in Keys \ {k} : written'[j] = written[j]
           /\ \A j \in Keys : written'[j] <= MaxRows[j]
<1>1. /\ handles \in Seq(Keys) /\ written \in [Keys -> Nat]
      /\ \A j \in Keys : written[j] <= MaxRows[j]
      /\ MaxRows \in [Keys -> Nat]
  BY RowsAssumption DEF SinkTypeOK
<1>2. /\ written[k] < MaxRows[k] /\ written' = [written EXCEPT ![k] = @ + 1]
      /\ handles' = IF k \in ToSet(handles) THEN handles ELSE Append(handles, k)
  BY DEF Open
<1>3. /\ written' \in [Keys -> Nat] /\ written'[k] = written[k] + 1
      /\ \A j \in Keys \ {k} : written'[j] = written[j]
      /\ \A j \in Keys : written'[j] <= MaxRows[j]
  BY <1>1, <1>2
<1>4. /\ handles' \in Seq(Keys) /\ k \in ToSet(handles')
      /\ ToSet(handles) \subseteq ToSet(handles')
  <2>1. CASE k \in ToSet(handles)
    BY <1>1, <1>2, <2>1
  <2>2. CASE k \notin ToSet(handles)
    <3>1. /\ handles' \in Seq(Keys) /\ Len(handles') = Len(handles) + 1
          /\ \A i \in 1 .. Len(handles) : handles'[i] = handles[i]
          /\ handles'[Len(handles) + 1] = k
          /\ DOMAIN handles = 1 .. Len(handles) /\ DOMAIN handles' = 1 .. Len(handles')
          /\ Len(handles) \in Nat
      BY <1>1, <1>2, <2>2
    <3>. QED  BY <3>1 DEF ToSet
  <2>. QED  BY <2>1, <2>2
<1>. QED  BY <1>3, <1>4

LEMMA NothingFacts ==
    /\ Nothing \in [Keys -> Nat] /\ \A j \in Keys : Nothing[j] = 0
BY DEF Nothing

LEMMA BufferedFacts ==
    ASSUME SinkTypeOK, NEW k \in Keys
    PROVE  /\ Buffered(k) \in [Keys -> Seq(Token)]
           /\ Buffered(k)[k] = pending[k] \o Line(written[k] + 1)
           /\ \A j \in Keys \ {k} : Buffered(k)[j] = pending[j]
           /\ file[k] \o Buffered(k)[k] = Stream(k) \o Line(written[k] + 1)
           /\ RowsIn(Buffered(k)[k]) = RowsIn(pending[k]) \cup {written[k] + 1}
<1>. DEFINE S == Token
            n == written[k] + 1
<1>1. /\ Line(n) \in Seq(S) /\ Len(Line(n)) = 3 /\ n \in Nat
      /\ Line(n)[1] = <<n, 1>> /\ Line(n)[2] = <<n, 2>> /\ Line(n)[3] = <<n, Newline>>
  BY TokenFacts DEF SinkTypeOK
<1>2. pending \in [Keys -> Seq(S)] /\ file[k] \in Seq(S) /\ pending[k] \in Seq(S)
  BY DEF SinkTypeOK
<1>. HIDE DEF S, n
<1>3. /\ pending[k] \o Line(n) \in Seq(S)
      /\ Len(pending[k] \o Line(n)) = Len(pending[k]) + 3
      /\ \A i \in 1 .. Len(pending[k]) + 3 : (pending[k] \o Line(n))[i] =
            IF i <= Len(pending[k]) THEN pending[k][i] ELSE Line(n)[i - Len(pending[k])]
      /\ Len(pending[k]) \in Nat
  <2>1. Line(n) \in Seq(S) /\ pending[k] \in Seq(S)
    BY <1>1, <1>2
  <2>2. /\ pending[k] \o Line(n) \in Seq(S)
        /\ Len(pending[k] \o Line(n)) = Len(pending[k]) + Len(Line(n))
        /\ \A i \in 1 .. Len(pending[k]) + Len(Line(n)) : (pending[k] \o Line(n))[i] =
              IF i <= Len(pending[k]) THEN pending[k][i] ELSE Line(n)[i - Len(pending[k])]
    BY <2>1, ConcatProperties
  <2>. QED  BY <1>1, <1>2, <2>2, LenProperties
<1>4. /\ Buffered(k) \in [Keys -> Seq(S)]
      /\ Buffered(k)[k] = pending[k] \o Line(n)
      /\ \A j \in Keys \ {k} : Buffered(k)[j] = pending[j]
  BY <1>2, <1>3 DEF Buffered, n
<1>5. file[k] \o Buffered(k)[k] = Stream(k) \o Line(n)
  <2>1. PICK f \in Seq(S), p \in Seq(S), l \in Seq(S) :
           f = file[k] /\ p = pending[k] /\ l = Line(n)
    BY <1>1, <1>2
  <2>2. f \o (p \o l) = (f \o p) \o l
    BY ConcatAssociative
  <2>. QED  BY <1>4, <2>1, <2>2 DEF Stream
<1>6. RowsIn(Buffered(k)[k]) = RowsIn(pending[k]) \cup {n}
  <2>. DEFINE b == Buffered(k)[k]
              p == Len(pending[k])
  <2>1. /\ b \in Seq(S) /\ DOMAIN b = 1 .. p + 3 /\ DOMAIN pending[k] = 1 .. p /\ p \in Nat
        /\ \A i \in 1 .. p : b[i] = pending[k][i]
        /\ b[p + 1] = <<n, 1>> /\ b[p + 2] = <<n, 2>> /\ b[p + 3] = <<n, Newline>>
    BY <1>1, <1>2, <1>3, <1>4
  <2>2. \A i \in 1 .. p + 3 : i \in 1 .. p \/ i = p + 1 \/ i = p + 2 \/ i = p + 3
    BY <2>1
  <2>. HIDE DEF b, p
  <2>3. RowsIn(b) = RowsIn(pending[k]) \cup {n}
    BY <2>1, <2>2 DEF RowsIn
  <2>. QED  BY <2>3 DEF b
<1>. QED  BY <1>4, <1>5, <1>6 DEF S, n

LEMMA StreamFacts ==
    ASSUME SinkTypeOK, NEW k \in Keys
    PROVE  /\ file[k] \in Seq(Token) /\ pending[k] \in Seq(Token)
           /\ Stream(k) \in Seq(Token)
           /\ Len(file[k]) \in Nat /\ Len(pending[k]) \in Nat
           /\ Len(Stream(k)) = Len(file[k]) + Len(pending[k])
           /\ \A i \in 1 .. Len(Stream(k)) : Stream(k)[i] =
                 IF i <= Len(file[k]) THEN file[k][i] ELSE pending[k][i - Len(file[k])]
<1>1. file[k] \in Seq(Token) /\ pending[k] \in Seq(Token)
  BY DEF SinkTypeOK
<1>. HIDE DEF Token
<1>2. /\ Stream(k) \in Seq(Token) /\ Len(Stream(k)) = Len(file[k]) + Len(pending[k])
      /\ \A i \in 1 .. Len(file[k]) + Len(pending[k]) : Stream(k)[i] =
            IF i <= Len(file[k]) THEN file[k][i] ELSE pending[k][i - Len(file[k])]
  BY <1>1, ConcatProperties DEF Stream
<1>. QED  BY <1>1, <1>2, LenProperties

\* A row is added: the handle of its key is open.
LEMMA WriteFacts ==
    ASSUME SinkTypeOK, NEW k \in Keys, Write(k)
    PROVE  /\ SinkTypeOK'
           /\ Lengthened(k) /\ \A j \in Keys \ {k} : Kept(j)
           /\ \A j \in Keys \ {k} : pending[j] = <<>> => pending'[j] = <<>>
<1>. DEFINE b == Buffered(k)
<1>1. PICK i \in 0 .. Len(b[k]) : Move(b, [Nothing EXCEPT ![k] = i], All(b))
  BY DEF Write
<1>2. /\ b \in [Keys -> Seq(Token)]
      /\ file[k] \o b[k] = Stream(k) \o Line(written[k] + 1)
      /\ \A j \in Keys \ {k} : b[j] = pending[j]
  BY BufferedFacts
<1>3. file \in [Keys -> Seq(Token)] /\ hit' = hit
  BY DEF SinkTypeOK, Write
<1>. DEFINE passed == [Nothing EXCEPT ![k] = i]
            kept == All(b)
<1>4. \A j \in Keys : Len(b[j]) \in Nat
  BY <1>2, LenProperties
<1>. HIDE DEF b
<1>5. /\ passed \in [Keys -> Nat] /\ kept \in [Keys -> Nat]
      /\ \A j \in Keys : passed[j] <= kept[j] /\ kept[j] = Len(b[j])
  BY <1>4, NothingFacts DEF All
<1>. HIDE DEF passed, kept
<1>6. Move(b, passed, kept)
  BY <1>1 DEF passed, kept
<1>7. /\ file' \in [Keys -> Seq(Token)] /\ pending' \in [Keys -> Seq(Token)]
      /\ \A j \in Keys : /\ Stream(j)' = file[j] \o b[j]
                         /\ b[j] = <<>> => pending'[j] = <<>>
  <2>1. \A j \in Keys : passed[j] <= kept[j] /\ kept[j] <= Len(b[j])
    BY <1>4, <1>5
  <2>2. file \in [Keys -> Seq(Token)] /\ b \in [Keys -> Seq(Token)]
        /\ passed \in [Keys -> Nat] /\ kept \in [Keys -> Nat]
    BY <1>2, <1>3, <1>5
  <2>. QED  BY <1>5, <1>6, <2>1, <2>2, MoveFacts
<1>8. /\ handles' \in Seq(Keys) /\ k \in ToSet(handles')
      /\ ToSet(handles) \subseteq ToSet(handles')
      /\ written' \in [Keys -> Nat] /\ written'[k] = written[k] + 1
      /\ \A j \in Keys \ {k} : written'[j] = written[j]
      /\ \A j \in Keys : written'[j] <= MaxRows[j]
  BY OpenFacts DEF Write
<1>9. \A j \in Keys : pending'[j] # <<>> => j \in ToSet(handles')
  BY <1>2, <1>7, <1>8 DEF SinkTypeOK
<1>10. SinkTypeOK'
  BY <1>3, <1>7, <1>8, <1>9 DEF SinkTypeOK
<1>11. Lengthened(k) /\ \A j \in Keys \ {k} : Kept(j)
  BY <1>2, <1>3, <1>7, <1>8 DEF Lengthened, Kept, Stream
<1>. QED  BY <1>2, <1>7, <1>10, <1>11

LEMMA FailAtFacts ==
    ASSUME SinkTypeOK, NEW k \in Keys, NEW tokens \in [Keys -> Seq(Token)],
           NEW passed \in [Keys -> Nat], \A j \in Keys : passed[j] <= Len(tokens[j]),
           FailAt(k, tokens, passed)
    PROVE  /\ file' \in [Keys -> Seq(Token)] /\ pending' \in [Keys -> Seq(Token)]
           /\ hit' \in [Keys -> SUBSET Nat]
           /\ \E l \in 0 .. Len(tokens[k]) :
                 Stream(k)' = SubSeq(file[k] \o tokens[k], 1, Len(file[k]) + l)
           /\ \A j \in Keys \ {k} : Stream(j)' = file[j] \o tokens[j] /\ hit'[j] = hit[j]
           /\ hit'[k] = hit[k] \cup RowsIn(tokens[k])
           /\ \A j \in Keys : tokens[j] = <<>> => pending'[j] = <<>>
<1>1. PICK i \in 0 .. Len(tokens[k]) : \E l \in i .. Len(tokens[k]) :
         Move(tokens, [passed EXCEPT ![k] = i], [All(tokens) EXCEPT ![k] = l])
  BY DEF FailAt
<1>2. PICK l \in i .. Len(tokens[k]) :
         Move(tokens, [passed EXCEPT ![k] = i], [All(tokens) EXCEPT ![k] = l])
  BY <1>1
<1>. DEFINE p == [passed EXCEPT ![k] = i]
            q == [All(tokens) EXCEPT ![k] = l]
<1>3. /\ p \in [Keys -> Nat] /\ q \in [Keys -> Nat]
      /\ q[k] = l /\ l \in 0 .. Len(tokens[k])
      /\ \A j \in Keys \ {k} : q[j] = Len(tokens[j])
      /\ \A j \in Keys : p[j] <= q[j] /\ q[j] <= Len(tokens[j])
  <2>1. \A j \in Keys : Len(tokens[j]) \in Nat
    BY LenProperties
  <2>2. All(tokens) \in [Keys -> Nat] /\ \A j \in Keys : All(tokens)[j] = Len(tokens[j])
    BY <2>1 DEF All
  <2>3. i \in Nat /\ l \in Nat /\ i <= l /\ l <= Len(tokens[k])
    BY <2>1
  <2>. QED  BY <2>1, <2>2, <2>3
<1>4. Move(tokens, p, q)
  BY <1>2
<1>. HIDE DEF p, q
<1>5. file \in [Keys -> Seq(Token)]
  BY DEF SinkTypeOK
<1>6. /\ file' \in [Keys -> Seq(Token)] /\ pending' \in [Keys -> Seq(Token)]
      /\ \A j \in Keys :
            /\ Stream(j)' = SubSeq(file[j] \o tokens[j], 1, Len(file[j]) + q[j])
            /\ q[j] = Len(tokens[j]) => Stream(j)' = file[j] \o tokens[j]
            /\ tokens[j] = <<>> => pending'[j] = <<>>
  <2>1. p \in [Keys -> Nat] /\ q \in [Keys -> Nat]
    BY <1>3
  <2>2. \A j \in Keys : p[j] <= q[j] /\ q[j] <= Len(tokens[j])
    BY <1>3
  <2>3. file' \in [Keys -> Seq(Token)]
    BY <1>4, <1>5, <2>1, <2>2, MoveFacts
  <2>4. pending' \in [Keys -> Seq(Token)]
    BY <1>4, <1>5, <2>1, <2>2, MoveFacts
  <2>5. \A j \in Keys : Stream(j)' = SubSeq(file[j] \o tokens[j], 1, Len(file[j]) + q[j])
    BY <1>4, <1>5, <2>1, <2>2, MoveFacts
  <2>6. \A j \in Keys : q[j] = Len(tokens[j]) => Stream(j)' = file[j] \o tokens[j]
    BY <1>4, <1>5, <2>1, <2>2, MoveFacts
  <2>7. \A j \in Keys : tokens[j] = <<>> => pending'[j] = <<>>
    BY <1>4, <1>5, <2>1, <2>2, MoveFacts
  <2>. QED  BY <2>3, <2>4, <2>5, <2>6, <2>7
<1>7. hit' = [hit EXCEPT ![k] = @ \cup RowsIn(tokens[k])]
  BY DEF FailAt
<1>8. RowsIn(tokens[k]) \subseteq Nat
  BY RowsInType
<1>9. /\ hit' \in [Keys -> SUBSET Nat]
      /\ hit'[k] = hit[k] \cup RowsIn(tokens[k])
      /\ \A j \in Keys \ {k} : hit'[j] = hit[j]
  BY <1>7, <1>8 DEF SinkTypeOK
<1>. QED  BY <1>3, <1>6, <1>9

LEMMA WriteFailsFacts ==
    ASSUME SinkTypeOK, NEW k \in Keys, WriteFails(k)
    PROVE  /\ SinkTypeOK'
           /\ LengthenedAndCut(k) /\ \A j \in Keys \ {k} : Kept(j)
<1>. DEFINE b == Buffered(k)
            longer == Stream(k) \o Line(written[k] + 1)
<1>1. /\ b \in [Keys -> Seq(Token)] /\ file[k] \o b[k] = longer
      /\ \A j \in Keys \ {k} : b[j] = pending[j]
      /\ RowsIn(b[k]) = RowsIn(pending[k]) \cup {written[k] + 1}
  BY BufferedFacts
<1>2. FailAt(k, b, Nothing)
  BY DEF WriteFails
<1>. HIDE DEF b, longer
<1>3. \A j \in Keys : Len(b[j]) \in Nat /\ Nothing[j] <= Len(b[j])
  BY <1>1, NothingFacts, LenProperties
<1>4. /\ file' \in [Keys -> Seq(Token)] /\ pending' \in [Keys -> Seq(Token)]
      /\ hit' \in [Keys -> SUBSET Nat]
      /\ \E l \in 0 .. Len(b[k]) : Stream(k)' = SubSeq(longer, 1, Len(file[k]) + l)
      /\ \A j \in Keys \ {k} : Stream(j)' = file[j] \o b[j] /\ hit'[j] = hit[j]
      /\ hit'[k] = hit[k] \cup RowsIn(b[k])
      /\ \A j \in Keys : b[j] = <<>> => pending'[j] = <<>>
  <2>1. b \in [Keys -> Seq(Token)] /\ Nothing \in [Keys -> Nat]
    BY <1>1, NothingFacts
  <2>2. \A j \in Keys : Nothing[j] <= Len(b[j])
    BY <1>3
  <2>3. file[k] \o b[k] = longer
    BY <1>1
  <2>. QED  BY <1>2, <2>1, <2>2, <2>3, FailAtFacts
<1>5. /\ handles' \in Seq(Keys) /\ k \in ToSet(handles')
      /\ ToSet(handles) \subseteq ToSet(handles')
      /\ written' \in [Keys -> Nat] /\ written'[k] = written[k] + 1
      /\ \A j \in Keys \ {k} : written'[j] = written[j]
      /\ \A j \in Keys : written'[j] <= MaxRows[j]
  BY OpenFacts DEF WriteFails
<1>6. \A j \in Keys : pending'[j] # <<>> => j \in ToSet(handles')
  BY <1>1, <1>4, <1>5 DEF SinkTypeOK
<1>7. SinkTypeOK'
  BY <1>4, <1>5, <1>6 DEF SinkTypeOK
<1>8. \A j \in Keys \ {k} : Kept(j)
  BY <1>1, <1>4, <1>5 DEF Kept, Stream
<1>9. LengthenedAndCut(k)
  <2>1. PICK l \in 0 .. Len(b[k]) : Stream(k)' = SubSeq(longer, 1, Len(file[k]) + l)
    BY <1>4
  <2>2. file[k] \in Seq(Token) /\ b[k] \in Seq(Token)
    BY <1>1 DEF SinkTypeOK
  <2>3. Len(longer) = Len(file[k]) + Len(b[k])
    <3>1. Len(file[k] \o b[k]) = Len(file[k]) + Len(b[k])
      BY <2>2, ConcatProperties
    <3>. QED  BY <1>1, <3>1
  <2>4. Len(file[k]) \in Nat /\ Len(b[k]) \in Nat
    BY <2>2, LenProperties
  <2>5. l \in Nat /\ l <= Len(b[k])
    BY <2>4
  <2>6. Len(file[k]) + l \in Len(file[k]) .. Len(longer)
    BY <2>3, <2>4, <2>5, Within
  <2>7. hit'[k] = hit[k] \cup RowsIn(pending[k]) \cup {written[k] + 1}
    BY <1>1, <1>4
  <2>. QED  BY <1>5, <2>1, <2>6, <2>7 DEF LengthenedAndCut, longer
<1>. QED  BY <1>7, <1>8, <1>9

\* The buffers are passed on and empty.
LEMMA FlushFacts ==
    ASSUME SinkTypeOK, Flush \/ Close
    PROVE  /\ SinkTypeOK'
           /\ \A j \in Keys : Kept(j) /\ pending'[j] = <<>>
<1>1. Move(pending, All(pending), All(pending)) /\ hit' = hit /\ written' = written
  BY DEF Flush, Close
<1>2. file \in [Keys -> Seq(Token)] /\ pending \in [Keys -> Seq(Token)]
  BY DEF SinkTypeOK
<1>3. /\ All(pending) \in [Keys -> Nat]
      /\ \A j \in Keys : All(pending)[j] <= All(pending)[j]
                         /\ All(pending)[j] <= Len(pending[j])
                         /\ All(pending)[j] = Len(pending[j])
  BY <1>2, LenProperties DEF All
<1>4. /\ file' \in [Keys -> Seq(Token)] /\ pending' \in [Keys -> Seq(Token)]
      /\ \A j \in Keys : Stream(j)' = file[j] \o pending[j] /\ pending'[j] = <<>>
  BY <1>1, <1>2, <1>3, MoveFacts
<1>5. handles' = handles \/ handles' = <<>>
  BY DEF Flush, Close
<1>6. handles' \in Seq(Keys)
  BY <1>5, EmptySeq DEF SinkTypeOK
<1>7. SinkTypeOK'
  BY <1>1, <1>4, <1>6 DEF SinkTypeOK
<1>. QED  BY <1>1, <1>4, <1>7 DEF Kept, Stream

\* The buffers are passed on, or kept, except at key k.
LEMMA FailedFlush ==
    ASSUME SinkTypeOK, NEW k \in Keys, NEW passed \in [Keys -> Nat],
           \A j \in Keys : passed[j] <= Len(pending[j]),
           FailAt(k, pending, passed), handles' = handles, written' = written
    PROVE  SinkTypeOK' /\ Cut(k) /\ \A j \in Keys \ {k} : Kept(j)
<1>1. pending \in [Keys -> Seq(Token)]
  BY DEF SinkTypeOK
<1>2. /\ file' \in [Keys -> Seq(Token)] /\ pending' \in [Keys -> Seq(Token)]
      /\ hit' \in [Keys -> SUBSET Nat]
      /\ hit'[k] = hit[k] \cup RowsIn(pending[k])
      /\ \A j \in Keys : pending[j] = <<>> => pending'[j] = <<>>
  BY <1>1, FailAtFacts
<1>3. PICK l \in 0 .. Len(pending[k]) :
         Stream(k)' = SubSeq(file[k] \o pending[k], 1, Len(file[k]) + l)
  BY <1>1, FailAtFacts
<1>4. \A j \in Keys \ {k} : Stream(j)' = file[j] \o pending[j] /\ hit'[j] = hit[j]
  BY <1>1, FailAtFacts
<1>5. SinkTypeOK'
  BY <1>2 DEF SinkTypeOK
<1>6. \A j \in Keys \ {k} : Kept(j)
  BY <1>4 DEF Kept, Stream
<1>7. Cut(k)
  <2>1. /\ Len(file[k]) \in Nat /\ Len(pending[k]) \in Nat
        /\ Len(Stream(k)) = Len(file[k]) + Len(pending[k])
    BY StreamFacts
  <2>2. l \in Nat /\ l <= Len(pending[k])
    BY <2>1
  <2>3. Len(file[k]) + l \in Len(file[k]) .. Len(Stream(k))
    BY <2>1, <2>2, Within
  <2>. QED  BY <1>2, <1>3, <2>3 DEF Cut, Stream
<1>. QED  BY <1>5, <1>6, <1>7

LEMMA FlushFailsFacts ==
    ASSUME SinkTypeOK, FlushFails
    PROVE  SinkTypeOK' /\ \A j \in Keys : Kept(j) \/ Cut(j)
<1>1. PICK n \in DOMAIN handles :
         FailAt(handles[n], pending,
                [k \in Keys |-> IF \E m \in 1 .. n - 1 : handles[m] = k
                                  THEN Len(pending[k]) ELSE 0])
  BY DEF FlushFails
<1>. DEFINE p == [j \in Keys |-> IF \E m \in 1 .. n - 1 : handles[m] = j
                                   THEN Len(pending[j]) ELSE 0]
<1>2. handles[n] \in Keys /\ pending \in [Keys -> Seq(Token)]
  BY ElementOfSeq, LenProperties DEF SinkTypeOK
<1>3. \A j \in Keys : Len(pending[j]) \in Nat
  BY <1>2, LenProperties
<1>4. p \in [Keys -> Nat] /\ \A j \in Keys : p[j] <= Len(pending[j])
  BY <1>3
<1>5. PICK k \in Keys, passed \in [Keys -> Nat] :
         FailAt(k, pending, passed) /\ \A j \in Keys : passed[j] <= Len(pending[j])
  BY <1>1, <1>2, <1>4
<1>. HIDE DEF p
<1>6. SinkTypeOK' /\ Cut(k) /\ \A j \in Keys \ {k} : Kept(j)
  BY <1>5, FailedFlush DEF FlushFails
<1>. QED  BY <1>6

\* Closing a handle fails: what it did not pass on is gone.
LEMMA CloseFailsFacts ==
    ASSUME SinkTypeOK, CloseFails
    PROVE  /\ SinkTypeOK'
           /\ \A j \in Keys : (Kept(j) \/ Cut(j)) /\ pending'[j] = <<>>
<1>1. PICK k \in ToSet(handles) :
         /\ \E i \in 0 .. Len(pending[k]) :
               Move(pending, [All(pending) EXCEPT ![k] = i], [All(pending) EXCEPT ![k] = i])
         /\ hit' = [hit EXCEPT ![k] = @ \cup RowsIn(pending[k])]
  BY DEF CloseFails
<1>2. PICK i \in 0 .. Len(pending[k]) :
         Move(pending, [All(pending) EXCEPT ![k] = i], [All(pending) EXCEPT ![k] = i])
  BY <1>1
<1>3. k \in Keys
  BY <1>1, ElementOfSeq, LenProperties DEF SinkTypeOK, ToSet
<1>4. file \in [Keys -> Seq(Token)] /\ pending \in [Keys -> Seq(Token)]
  BY DEF SinkTypeOK
<1>. DEFINE kept == [All(pending) EXCEPT ![k] = i]
<1>5. \A j \in Keys : Len(pending[j]) \in Nat
  BY <1>4, LenProperties
<1>6. i \in Nat /\ i <= Len(pending[k])
  BY <1>3, <1>5
<1>7. /\ kept \in [Keys -> Nat] /\ kept[k] = i
      /\ \A j \in Keys \ {k} : kept[j] = Len(pending[j])
      /\ \A j \in Keys : kept[j] <= kept[j] /\ kept[j] <= Len(pending[j])
  BY <1>3, <1>5, <1>6 DEF All
<1>8. Move(pending, kept, kept)
  BY <1>2
<1>. HIDE DEF kept
<1>9. file' \in [Keys -> Seq(Token)] /\ pending' \in [Keys -> Seq(Token)]
  BY <1>4, <1>7, <1>8, MoveFacts
<1>10. \A j \in Keys : Stream(j)' = SubSeq(file[j] \o pending[j], 1, Len(file[j]) + kept[j])
  BY <1>4, <1>7, <1>8, MoveFacts
<1>11. \A j \in Keys : kept[j] = Len(pending[j]) => Stream(j)' = file[j] \o pending[j]
  BY <1>4, <1>7, <1>8, MoveFacts
<1>12. \A j \in Keys : pending'[j] = <<>>
  BY <1>4, <1>7, <1>8, MoveFacts
<1>13. RowsIn(pending[k]) \subseteq Nat
  BY <1>3, <1>4, RowsInType
<1>14. hit' \in [Keys -> SUBSET Nat] /\ hit'[k] = hit[k] \cup RowsIn(pending[k])
       /\ \A j \in Keys \ {k} : hit'[j] = hit[j]
  BY <1>1, <1>3, <1>13 DEF SinkTypeOK
<1>15. written' = written /\ handles' = <<>>
  BY DEF CloseFails
<1>16. SinkTypeOK'
  BY <1>9, <1>12, <1>14, <1>15, EmptySeq DEF SinkTypeOK
<1>17. \A j \in Keys \ {k} : Kept(j)
  BY <1>7, <1>11, <1>14, <1>15 DEF Kept, Stream
<1>18. Cut(k)
  <2>1. /\ Len(file[k]) \in Nat /\ Len(pending[k]) \in Nat
        /\ Len(Stream(k)) = Len(file[k]) + Len(pending[k])
    BY <1>3, StreamFacts
  <2>2. Len(file[k]) + i \in Len(file[k]) .. Len(Stream(k))
    BY <1>6, <2>1, Within
  <2>3. Stream(k)' = SubSeq(Stream(k), 1, Len(file[k]) + i)
    BY <1>3, <1>7, <1>10 DEF Stream
  <2>. QED  BY <1>14, <1>15, <2>2, <2>3 DEF Cut
<1>. QED  BY <1>12, <1>16, <1>17, <1>18

\* The process dies: the buffers are gone, the files stay.
LEMMA CrashFacts ==
    ASSUME SinkTypeOK, SinkCrash
    PROVE  /\ SinkTypeOK'
           /\ \A j \in Keys : Cut(j) /\ pending'[j] = <<>>
<1>1. file \in [Keys -> Seq(Token)] /\ pending \in [Keys -> Seq(Token)]
  BY DEF SinkTypeOK
<1>2. /\ Move(pending, Nothing, Nothing) /\ handles' = <<>> /\ written' = written
      /\ hit' = [k \in Keys |-> hit[k] \cup RowsIn(pending[k])]
  BY DEF SinkCrash
<1>3. \A j \in Keys : Len(pending[j]) \in Nat
  BY <1>1, LenProperties
<1>4. /\ Nothing \in [Keys -> Nat]
      /\ \A j \in Keys : Nothing[j] = 0 /\ Nothing[j] <= Nothing[j]
                         /\ Nothing[j] <= Len(pending[j])
  BY <1>3, NothingFacts
<1>5. file' \in [Keys -> Seq(Token)] /\ pending' \in [Keys -> Seq(Token)]
  BY <1>1, <1>2, <1>4, MoveFacts
<1>6. \A j \in Keys : Stream(j)' = SubSeq(file[j] \o pending[j], 1, Len(file[j]) + Nothing[j])
  BY <1>1, <1>2, <1>4, MoveFacts
<1>7. \A j \in Keys : pending'[j] = <<>>
  BY <1>1, <1>2, <1>4, MoveFacts
<1>8. \A j \in Keys : RowsIn(pending[j]) \subseteq Nat
  BY <1>1, RowsInType
<1>9. SinkTypeOK'
  BY <1>2, <1>5, <1>7, <1>8, EmptySeq DEF SinkTypeOK
<1>10. ASSUME NEW j \in Keys
       PROVE  Cut(j)
  <2>1. /\ Len(file[j]) \in Nat /\ Len(pending[j]) \in Nat
        /\ Len(Stream(j)) = Len(file[j]) + Len(pending[j])
    BY StreamFacts
  <2>2. Len(file[j]) + Nothing[j] \in Len(file[j]) .. Len(Stream(j))
    BY <1>4, <2>1, Within
  <2>3. Stream(j)' = SubSeq(Stream(j), 1, Len(file[j]) + Nothing[j])
    BY <1>6 DEF Stream
  <2>. QED  BY <1>2, <2>2, <2>3 DEF Cut
<1>. QED  BY <1>7, <1>9, <1>10

-----------------------------------------------------------------------------
(***************************************************************************)
(* The rows of a stream                                                    *)
(***************************************************************************)

\* Row m is a line of its own.
Whole(s, m) ==
    \E i \in 1 .. Len(s) - 2 :
        /\ i = 1 \/ s[i - 1][2] = Newline
        /\ s[i] = <<m, 1>> /\ s[i + 1] = <<m, 2>> /\ s[i + 2] = <<m, Newline>>

\* What is written next continues a line.
Torn(s) == s # <<>> /\ s[Len(s)][2] # Newline

\* The rows that are lost for another reason than that they were hit.
Broken(s, n, h) == {m \in 1 .. n : m \notin h /\ ~Whole(s, m)}

\* Of n rows written, h of them hit, with d failures and crashes: each of these
\* breaks one row at most, and while it has not, it may have left a torn line that
\* breaks the next.
Lines(s, n, h, d) ==
    /\ \A i \in 1 .. Len(s) : s[i][1] \in 1 .. n
    /\ \A i, j \in 1 .. Len(s) : i < j => Position(s[i]) < Position(s[j])
    /\ Cardinality(Broken(s, n, h)) + (IF Torn(s) THEN 1 ELSE 0) <= d
    /\ d = 0 => h = {}

LEMMA BrokenFinite ==
    ASSUME NEW n \in Nat, NEW h, NEW s
    PROVE  /\ IsFiniteSet(Broken(s, n, h)) /\ Cardinality(Broken(s, n, h)) \in Nat
<1>1. IsFiniteSet(1 .. n)
  BY FS_Interval
<1>2. Broken(s, n, h) \subseteq 1 .. n
  BY DEF Broken
<1>. QED  BY <1>1, <1>2, FS_Subset, FS_CardinalityType

\* More failures allow for more.
LEMMA LinesMore ==
    ASSUME NEW s, NEW n \in Nat, NEW h, NEW d \in Nat, NEW e \in Nat, d <= e,
           Lines(s, n, h, d)
    PROVE  Lines(s, n, h, e)
<1>1. Cardinality(Broken(s, n, h)) \in Nat
  BY BrokenFinite
<1>2. Cardinality(Broken(s, n, h)) + (IF Torn(s) THEN 1 ELSE 0) <= e
  BY <1>1 DEF Lines
<1>3. e = 0 => d = 0
  OBVIOUS
<1>. QED  BY <1>2, <1>3 DEF Lines

\* A line at the end breaks no row but its own, and that one when what stands
\* before it is torn, which it then no longer is.
LEMMA LinesLengthened ==
    ASSUME NEW s \in Seq(Token), NEW n \in Nat, NEW h, NEW d \in Nat,
           Lines(s, n, h, d)
    PROVE  Lines(s \o Line(n + 1), n + 1, h, d)
<1>. DEFINE r == s \o Line(n + 1)
            a == Len(s)
<1>1. /\ r \in Seq(Token) /\ Len(r) = a + 3 /\ a \in Nat
      /\ \A i \in 1 .. a : r[i] = s[i]
      /\ r[a + 1] = <<n + 1, 1>> /\ r[a + 2] = <<n + 1, 2>> /\ r[a + 3] = <<n + 1, Newline>>
  <2>1. /\ Line(n + 1) \in Seq(Token) /\ Len(Line(n + 1)) = 3
        /\ Line(n + 1)[1] = <<n + 1, 1>> /\ Line(n + 1)[2] = <<n + 1, 2>>
        /\ Line(n + 1)[3] = <<n + 1, Newline>>
    BY TokenFacts
  <2>. DEFINE l == Line(n + 1)
              S == Token
  <2>. HIDE DEF l, S
  <2>2. s \in Seq(S) /\ l \in Seq(S)
    BY <2>1 DEF l, S
  <2>3. /\ s \o l \in Seq(S) /\ Len(s \o l) = a + Len(l)
        /\ \A i \in 1 .. a + Len(l) : (s \o l)[i] = IF i <= a THEN s[i] ELSE l[i - a]
    BY <2>2, ConcatProperties
  <2>4. Len(l) = 3 /\ a \in Nat
    BY <2>1, <2>2, LenProperties DEF l
  <2>5. \A i \in 1 .. a : (s \o l)[i] = s[i]
    BY <2>3, <2>4
  <2>6. /\ (s \o l)[a + 1] = l[1] /\ (s \o l)[a + 2] = l[2] /\ (s \o l)[a + 3] = l[3]
    BY <2>3, <2>4
  <2>. QED  BY <2>1, <2>3, <2>4, <2>5, <2>6 DEF l, S
<1>. HIDE DEF r
<1>2. /\ \A i \in 1 .. a : s[i] \in Token /\ s[i][1] \in 1 .. n /\ s[i][2] \in 1 .. 3
      /\ s = <<>> <=> a = 0
  BY <1>1, ElementOfSeq, EmptySeq, TokenRow DEF Lines
<1>. HIDE DEF a
<1>3. \A i \in 1 .. a + 3 : i \in 1 .. a \/ i = a + 1 \/ i = a + 2 \/ i = a + 3
  BY <1>1
<1>4. \A i \in 1 .. Len(r) : r[i][1] \in 1 .. n + 1
  BY <1>1, <1>2, <1>3
<1>5. ASSUME NEW i \in 1 .. Len(r), NEW j \in 1 .. Len(r), i < j
      PROVE  Position(r[i]) < Position(r[j])
  <2>1. ASSUME NEW x \in 1 .. a
        PROVE  Position(r[x]) \in Nat /\ Position(r[x]) <= 3 * n + 3
    <3>1. PICK p \in 1 .. n, q \in 1 .. 3 : p = r[x][1] /\ q = r[x][2]
      BY <1>1, <1>2
    <3>2. Position(r[x]) = 3 * p + q
      BY <3>1 DEF Position
    <3>. QED  BY <3>2
  <2>2. /\ Position(r[a + 1]) = 3 * n + 4 /\ Position(r[a + 2]) = 3 * n + 5
        /\ Position(r[a + 3]) = 3 * n + 6
    BY <1>1 DEF Position, Newline
  <2>3. CASE j \in 1 .. a
    <3>1. i \in 1 .. a /\ r[i] = s[i] /\ r[j] = s[j]
      BY <1>1, <1>5, <2>3
    <3>. QED  BY <1>5, <2>3, <3>1 DEF Lines, a
  <2>4. CASE i \in 1 .. a /\ j \notin 1 .. a
    <3>1. j = a + 1 \/ j = a + 2 \/ j = a + 3
      BY <1>1, <1>3, <2>4
    <3>2. Position(r[j]) >= 3 * n + 4
      BY <2>2, <3>1
    <3>3. Position(r[i]) \in Nat /\ Position(r[i]) <= 3 * n + 3
      BY <2>1, <2>4
    <3>4. Position(r[j]) \in Nat
      BY <2>2, <3>1
    <3>. QED  BY <3>2, <3>3, <3>4
  <2>5. CASE i \notin 1 .. a
    <3>1. /\ i = a + 1 \/ i = a + 2 \/ i = a + 3
          /\ j = a + 1 \/ j = a + 2 \/ j = a + 3 \/ j \in 1 .. a
      BY <1>1, <1>3, <2>5
    <3>2. \/ i = a + 1 /\ (j = a + 2 \/ j = a + 3)
          \/ i = a + 2 /\ j = a + 3
      BY <1>1, <1>5, <3>1
    <3>. QED  BY <2>2, <3>2
  <2>. QED  BY <2>3, <2>4, <2>5
<1>6. ~Torn(r)
  BY <1>1 DEF Torn, Newline
<1>7. ASSUME NEW m \in Nat, Whole(s, m)
      PROVE  Whole(r, m)
  <2>1. PICK i \in 1 .. a - 2 :
           /\ i = 1 \/ s[i - 1][2] = Newline
           /\ s[i] = <<m, 1>> /\ s[i + 1] = <<m, 2>> /\ s[i + 2] = <<m, Newline>>
    BY <1>7 DEF Whole, a
  <2>2. /\ i \in 1 .. a /\ i + 1 \in 1 .. a /\ i + 2 \in 1 .. a
        /\ i # 1 => i - 1 \in 1 .. a
        /\ i \in 1 .. Len(r) - 2
    BY <1>1
  <2>3. r[i] = <<m, 1>> /\ r[i + 1] = <<m, 2>> /\ r[i + 2] = <<m, Newline>>
    BY <1>1, <2>1, <2>2
  <2>4. i = 1 \/ r[i - 1][2] = Newline
    BY <1>1, <2>1, <2>2
  <2>. QED  BY <2>2, <2>3, <2>4 DEF Whole
<1>8. ~Torn(s) => Whole(r, n + 1)
  <2>1. SUFFICES ASSUME ~Torn(s) PROVE Whole(r, n + 1)
    OBVIOUS
  <2>2. a + 1 \in 1 .. Len(r) - 2 /\ (a + 1) + 1 = a + 2 /\ (a + 1) + 2 = a + 3 /\ (a + 1) - 1 = a
    BY <1>1
  <2>3. a = 0 \/ s[a][2] = Newline
    BY <1>2, <2>1 DEF Torn, a
  <2>4. a + 1 = 1 \/ r[a][2] = Newline
    BY <1>1, <2>3
  <2>. QED  BY <1>1, <2>2, <2>4 DEF Whole
<1>9. Broken(r, n + 1, h) \subseteq Broken(s, n, h) \cup (IF Torn(s) THEN {n + 1} ELSE {})
  <2>1. \A m \in 1 .. n + 1 : m \in Nat /\ (m \in 1 .. n \/ m = n + 1)
    OBVIOUS
  <2>. QED  BY <1>7, <1>8, <2>1 DEF Broken
<1>10. Cardinality(Broken(r, n + 1, h)) <= Cardinality(Broken(s, n, h)) + (IF Torn(s) THEN 1 ELSE 0)
  <2>. DEFINE B == Broken(s, n, h)
              C == Broken(r, n + 1, h)
  <2>1. IsFiniteSet(B) /\ Cardinality(B) \in Nat
    BY BrokenFinite
  <2>2. IsFiniteSet(C) /\ Cardinality(C) \in Nat
    BY BrokenFinite
  <2>. HIDE DEF B, C
  <2>3. CASE Torn(s)
    <3>1. C \subseteq B \cup {n + 1}
      BY <1>9, <2>3 DEF B, C
    <3>2. IsFiniteSet(B \cup {n + 1})
          /\ \/ Cardinality(B \cup {n + 1}) = Cardinality(B)
             \/ Cardinality(B \cup {n + 1}) = Cardinality(B) + 1
      <4>. DEFINE x == n + 1
      <4>. HIDE DEF x
      <4>1. /\ IsFiniteSet(B \cup {x})
            /\ \/ Cardinality(B \cup {x}) = Cardinality(B)
               \/ Cardinality(B \cup {x}) = Cardinality(B) + 1
        BY <2>1, FS_AddElement
      <4>. QED  BY <4>1 DEF x
    <3>3. Cardinality(C) <= Cardinality(B \cup {n + 1})
      BY <3>1, <3>2, FS_Subset
    <3>4. Cardinality(C) <= Cardinality(B) + 1
      BY <2>1, <2>2, <3>2, <3>3
    <3>. QED  BY <2>3, <3>4 DEF B, C
  <2>4. CASE ~Torn(s)
    <3>1. C \subseteq B
      BY <1>9, <2>4 DEF B, C
    <3>2. Cardinality(C) <= Cardinality(B)
      BY <2>1, <3>1, FS_Subset
    <3>3. Cardinality(C) <= Cardinality(B) + 0
      BY <2>1, <3>2
    <3>. QED  BY <2>4, <3>3 DEF B, C
  <2>. QED  BY <2>3, <2>4
<1>11. Cardinality(Broken(r, n + 1, h)) + (IF Torn(r) THEN 1 ELSE 0) <= d
  <2>1. Cardinality(Broken(r, n + 1, h)) \in Nat /\ Cardinality(Broken(s, n, h)) \in Nat
    BY BrokenFinite
  <2>2. Cardinality(Broken(s, n, h)) + (IF Torn(s) THEN 1 ELSE 0) <= d
    BY DEF Lines
  <2>. QED  BY <1>6, <1>10, <2>1, <2>2
<1>12. d = 0 => h = {}
  BY DEF Lines
<1>13. Lines(r, n + 1, h, d)
  BY <1>4, <1>5, <1>11, <1>12 DEF Lines
<1>. QED  BY <1>13 DEF r

\* Cutting the end off breaks no row that is not hit, when the rows behind the
\* first a tokens count as hit and these tokens stay.
LEMMA LinesCut ==
    ASSUME NEW s \in Seq(Token), NEW n \in Nat, NEW h, NEW d \in Nat,
           Lines(s, n, h, d),
           NEW a \in Nat, NEW m \in a .. Len(s), NEW g, h \subseteq g,
           \A i \in 1 .. Len(s) : i > a => s[i][1] \in g
    PROVE  Lines(SubSeq(s, 1, m), n, g, d + 1)
<1>. DEFINE r == SubSeq(s, 1, m)
<1>1. /\ Len(s) \in Nat /\ m \in Nat /\ a <= m /\ m <= Len(s)
  OBVIOUS
<1>2. Len(r) = m /\ \A i \in 1 .. m : r[i] = s[i] /\ i \in 1 .. Len(s)
  <2>1. m \in 0 .. Len(s)
    BY <1>1
  <2>2. Len(r) = m /\ \A i \in 1 .. m : r[i] = s[i]
    BY <2>1, Prefix
  <2>3. \A i \in 1 .. m : i \in 1 .. Len(s)
    BY <1>1
  <2>. QED  BY <2>2, <2>3
<1>. HIDE DEF r
<1>3. ASSUME NEW x \in Nat, x \notin g, Whole(s, x)
      PROVE  Whole(r, x)
  <2>1. PICK i \in 1 .. Len(s) - 2 :
           /\ i = 1 \/ s[i - 1][2] = Newline
           /\ s[i] = <<x, 1>> /\ s[i + 1] = <<x, 2>> /\ s[i + 2] = <<x, Newline>>
    BY <1>3 DEF Whole
  <2>2. i + 2 \in 1 .. Len(s) /\ s[i + 2][1] = x
    BY <1>1, <2>1
  <2>3. i + 2 <= a
    BY <1>1, <1>3, <2>2
  <2>4. /\ i \in 1 .. m - 2 /\ i \in 1 .. m /\ i + 1 \in 1 .. m /\ i + 2 \in 1 .. m
        /\ i # 1 => i - 1 \in 1 .. m
    BY <1>1, <2>3
  <2>5. r[i] = <<x, 1>> /\ r[i + 1] = <<x, 2>> /\ r[i + 2] = <<x, Newline>>
    BY <1>2, <2>1, <2>4
  <2>6. i = 1 \/ r[i - 1][2] = Newline
    BY <1>2, <2>1, <2>4
  <2>. QED  BY <1>2, <2>4, <2>5, <2>6 DEF Whole
<1>4. Broken(r, n, g) \subseteq Broken(s, n, h)
  <2>1. \A x \in 1 .. n : x \in Nat
    OBVIOUS
  <2>. QED  BY <1>3, <2>1 DEF Broken
<1>5. Cardinality(Broken(r, n, g)) <= Cardinality(Broken(s, n, h))
  BY <1>4, BrokenFinite, FS_Subset
<1>6. Cardinality(Broken(r, n, g)) + (IF Torn(r) THEN 1 ELSE 0) <= d + 1
  <2>1. Cardinality(Broken(r, n, g)) \in Nat /\ Cardinality(Broken(s, n, h)) \in Nat
    BY BrokenFinite
  <2>2. Cardinality(Broken(s, n, h)) <= d
    BY <2>1 DEF Lines
  <2>. QED  BY <1>5, <2>1, <2>2
<1>7. \A i \in 1 .. Len(r) : r[i][1] \in 1 .. n
  BY <1>2 DEF Lines
<1>8. \A i, j \in 1 .. Len(r) : i < j => Position(r[i]) < Position(r[j])
  BY <1>2 DEF Lines
<1>9. d + 1 # 0
  OBVIOUS
<1>10. Lines(r, n, g, d + 1)
  BY <1>6, <1>7, <1>8, <1>9 DEF Lines
<1>. QED  BY <1>10 DEF r

-----------------------------------------------------------------------------
(***************************************************************************)
(* The rows of a key                                                       *)
(***************************************************************************)
LineInv(k, d) == Lines(Stream(k), written[k], hit[k], d)

LEMMA LineInvKept ==
    ASSUME NEW k, NEW d, LineInv(k, d), Kept(k)
    PROVE  Lines(Stream(k)', written'[k], hit'[k], d)
BY DEF LineInv, Kept

LEMMA LineInvLengthened ==
    ASSUME SinkTypeOK, NEW k \in Keys, NEW d \in Nat, LineInv(k, d), Lengthened(k)
    PROVE  Lines(Stream(k)', written'[k], hit'[k], d)
<1>1. Stream(k) \in Seq(Token) /\ written[k] \in Nat
  BY StreamFacts DEF SinkTypeOK
<1>2. Lines(Stream(k) \o Line(written[k] + 1), written[k] + 1, hit[k], d)
  BY <1>1, LinesLengthened DEF LineInv
<1>. QED  BY <1>2 DEF Lengthened

\* The rows behind the file are those in the buffer.
LEMMA BehindFile ==
    ASSUME NEW f \in Seq(Token), NEW p \in Seq(Token)
    PROVE  \A i \in 1 .. Len(f \o p) : i > Len(f) => (f \o p)[i][1] \in RowsIn(p)
<1>. DEFINE S == Token
<1>1. f \in Seq(S) /\ p \in Seq(S)
  OBVIOUS
<1>. HIDE DEF S
<1>2. /\ Len(f \o p) = Len(f) + Len(p)
      /\ \A i \in 1 .. Len(f) + Len(p) :
            (f \o p)[i] = IF i <= Len(f) THEN f[i] ELSE p[i - Len(f)]
  BY <1>1, ConcatProperties
<1>3. Len(f) \in Nat /\ Len(p) \in Nat /\ DOMAIN p = 1 .. Len(p)
  BY <1>1, LenProperties
<1>. DEFINE r == f \o p
<1>. HIDE DEF r
<1>4. ASSUME NEW i \in 1 .. Len(r), i > Len(f)
      PROVE  r[i][1] \in RowsIn(p)
  <2>1. i \in 1 .. Len(f) + Len(p) /\ ~(i <= Len(f)) /\ i - Len(f) \in 1 .. Len(p)
    BY <1>2, <1>3, <1>4 DEF r
  <2>2. r[i] = p[i - Len(f)]
    BY <1>2, <2>1 DEF r
  <2>. QED  BY <1>3, <2>1, <2>2 DEF RowsIn
<1>. QED  BY <1>4 DEF r

LEMMA LineInvCut ==
    ASSUME SinkTypeOK, NEW k \in Keys, NEW d \in Nat, LineInv(k, d), Cut(k)
    PROVE  Lines(Stream(k)', written'[k], hit'[k], d + 1)
<1>1. /\ file[k] \in Seq(Token) /\ pending[k] \in Seq(Token) /\ Stream(k) \in Seq(Token)
      /\ Len(file[k]) \in Nat /\ written[k] \in Nat
  BY StreamFacts DEF SinkTypeOK
<1>2. PICK m \in Len(file[k]) .. Len(Stream(k)) : Stream(k)' = SubSeq(Stream(k), 1, m)
  BY DEF Cut
<1>. DEFINE g == hit[k] \cup RowsIn(pending[k])
<1>3. \A i \in 1 .. Len(Stream(k)) : i > Len(file[k]) => Stream(k)[i][1] \in g
  BY <1>1, BehindFile DEF Stream
<1>4. hit[k] \subseteq g /\ written'[k] = written[k] /\ hit'[k] = g
  BY DEF Cut
<1>. HIDE DEF g
<1>5. Lines(Stream(k), written[k], hit[k], d)
  BY DEF LineInv
<1>6. Lines(SubSeq(Stream(k), 1, m), written[k], g, d + 1)
  BY <1>1, <1>2, <1>3, <1>4, <1>5, LinesCut
<1>. QED  BY <1>2, <1>4, <1>6

LEMMA LineInvLengthenedAndCut ==
    ASSUME SinkTypeOK, NEW k \in Keys, NEW d \in Nat, LineInv(k, d), LengthenedAndCut(k)
    PROVE  Lines(Stream(k)', written'[k], hit'[k], d + 1)
<1>. DEFINE n == written[k] + 1
            longer == Stream(k) \o Line(n)
            b == Buffered(k)[k]
            g == hit[k] \cup RowsIn(pending[k]) \cup {n}
<1>1. /\ file[k] \in Seq(Token) /\ Stream(k) \in Seq(Token)
      /\ Len(file[k]) \in Nat /\ written[k] \in Nat /\ n \in Nat
  BY StreamFacts DEF SinkTypeOK
<1>2. PICK m \in Len(file[k]) .. Len(longer) : Stream(k)' = SubSeq(longer, 1, m)
  BY DEF LengthenedAndCut
<1>3. /\ b \in Seq(Token) /\ file[k] \o b = longer
      /\ RowsIn(b) = RowsIn(pending[k]) \cup {n}
  <2>1. Buffered(k) \in [Keys -> Seq(Token)]
    BY BufferedFacts
  <2>2. file[k] \o b = longer /\ RowsIn(b) = RowsIn(pending[k]) \cup {n}
    BY BufferedFacts
  <2>. QED  BY <2>1, <2>2
<1>4. hit[k] \subseteq g /\ written'[k] = n /\ hit'[k] = g
  BY DEF LengthenedAndCut
<1>5. longer \in Seq(Token)
  <2>1. Line(n) \in Seq(Token)
    BY <1>1, TokenFacts
  <2>. DEFINE l == Line(n)
              S == Token
  <2>2. l \in Seq(S) /\ Stream(k) \in Seq(S)
    BY <1>1, <2>1
  <2>. HIDE DEF l, S
  <2>3. Stream(k) \o l \in Seq(S)
    BY <2>2, ConcatProperties
  <2>. QED  BY <2>3 DEF l, S
<1>6. Lines(longer, n, hit[k], d)
  <2>1. Lines(Stream(k), written[k], hit[k], d)
    BY DEF LineInv
  <2>. QED  BY <1>1, <2>1, LinesLengthened
<1>. HIDE DEF longer, b
<1>7. \A i \in 1 .. Len(longer) : i > Len(file[k]) => longer[i][1] \in g
  <2>1. \A i \in 1 .. Len(file[k] \o b) :
           i > Len(file[k]) => (file[k] \o b)[i][1] \in RowsIn(b)
    BY <1>1, <1>3, BehindFile
  <2>. QED  BY <1>3, <2>1
<1>. HIDE DEF g, n
<1>8. Lines(SubSeq(longer, 1, m), n, g, d + 1)
  BY <1>1, <1>2, <1>4, <1>5, <1>6, <1>7, LinesCut
<1>. QED  BY <1>2, <1>4, <1>8

\* A row that is whole in the stream and not in the buffer can be read.
LEMMA WholeIsReadable ==
    ASSUME SinkTypeOK, NEW k \in Keys, NEW n \in Nat,
           Whole(Stream(k), n), n \notin RowsIn(pending[k])
    PROVE  Readable(k, n)
<1>. DEFINE f == file[k]
            s == Stream(k)
<1>1. /\ f \in Seq(Token) /\ pending[k] \in Seq(Token)
      /\ Len(f) \in Nat /\ Len(pending[k]) \in Nat /\ DOMAIN f = 1 .. Len(f)
      /\ Len(s) = Len(f) + Len(pending[k])
      /\ \A i \in 1 .. Len(s) : i <= Len(f) => s[i] = f[i]
  BY StreamFacts, LenProperties
<1>2. \A i \in 1 .. Len(s) : i > Len(f) => s[i][1] \in RowsIn(pending[k])
  BY <1>1, BehindFile DEF Stream
<1>3. PICK i \in 1 .. Len(s) - 2 :
         /\ i = 1 \/ s[i - 1][2] = Newline
         /\ s[i] = <<n, 1>> /\ s[i + 1] = <<n, 2>> /\ s[i + 2] = <<n, Newline>>
  BY DEF Whole
<1>. HIDE DEF f, s
<1>4. /\ i \in 1 .. Len(s) /\ i + 1 \in 1 .. Len(s) /\ i + 2 \in 1 .. Len(s)
      /\ i # 1 => i - 1 \in 1 .. Len(s)
  BY <1>1, <1>3
<1>5. s[i + 2][1] = n
  BY <1>3
<1>6. i + 2 <= Len(f)
  BY <1>1, <1>2, <1>4, <1>5
<1>7. f[i] = <<n, 1>> /\ f[i + 1] = <<n, 2>> /\ f[i + 2] = <<n, Newline>>
  BY <1>1, <1>3, <1>4, <1>6
<1>8. i = 1 \/ f[i - 1][2] = Newline
  BY <1>1, <1>3, <1>4, <1>6
<1>9. i \in DOMAIN f /\ i < Len(f)
  BY <1>1, <1>3, <1>6
<1>. QED  BY <1>7, <1>8, <1>9 DEF Readable, f

\* What DamageIsLocal of module Runner says of a key.
LEMMA LineInvMeans ==
    ASSUME SinkTypeOK, NEW k \in Keys, NEW d \in Nat, LineInv(k, d)
    PROVE  /\ InOrder(k)
           /\ Cardinality(Collateral(k)) <= d
           /\ (d = 0 /\ pending[k] = <<>>) => ReadJsonl(k)
<1>. DEFINE s == Stream(k)
            B == Broken(s, written[k], hit[k])
<1>1. /\ Stream(k) \in Seq(Token) /\ DOMAIN Stream(k) = 1 .. Len(Stream(k))
      /\ file[k] \in Seq(Token) /\ written[k] \in Nat
  BY StreamFacts, LenProperties DEF SinkTypeOK
<1>2. InOrder(k)
  BY <1>1 DEF InOrder, LineInv, Lines
<1>3. IsFiniteSet(B) /\ Cardinality(B) \in Nat /\ Cardinality(B) <= d
  <2>1. IsFiniteSet(B) /\ Cardinality(B) \in Nat
    BY <1>1, BrokenFinite
  <2>2. Cardinality(B) + (IF Torn(s) THEN 1 ELSE 0) <= d
    BY DEF LineInv, Lines
  <2>. HIDE DEF B
  <2>. QED  BY <2>1, <2>2
<1>4. Cardinality(Collateral(k)) <= d
  <2>1. \A n \in 1 .. written[k] : n \in Nat
    BY <1>1
  <2>2. Collateral(k) \subseteq B
    BY <2>1, WholeIsReadable DEF Collateral, Broken
  <2>. HIDE DEF B
  <2>3. Cardinality(Collateral(k)) <= Cardinality(B) /\ Cardinality(Collateral(k)) \in Nat
    BY <1>3, <2>2, FS_Subset, FS_CardinalityType
  <2>. QED  BY <1>3, <2>3
<1>5. ASSUME d = 0, pending[k] = <<>>
      PROVE  ReadJsonl(k)
  <2>1. B = {}
    <3>. HIDE DEF B
    <3>1. Cardinality(B) = 0
      BY <1>3, <1>5
    <3>. QED  BY <1>3, <3>1, FS_EmptySet
  <2>2. hit[k] = {}
    BY <1>5 DEF LineInv, Lines
  <2>3. Stream(k) = file[k]
    BY <1>1, <1>5, ConcatEmptySeq DEF Stream
  <2>4. RowsIn(pending[k]) = {}
    BY <1>5 DEF RowsIn
  <2>5. ASSUME NEW n \in RowsIn(file[k])
        PROVE  Readable(k, n)
    <3>1. PICK i \in DOMAIN file[k] : n = file[k][i][1]
      BY DEF RowsIn
    <3>2. n \in 1 .. written[k]
      BY <1>1, <2>3, <3>1 DEF LineInv, Lines
    <3>3. n \in Nat
      BY <1>1, <3>2
    <3>4. Whole(Stream(k), n)
      BY <2>1, <2>2, <3>2 DEF Broken
    <3>. QED  BY <2>4, <3>3, <3>4, WholeIsReadable
  <2>. QED  BY <2>5 DEF ReadJsonl
<1>. QED  BY <1>2, <1>4, <1>5

=============================================================================
