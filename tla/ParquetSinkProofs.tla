------------------------- MODULE ParquetSinkProofs -------------------------
(***************************************************************************)
(* Proofs about ParquetSink, for any keys, buffer size, mix of good and    *)
(* bad rows and number of failures and crashes.                            *)
(***************************************************************************)
EXTENDS ParquetSink, FiniteSetTheorems, WellFoundedInduction, TLAPS

-----------------------------------------------------------------------------
(***************************************************************************)
(* The strengthening of the three properties                               *)
(***************************************************************************)

\* How far a call can be: write flushes one key; only a call that found rows to
\* write is past the start of a key.
CallInv ==
    /\ op = "none" => stage = "start"
    /\ op = "write" => Len(todo) = 1
    /\ stage = "replace" => buffers[Head(todo)] # <<>>

\* A buffer with rows belongs to a key of the dict; during a flush, to a key
\* that is still to come.
FlushInv ==
    \A k \in Keys : buffers[k] # <<>> =>
        /\ \E i \in 1 .. Len(order) : order[i] = k
        /\ op = "flush" => \E i \in 1 .. Len(todo) : todo[i] = k

\* Of the buffers whose rows all fit, only the one a write is flushing may be
\* full.
FillInv ==
    faults = 0 =>
        \A k \in Keys : AllFit(buffers[k]) =>
            Len(buffers[k]) < MaxRows \/ (op = "write" /\ k = Head(todo))

\* Rows and parts are numbered: no row has a number that is yet to be given.
Upto(rows, n) == \A i \in 1 .. Len(rows) : rows[i].n <= n
Numbered(k) ==
    /\ Upto(buffers[k], written[k])
    /\ \A i \in DOMAIN parts[k] : Upto(parts[k][i], written[k])
Contiguous(k) == \E n \in Nat : DOMAIN parts[k] = {i \in Nat : i < n}

\* The index chosen by _flush_key is the first free one until the call is past
\* os.replace.
IndexFree ==
    stage = "replace" => DOMAIN parts[Head(todo)] = {i \in Nat : i < index}

OrderInv(k) ==
    /\ Increasing(buffers[k])
    /\ \A i \in DOMAIN parts[k] :
          /\ Increasing(parts[k][i])
          /\ AllBefore(parts[k][i], Buffered(k))
          /\ \A j \in DOMAIN parts[k] : i < j => AllBefore(parts[k][i], parts[k][j])

\* Between os.replace and the reset of the buffer, the part just renamed holds
\* the buffer's rows.
ResetInv ==
    stage = "reset" =>
        /\ Head(todo) \in Keys
        /\ index \in DOMAIN parts[Head(todo)]
        /\ parts[Head(todo)][index] = buffers[Head(todo)]

RowsInv ==
    /\ \A k \in Keys : Numbered(k) /\ Contiguous(k) /\ OrderInv(k)
    /\ IndexFree

-----------------------------------------------------------------------------
(***************************************************************************)
(* Types                                                                   *)
(***************************************************************************)
LEMMA ElementOfSeq ==
    ASSUME NEW S, NEW s \in Seq(S)
    PROVE  Len(s) \in Nat /\ \A i \in 1 .. Len(s) : s[i] \in S
OBVIOUS

LEMMA AppendElements ==
    ASSUME NEW S, NEW s \in Seq(S), NEW e \in S
    PROVE  /\ Append(s, e) \in Seq(S)
           /\ Len(Append(s, e)) = Len(s) + 1
           /\ \A i \in 1 .. Len(s) : Append(s, e)[i] = s[i]
           /\ Append(s, e)[Len(s) + 1] = e
OBVIOUS

LEMMA SublogRows ==
    ASSUME NEW rows \in Sublogs
    PROVE  /\ Len(rows) \in Nat
           /\ \A i \in 1 .. Len(rows) : rows[i].n \in Nat /\ rows[i].fits \in Fits
<1>1. /\ Len(rows) \in Nat
      /\ \A i \in 1 .. Len(rows) : rows[i] \in [n : Nat, fits : Fits]
  <2>. DEFINE S == [n : Nat, fits : Fits]
  <2>1. rows \in Seq(S)
    BY DEF Sublogs
  <2>. HIDE DEF S
  <2>2. Len(rows) \in Nat /\ \A i \in 1 .. Len(rows) : rows[i] \in S
    BY <2>1, ElementOfSeq
  <2>. QED  BY <2>2 DEF S
<1>2. \A r \in [n : Nat, fits : Fits] : r.n \in Nat /\ r.fits \in Fits
  OBVIOUS
<1>. QED  BY <1>1, <1>2

LEMMA NextPartIndexIsFree ==
    ASSUME NEW k \in Keys, NEW n \in Nat, DOMAIN parts[k] = {i \in Nat : i < n}
    PROVE  NextPartIndex(k) = n
<1>1. CASE n = 0
  BY <1>1 DEF NextPartIndex
<1>2. CASE n # 0
  <2>1. n - 1 \in DOMAIN parts[k] /\ \A j \in DOMAIN parts[k] : j <= n - 1
    BY <1>2
  <2>2. \A i \in DOMAIN parts[k] :
            (\A j \in DOMAIN parts[k] : j <= i) => i = n - 1
    BY <2>1
  <2>3. (CHOOSE i \in DOMAIN parts[k] : \A j \in DOMAIN parts[k] : j <= i) = n - 1
    BY <2>1, <2>2
  <2>. QED  BY <1>2, <2>1, <2>3 DEF NextPartIndex
<1>. QED  BY <1>1, <1>2

\* What NextKey leaves to do.
LEMMA NextKeyFacts ==
    ASSUME TypeOK, op # "none", NextKey
    PROVE  /\ Head(todo) \in Keys /\ Len(todo) \in Nat \ {0}
           /\ stage' = "start"
           /\ op' \in {"none", op} /\ todo' \in Seq(Keys)
           /\ op' = "none" <=> todo' = <<>>
           /\ op' = "none" <=> Len(todo) = 1
           /\ op' # "none" => todo' = Tail(todo)
<1>1. todo \in Seq(Keys) /\ todo # <<>>
  BY DEF TypeOK
<1>2. Head(todo) \in Keys /\ Len(todo) \in Nat \ {0} /\ Tail(todo) \in Seq(Keys)
      /\ Len(Tail(todo)) = Len(todo) - 1
  BY <1>1
<1>3. CASE Len(todo) = 1
  BY <1>1, <1>2, <1>3 DEF NextKey, Return, Start
<1>4. CASE Len(todo) # 1
  <2>1. Len(Tail(todo)) # 0 /\ Len(<<>>) = 0
    BY <1>2, <1>4
  <2>2. Tail(todo) # <<>>
    BY <2>1, Zenon
  <2>. QED  BY <1>1, <1>2, <1>4, <2>2 DEF NextKey, Start
<1>. QED  BY <1>3, <1>4

LEMMA InitType == Init => TypeOK
BY RowsAssumption DEF Init, TypeOK, Sublogs

LEMMA WriteType ==
    ASSUME TypeOK, NEW k \in Keys, Write(k)
    PROVE  TypeOK'
<1>1. PICK fits \in Fits :
          buffers' = [buffers EXCEPT ![k] =
                        Append(@, [n |-> written'[k], fits |-> fits])]
  BY DEF Write
<1>2. written' \in [Keys -> Nat]
  BY DEF Write, TypeOK
<1>3. [n |-> written'[k], fits |-> fits] \in [n : Nat, fits : Fits]
  BY <1>2
<1>4. buffers[k] \in Sublogs
  BY DEF TypeOK
<1>5. Append(buffers[k], [n |-> written'[k], fits |-> fits]) \in Sublogs
  BY <1>3, <1>4 DEF Sublogs
<1>6. buffers' \in [Keys -> Sublogs]
  BY <1>1, <1>5 DEF TypeOK
<1>7. order' \in Seq(Keys)
  BY DEF Write, TypeOK
<1>8. <<k>> \in Seq(Keys) /\ <<k>> # <<>>
  OBVIOUS
<1>9. op' \in {"none", "write", "flush"} /\ todo' \in Seq(Keys)
      /\ (op' = "none" <=> todo' = <<>>)
  BY <1>8 DEF Write, Start, TypeOK
<1>10. UNCHANGED <<parts, stage, index, faults, crashes>>
  BY DEF Write
<1>. QED  BY <1>2, <1>6, <1>7, <1>9, <1>10 DEF TypeOK

LEMMA FlushKeyType ==
    ASSUME TypeOK, RowsInv, FlushKey
    PROVE  TypeOK'
<1>1. CASE SkipKey
  BY <1>1, NextKeyFacts DEF SkipKey, TypeOK, sinkVars
<1>2. CASE WriteTable
  <2>1. Head(todo) \in Keys
    BY <1>2 DEF WriteTable, TypeOK
  <2>2. index' \in Nat
    BY <1>2, <2>1, NextPartIndexIsFree DEF WriteTable, RowsInv, Contiguous
  <2>. QED  BY <1>2, <2>2 DEF WriteTable, TypeOK, sinkVars
<1>3. CASE TableFails
  BY <1>3 DEF TableFails, Return, Start, TypeOK, sinkVars
<1>4. CASE WriteFails
  BY <1>4 DEF WriteFails, Return, Start, TypeOK, sinkVars
<1>5. CASE Replace
  <2>1. Head(todo) \in Keys /\ index \in Nat
    BY <1>5 DEF Replace, TypeOK
  <2>2. buffers[Head(todo)] \in Sublogs
    BY <2>1 DEF TypeOK
  <2>3. /\ DOMAIN parts' = Keys
        /\ \A k \in Keys : k # Head(todo) => parts'[k] = parts[k]
        /\ parts'[Head(todo)] =
              [i \in DOMAIN parts[Head(todo)] \cup {index} |->
                  IF i = index THEN buffers[Head(todo)] ELSE parts[Head(todo)][i]]
    BY <1>5, <2>1 DEF Replace, TypeOK
  <2>4. \A k \in Keys : /\ DOMAIN parts'[k] \subseteq Nat
                         /\ \A i \in DOMAIN parts'[k] : parts'[k][i] \in Sublogs
    <3>1. TAKE k \in Keys
    <3>2. CASE k # Head(todo)
      BY <2>3, <3>2 DEF TypeOK
    <3>3. CASE k = Head(todo)
      <4>1. DOMAIN parts'[k] = DOMAIN parts[k] \cup {index}
        BY <2>3, <3>3
      <4>2. \A i \in DOMAIN parts'[k] :
                parts'[k][i] = IF i = index THEN buffers[k] ELSE parts[k][i]
        BY <2>3, <3>3
      <4>. QED  BY <2>1, <2>2, <3>3, <4>1, <4>2 DEF TypeOK
    <3>. QED  BY <3>2, <3>3
  <2>. QED  BY <1>5, <2>3, <2>4 DEF Replace, TypeOK, sinkVars
<1>6. CASE Reset
  <2>1. <<>> \in Sublogs
    BY DEF Sublogs
  <2>2. buffers' \in [Keys -> Sublogs]
    BY <1>6, <2>1 DEF Reset, TypeOK
  <2>. QED  BY <1>6, <2>2, NextKeyFacts DEF Reset, TypeOK
<1>. QED  BY <1>1, <1>2, <1>3, <1>4, <1>5, <1>6 DEF FlushKey

LEMMA CrashType ==
    ASSUME TypeOK, Crash
    PROVE  TypeOK'
<1>1. <<>> \in Sublogs
  BY DEF Sublogs
<1>. QED  BY <1>1 DEF Crash, Return, Start, TypeOK

-----------------------------------------------------------------------------
(***************************************************************************)
(* How far a call is, and what a flush still has to do                     *)
(***************************************************************************)
LEMMA CallInductive ==
    ASSUME TypeOK, CallInv, [Next]_vars
    PROVE  CallInv'
<1>. USE DEF CallInv, Return, Start, sinkVars, callVars
<1>1. CASE Flush
  BY <1>1 DEF Flush
<1>2. CASE SkipKey
  BY <1>2, NextKeyFacts DEF SkipKey
<1>3. CASE WriteTable
  BY <1>3 DEF WriteTable
<1>4. CASE TableFails \/ WriteFails
  BY <1>4 DEF TableFails, WriteFails
<1>5. CASE Replace
  BY <1>5 DEF Replace
<1>6. CASE Reset
  BY <1>6, NextKeyFacts DEF Reset
<1>7. CASE Crash
  BY <1>7 DEF Crash
<1>8. ASSUME NEW k \in Keys, Write(k)
      PROVE  CallInv'
  <2>1. Len(<<k>>) = 1
    OBVIOUS
  <2>2. op = "none" /\ stage = "start" /\ stage' = stage
    BY <1>8 DEF Write
  <2>3. op' = "write" => todo' = <<k>>
    BY <1>8, <2>2 DEF Write
  <2>. QED  BY <2>1, <2>2, <2>3
<1>9. CASE UNCHANGED vars
  BY <1>9 DEF vars
<1>. QED
  BY <1>1, <1>2, <1>3, <1>4, <1>5, <1>6, <1>7, <1>8, <1>9 DEF Next, FlushKey

\* The keys after Head(todo) stay on the list.
LEMMA LaterKeysRemain ==
    ASSUME TypeOK, op # "none", NextKey, op' # "none",
           NEW k \in Keys, k # Head(todo),
           NEW i \in 1 .. Len(todo), todo[i] = k
    PROVE  \E j \in 1 .. Len(todo') : todo'[j] = k
<1>1. todo' = Tail(todo) /\ todo \in Seq(Keys) /\ todo # <<>>
  BY NextKeyFacts DEF TypeOK
<1>2. i # 1
  BY <1>1
<1>3. i - 1 \in 1 .. Len(Tail(todo)) /\ Tail(todo)[i - 1] = k
  BY <1>1, <1>2
<1>. QED  BY <1>1, <1>3

LEMMA FlushInductive ==
    ASSUME TypeOK, FlushInv, [Next]_vars
    PROVE  FlushInv'
<1>1. CASE Flush
  BY <1>1 DEF Flush, FlushInv, Start, sinkVars, TypeOK
<1>2. ASSUME NextKey, op # "none", UNCHANGED order,
             \A k \in Keys : buffers'[k] # <<>> =>
                 buffers[k] # <<>> /\ k # Head(todo)
      PROVE  FlushInv'
  <2>1. SUFFICES ASSUME NEW k \in Keys, buffers'[k] # <<>>
                 PROVE  /\ \E i \in 1 .. Len(order') : order'[i] = k
                        /\ op' = "flush" =>
                              \E i \in 1 .. Len(todo') : todo'[i] = k
    BY DEF FlushInv
  <2>2. \E i \in 1 .. Len(order') : order'[i] = k
    BY <1>2, <2>1 DEF FlushInv
  <2>3. ASSUME op' = "flush"
        PROVE  \E i \in 1 .. Len(todo') : todo'[i] = k
    <3>1. op = "flush"
      BY <1>2, <2>3, NextKeyFacts
    <3>2. PICK i \in 1 .. Len(todo) : todo[i] = k
      BY <1>2, <2>1, <3>1 DEF FlushInv
    <3>. QED  BY <1>2, <2>1, <2>3, <3>2, LaterKeysRemain
  <2>. QED  BY <2>2, <2>3
<1>3. CASE SkipKey
  BY <1>2, <1>3 DEF SkipKey, sinkVars
<1>4. CASE Reset
  BY <1>2, <1>4 DEF Reset, TypeOK
<1>5. CASE TableFails \/ WriteFails
  BY <1>5 DEF TableFails, WriteFails, Return, Start, FlushInv, sinkVars
<1>6. CASE WriteTable \/ Replace
  BY <1>6 DEF WriteTable, Replace, FlushInv, sinkVars
<1>7. CASE Crash
  BY <1>7 DEF Crash, FlushInv
<1>8. ASSUME NEW k \in Keys, Write(k)
      PROVE  FlushInv'
  <2>1. op' # "flush"
    BY <1>8 DEF Write, Start
  <2>2. order \in Seq(Keys) /\ \A m \in Keys \ {k} : buffers'[m] = buffers[m]
    BY <1>8 DEF Write, TypeOK
  <2>3. \A m \in Keys : (\E i \in 1 .. Len(order) : order[i] = m)
                         => \E i \in 1 .. Len(order') : order'[i] = m
    BY <1>8, <2>2 DEF Write
  <2>4. \E i \in 1 .. Len(order') : order'[i] = k
    <3>1. CASE k \in ToSet(order)
      BY <1>8, <2>2, <3>1 DEF Write, ToSet
    <3>2. CASE k \notin ToSet(order)
      <4>1. order' = Append(order, k)
        BY <1>8, <3>2 DEF Write
      <4>. QED  BY <2>2, <4>1
    <3>. QED  BY <3>1, <3>2
  <2>. QED  BY <2>1, <2>2, <2>3, <2>4 DEF FlushInv
<1>9. CASE UNCHANGED vars
  BY <1>9 DEF vars, FlushInv
<1>. QED
  BY <1>1, <1>3, <1>4, <1>5, <1>6, <1>7, <1>8, <1>9 DEF Next, FlushKey

LEMMA FillInductive ==
    ASSUME TypeOK, CallInv, FillInv, [Next]_vars
    PROVE  FillInv'
<1>. SUFFICES ASSUME faults' = 0, NEW m \in Keys, AllFit(buffers'[m])
              PROVE  \/ Len(buffers'[m]) < MaxRows
                     \/ op' = "write" /\ m = Head(todo')
  BY DEF FillInv
<1>1. Len(<<>>) < MaxRows
  BY RowsAssumption
<1>2. op # "none" => todo \in Seq(Keys) /\ todo # <<>> /\ Head(todo) \in Keys
  BY DEF TypeOK
<1>3. CASE Flush
  BY <1>3 DEF Flush, Start, FillInv, CallInv, sinkVars
<1>4. ASSUME NextKey, op # "none", UNCHANGED faults,
             buffers'[Head(todo)] = <<>>,
             \A k \in Keys : k # Head(todo) => buffers'[k] = buffers[k]
      PROVE  \/ Len(buffers'[m]) < MaxRows
             \/ op' = "write" /\ m = Head(todo')
  BY <1>1, <1>2, <1>4 DEF FillInv
<1>5. CASE SkipKey
  BY <1>4, <1>5 DEF SkipKey, sinkVars
<1>6. CASE Reset
  <2>1. buffers'[Head(todo)] = <<>>
    BY <1>2, <1>6 DEF Reset, TypeOK
  <2>2. \A k \in Keys : k # Head(todo) => buffers'[k] = buffers[k]
    BY <1>6 DEF Reset, TypeOK
  <2>. QED  BY <1>4, <1>6, <2>1, <2>2 DEF Reset
<1>7. CASE WriteTable \/ Replace
  BY <1>7 DEF WriteTable, Replace, FillInv, sinkVars
<1>8. CASE TableFails
  <2>1. m # Head(todo)
    BY <1>8 DEF TableFails, sinkVars
  <2>. QED  BY <1>8, <2>1 DEF TableFails, FillInv, sinkVars
<1>9. CASE WriteFails
  BY <1>9 DEF WriteFails, TypeOK
<1>10. CASE Crash
  BY <1>1, <1>10 DEF Crash
<1>11. ASSUME NEW k \in Keys, Write(k)
       PROVE  \/ Len(buffers'[m]) < MaxRows
              \/ op' = "write" /\ m = Head(todo')
  <2>1. m # k => buffers'[m] = buffers[m]
    BY <1>11 DEF Write, TypeOK
  <2>2. op = "none" /\ faults = 0
    BY <1>11 DEF Write
  <2>3. CASE m # k
    BY <2>1, <2>2, <2>3 DEF FillInv
  <2>4. CASE m = k
    <3>1. CASE Len(buffers'[k]) >= MaxRows
      BY <1>11, <2>4, <3>1 DEF Write, Start
    <3>2. CASE ~(Len(buffers'[k]) >= MaxRows)
      <4>1. buffers' \in [Keys -> Sublogs]
        BY <1>11, WriteType DEF TypeOK
      <4>2. Len(buffers'[k]) \in Nat
        BY <4>1 DEF Sublogs
      <4>. QED  BY <2>4, <3>2, <4>2, RowsAssumption
    <3>. QED  BY <3>1, <3>2
  <2>. QED  BY <2>3, <2>4
<1>12. CASE UNCHANGED vars
  BY <1>12 DEF vars, FillInv
<1>. QED
  BY <1>3, <1>5, <1>6, <1>7, <1>8, <1>9, <1>10, <1>11, <1>12 DEF Next, FlushKey

LEMMA ResetInductive ==
    ASSUME TypeOK, CallInv, ResetInv, [Next]_vars
    PROVE  ResetInv'
<1>1. CASE Flush
  BY <1>1 DEF Flush, CallInv, ResetInv
<1>2. CASE SkipKey
  BY <1>2, NextKeyFacts DEF SkipKey, ResetInv
<1>3. CASE WriteTable
  BY <1>3 DEF WriteTable, ResetInv
<1>4. CASE TableFails \/ WriteFails
  BY <1>4 DEF TableFails, WriteFails, Return, ResetInv
<1>5. CASE Replace
  <2>1. Head(todo) \in Keys /\ UNCHANGED <<todo, index, buffers>>
    BY <1>5 DEF Replace, TypeOK, sinkVars
  <2>2. parts'[Head(todo)] =
            [i \in DOMAIN parts[Head(todo)] \cup {index} |->
                IF i = index THEN buffers[Head(todo)] ELSE parts[Head(todo)][i]]
    BY <1>5, <2>1 DEF Replace, TypeOK
  <2>. QED  BY <2>1, <2>2 DEF ResetInv
<1>6. CASE Reset
  BY <1>6, NextKeyFacts DEF Reset, ResetInv
<1>7. CASE Crash
  BY <1>7 DEF Crash, Return, ResetInv
<1>8. ASSUME NEW k \in Keys, Write(k)
      PROVE  ResetInv'
  BY <1>8 DEF Write, CallInv, ResetInv
<1>9. CASE UNCHANGED vars
  BY <1>9 DEF vars, ResetInv
<1>. QED
  BY <1>1, <1>2, <1>3, <1>4, <1>5, <1>6, <1>7, <1>8, <1>9 DEF Next, FlushKey

-----------------------------------------------------------------------------
(***************************************************************************)
(* The rows: each once, in order                                           *)
(***************************************************************************)
LEMMA WriteRows ==
    ASSUME TypeOK, CallInv, RowsInv, NEW k \in Keys, Write(k)
    PROVE  RowsInv'
<1>1. PICK fits \in Fits :
          buffers' = [buffers EXCEPT ![k] =
                        Append(@, [n |-> written'[k], fits |-> fits])]
  BY DEF Write
<1>. DEFINE row == [n |-> written'[k], fits |-> fits]
<1>2. /\ stage = "start" /\ stage' = "start" /\ parts' = parts
      /\ written \in [Keys -> Nat]
      /\ written'[k] = written[k] + 1
      /\ \A m \in Keys \ {k} : written'[m] = written[m] /\ buffers'[m] = buffers[m]
  BY <1>1 DEF Write, CallInv, TypeOK
<1>3. /\ buffers[k] \in Sublogs
      /\ row \in [n : Nat, fits : Fits] /\ row.n = written[k] + 1
      /\ buffers'[k] = Append(buffers[k], row)
  BY <1>1, <1>2 DEF TypeOK
<1>4. /\ Len(buffers'[k]) = Len(buffers[k]) + 1 /\ Len(buffers[k]) \in Nat
      /\ \A i \in 1 .. Len(buffers[k]) :
            buffers'[k][i] = buffers[k][i] /\ buffers[k][i].n \in Nat
      /\ buffers'[k][Len(buffers[k]) + 1] = row
  <2>1. \A i \in 1 .. Len(buffers[k]) : buffers[k][i].n \in Nat
    BY <1>3, SublogRows
  <2>2. buffers[k] \in Seq([n : Nat, fits : Fits])
    BY <1>3 DEF Sublogs
  <2>. HIDE DEF row
  <2>. QED  BY <1>3, <2>1, <2>2, AppendElements, ElementOfSeq
<1>5. \A m \in Keys : Buffered(m)' = buffers'[m] /\ Buffered(m) = buffers[m]
  BY <1>2 DEF Buffered
<1>6. \A m \in Keys \ {k} : Numbered(m)' /\ Contiguous(m)' /\ OrderInv(m)'
  BY <1>2, <1>5 DEF RowsInv, Numbered, Contiguous, OrderInv
<1>7. Contiguous(k)'
  BY <1>2 DEF RowsInv, Contiguous
<1>8. \A i \in DOMAIN parts[k] : parts[k][i] \in Sublogs
  BY DEF TypeOK
<1>9. Numbered(k)'
  <2>1. Upto(buffers[k], written[k])
        /\ \A i \in DOMAIN parts[k] : Upto(parts[k][i], written[k])
    BY DEF RowsInv, Numbered
  <2>2. Upto(buffers'[k], written'[k])
    BY <1>2, <1>3, <1>4, <2>1 DEF Upto
  <2>3. ASSUME NEW i \in DOMAIN parts[k]
        PROVE  Upto(parts[k][i], written'[k])
    <3>1. \A j \in 1 .. Len(parts[k][i]) : parts[k][i][j].n \in Nat
      BY <1>8, SublogRows
    <3>. QED  BY <1>2, <2>1, <3>1 DEF Upto
  <2>. QED  BY <1>2, <2>2, <2>3 DEF Numbered
<1>10. OrderInv(k)'
  <2>1. Increasing(buffers'[k])
    <3>1. Increasing(buffers[k]) /\ Upto(buffers[k], written[k])
      BY DEF RowsInv, OrderInv, Numbered
    <3>2. ASSUME NEW i \in 1 .. Len(buffers'[k]), NEW j \in 1 .. Len(buffers'[k]),
                 i < j
          PROVE  buffers'[k][i].n < buffers'[k][j].n
      <4>1. i \in 1 .. Len(buffers[k])
        BY <1>4, <3>2
      <4>2. CASE j \in 1 .. Len(buffers[k])
        BY <1>4, <3>1, <3>2, <4>1, <4>2 DEF Increasing
      <4>3. CASE j = Len(buffers[k]) + 1
        <5>1. buffers[k][i].n <= written[k] /\ buffers[k][i].n \in Nat
          BY <1>4, <3>1, <4>1 DEF Upto
        <5>2. buffers'[k][j].n = written[k] + 1 /\ buffers'[k][i].n = buffers[k][i].n
          BY <1>3, <1>4, <4>1, <4>3
        <5>3. written[k] \in Nat
          BY <1>2
        <5>. QED  BY <5>1, <5>2, <5>3
      <4>. QED  BY <1>4, <3>2, <4>2, <4>3
    <3>. QED  BY <3>2 DEF Increasing
  <2>2. ASSUME NEW i \in DOMAIN parts[k]
        PROVE  AllBefore(parts[k][i], buffers'[k])
    <3>1. \A j \in 1 .. Len(parts[k][i]) : parts[k][i][j].n \in Nat
      BY <1>8, SublogRows
    <3>2. AllBefore(parts[k][i], buffers[k]) /\ Upto(parts[k][i], written[k])
      BY <1>5 DEF RowsInv, OrderInv, Numbered
    <3>. QED  BY <1>2, <1>3, <1>4, <3>1, <3>2 DEF AllBefore, Upto
  <2>3. \A i \in DOMAIN parts[k] :
            /\ Increasing(parts[k][i])
            /\ \A j \in DOMAIN parts[k] : i < j => AllBefore(parts[k][i], parts[k][j])
    BY DEF RowsInv, OrderInv
  <2>. QED  BY <1>2, <1>5, <2>1, <2>2, <2>3 DEF OrderInv
<1>11. IndexFree'
  BY <1>2 DEF IndexFree
<1>. QED  BY <1>6, <1>7, <1>9, <1>10, <1>11 DEF RowsInv

\* Any step that leaves rows, parts and numbers alone.
LEMMA QuietRows ==
    ASSUME TypeOK, RowsInv, UNCHANGED <<buffers, parts, written>>,
           stage # "reset", stage' # "reset", IndexFree'
    PROVE  RowsInv'
BY DEF RowsInv, Numbered, Contiguous, OrderInv, Buffered

\* Emptying buffers keeps the order of what is left.
LEMMA EmptiedRows ==
    ASSUME TypeOK, RowsInv, UNCHANGED <<parts, written>>, stage' = "start",
           \A k \in Keys : buffers'[k] \in {<<>>, Buffered(k)}
    PROVE  RowsInv'
<1>1. \A k \in Keys : Buffered(k)' = buffers'[k]
  BY DEF Buffered
<1>2. \A k \in Keys : Buffered(k) \in {<<>>, buffers[k]}
  BY DEF Buffered
<1>3. 1 .. Len(<<>>) = {}
  OBVIOUS
<1>4. ASSUME NEW k \in Keys
      PROVE  Numbered(k)' /\ Contiguous(k)' /\ OrderInv(k)'
  <2>1. CASE buffers'[k] = <<>>
    <3>1. /\ Upto(buffers'[k], written'[k])
          /\ Increasing(buffers'[k])
          /\ \A i \in DOMAIN parts[k] : AllBefore(parts[k][i], buffers'[k])
      BY <1>3, <2>1 DEF Upto, Increasing, AllBefore
    <3>. QED  BY <1>1, <3>1 DEF RowsInv, Numbered, Contiguous, OrderInv
  <2>2. CASE buffers'[k] = Buffered(k) /\ buffers'[k] # <<>>
    <3>1. buffers'[k] = buffers[k] /\ Buffered(k) = buffers[k]
      BY <1>2, <2>2
    <3>. QED  BY <1>1, <3>1 DEF RowsInv, Numbered, Contiguous, OrderInv
  <2>. QED  BY <2>1, <2>2
<1>. QED  BY <1>4 DEF RowsInv, IndexFree

\* os.replace publishes the buffer as one more part.
LEMMA ReplaceRows ==
    ASSUME TypeOK, CallInv, RowsInv, Replace
    PROVE  RowsInv'
<1>0. PICK h \in Keys : h = Head(todo)
  BY DEF Replace, TypeOK
<1>1. /\ index \in Nat /\ stage = "replace" /\ stage' = "reset"
      /\ UNCHANGED <<buffers, written, todo>>
      /\ DOMAIN parts[h] = {i \in Nat : i < index}
  BY <1>0 DEF Replace, TypeOK, RowsInv, IndexFree, sinkVars
<1>2. /\ \A k \in Keys : k # h => parts'[k] = parts[k]
      /\ parts'[h] = [i \in DOMAIN parts[h] \cup {index} |->
                         IF i = index THEN buffers[h] ELSE parts[h][i]]
  BY <1>0, <1>1 DEF Replace, TypeOK
<1>3. /\ DOMAIN parts'[h] = DOMAIN parts[h] \cup {index}
      /\ parts'[h][index] = buffers[h]
      /\ \A i \in DOMAIN parts[h] : parts'[h][i] = parts[h][i] /\ i < index
  BY <1>1, <1>2
<1>4. \A k \in Keys : /\ Buffered(k) = buffers[k]
                       /\ Buffered(k)' = IF k = h THEN <<>> ELSE buffers[k]
  BY <1>0, <1>1 DEF Buffered
<1>5. \A k \in Keys : k # h => Numbered(k)' /\ Contiguous(k)' /\ OrderInv(k)'
  BY <1>1, <1>2, <1>4 DEF RowsInv, Numbered, Contiguous, OrderInv
<1>6. Contiguous(h)'
  <2>1. DOMAIN parts'[h] = {i \in Nat : i < index + 1}
    BY <1>1, <1>3
  <2>. QED  BY <1>1, <2>1 DEF Contiguous
<1>7. Numbered(h)'
  BY <1>1, <1>3 DEF RowsInv, Numbered
<1>8. OrderInv(h)'
  <2>1. /\ Increasing(buffers[h])
        /\ \A i \in DOMAIN parts[h] :
              /\ Increasing(parts[h][i])
              /\ AllBefore(parts[h][i], buffers[h])
              /\ \A j \in DOMAIN parts[h] : i < j => AllBefore(parts[h][i], parts[h][j])
    BY <1>1, <1>4 DEF RowsInv, OrderInv
  <2>2. 1 .. Len(<<>>) = {}
    OBVIOUS
  <2>3. \A rows : AllBefore(rows, <<>>)
    BY <2>2 DEF AllBefore
  <2>4. Buffered(h)' = <<>>
    BY <1>1, <1>4
  <2>5. ASSUME NEW i \in DOMAIN parts'[h], NEW j \in DOMAIN parts'[h], i < j
        PROVE  AllBefore(parts'[h][i], parts'[h][j])
    <3>1. i \in DOMAIN parts[h]
      BY <1>1, <1>3, <2>5
    <3>2. CASE j = index
      BY <1>3, <2>1, <3>1, <3>2
    <3>3. CASE j \in DOMAIN parts[h]
      BY <1>3, <2>1, <2>5, <3>1, <3>3
    <3>. QED  BY <1>3, <3>2, <3>3
  <2>6. \A i \in DOMAIN parts'[h] : Increasing(parts'[h][i])
    BY <1>3, <2>1
  <2>7. Increasing(buffers'[h])
    BY <1>1, <2>1
  <2>. QED  BY <2>3, <2>4, <2>5, <2>6, <2>7 DEF OrderInv
<1>9. IndexFree'
  BY <1>1 DEF IndexFree
<1>. QED  BY <1>5, <1>6, <1>7, <1>8, <1>9 DEF RowsInv

LEMMA RowsInductive ==
    ASSUME TypeOK, CallInv, RowsInv, [Next]_vars
    PROVE  RowsInv'
<1>1. CASE Flush
  <2>1. stage = "start" /\ stage' = "start"
    BY <1>1 DEF Flush, CallInv
  <2>. QED  BY <1>1, <2>1, QuietRows DEF Flush, IndexFree, sinkVars
<1>2. CASE SkipKey
  <2>1. stage = "start" /\ stage' = "start"
    BY <1>2, NextKeyFacts DEF SkipKey
  <2>. QED  BY <1>2, <2>1, QuietRows DEF SkipKey, IndexFree, sinkVars
<1>3. CASE WriteTable
  <2>1. Head(todo) \in Keys
    BY <1>3 DEF WriteTable, TypeOK
  <2>2. PICK n \in Nat : DOMAIN parts[Head(todo)] = {i \in Nat : i < n}
    BY <2>1 DEF RowsInv, Contiguous
  <2>3. index' = n
    BY <1>3, <2>1, <2>2, NextPartIndexIsFree DEF WriteTable
  <2>4. IndexFree'
    BY <1>3, <2>2, <2>3 DEF WriteTable, IndexFree
  <2>. QED  BY <1>3, <2>4, QuietRows DEF WriteTable, sinkVars
<1>4. CASE TableFails \/ WriteFails
  <2>1. stage # "reset" /\ stage' = "start" /\ UNCHANGED <<buffers, parts, written>>
    BY <1>4 DEF TableFails, WriteFails, Return, sinkVars
  <2>. QED  BY <2>1, QuietRows DEF IndexFree
<1>5. CASE Replace
  BY <1>5, ReplaceRows
<1>6. CASE Reset
  <2>1. stage' = "start" /\ UNCHANGED <<parts, written>> /\ stage = "reset"
    BY <1>6, NextKeyFacts DEF Reset
  <2>2. \A k \in Keys : buffers'[k] \in {<<>>, Buffered(k)}
    BY <1>6, <2>1 DEF Reset, Buffered, TypeOK
  <2>. QED  BY <2>1, <2>2, EmptiedRows
<1>7. CASE Crash
  <2>1. stage' = "start" /\ UNCHANGED <<parts, written>>
    BY <1>7 DEF Crash, Return
  <2>2. \A k \in Keys : buffers'[k] \in {<<>>, Buffered(k)}
    BY <1>7 DEF Crash
  <2>. QED  BY <2>1, <2>2, EmptiedRows
<1>8. ASSUME NEW k \in Keys, Write(k)
      PROVE  RowsInv'
  BY <1>8, WriteRows
<1>9. CASE UNCHANGED vars
  BY <1>9 DEF vars, RowsInv, Numbered, Contiguous, OrderInv, Buffered, IndexFree
<1>. QED
  BY <1>1, <1>2, <1>3, <1>4, <1>5, <1>6, <1>7, <1>8, <1>9 DEF Next, FlushKey

-----------------------------------------------------------------------------
(***************************************************************************)
(* The theorems                                                            *)
(***************************************************************************)
IInv == TypeOK /\ CallInv /\ FlushInv /\ FillInv /\ ResetInv /\ RowsInv

LEMMA Inductive == Spec => []IInv
<1>1. Init => IInv
  <2>. SUFFICES ASSUME Init PROVE IInv
    OBVIOUS
  <2>1. CallInv /\ FlushInv /\ ResetInv
    BY DEF Init, CallInv, FlushInv, ResetInv
  <2>6. FillInv
    <3>1. Len(<<>>) < MaxRows
      BY RowsAssumption
    <3>. QED  BY <3>1 DEF Init, FillInv
  <2>2. 1 .. Len(<<>>) = {} /\ DOMAIN <<>> = {}
    OBVIOUS
  <2>3. \A k \in Keys : DOMAIN parts[k] = {} /\ buffers[k] = <<>>
    BY <2>2 DEF Init
  <2>4. \A k \in Keys : Contiguous(k)
    <3>1. {} = {i \in Nat : i < 0}
      OBVIOUS
    <3>. QED  BY <2>3, <3>1 DEF Contiguous
  <2>5. RowsInv
    BY <2>2, <2>3, <2>4
    DEF Init, RowsInv, Numbered, OrderInv, Upto, Increasing, IndexFree
  <2>. QED  BY <2>1, <2>5, <2>6, InitType DEF IInv
<1>2. IInv /\ [Next]_vars => IInv'
  <2>. SUFFICES ASSUME IInv, [Next]_vars PROVE IInv'
    OBVIOUS
  <2>1. TypeOK'
    <3>1. CASE Flush
      BY <3>1 DEF Flush, Start, IInv, TypeOK, sinkVars
    <3>2. CASE UNCHANGED vars
      BY <3>2 DEF vars, IInv, TypeOK
    <3>. QED
      BY <3>1, <3>2, FlushKeyType, CrashType, WriteType DEF Next, IInv
  <2>. QED
    BY <2>1, CallInductive, FlushInductive, FillInductive, ResetInductive,
       RowsInductive DEF IInv
<1>. QED  BY <1>1, <1>2, PTL DEF Spec

\* Every variable keeps its type in every behaviour of the sink.
THEOREM TypeCorrect == Spec => []TypeOK
<1>1. IInv => TypeOK
  BY DEF IInv
<1>. QED  BY <1>1, Inductive, PTL

\* Rows are never doubled, reordered or overwritten on disk, wherever a call
\* fails and wherever the process dies (_flush_key, _next_part_index).
THEOREM RowsKept == Spec => []RowsOnceInOrder
<1>1. IInv => RowsOnceInOrder
  <2>1. ASSUME NEW k \in Keys, Contiguous(k)
        PROVE  \A i \in DOMAIN parts[k] : 0 .. i \subseteq DOMAIN parts[k]
    BY <2>1 DEF Contiguous
  <2>. QED  BY <2>1 DEF IInv, RowsInv, OrderInv, RowsOnceInOrder
<1>. QED  BY <1>1, Inductive, PTL

\* Without failures a buffer never outgrows max_rows between calls (write).
THEOREM BuffersBounded == Spec => []BoundedBuffers
<1>1. IInv => BoundedBuffers
  BY DEF IInv, FillInv, BoundedBuffers
<1>. QED  BY <1>1, Inductive, PTL

\* A flush that returns normally has left no row in memory (flush, close).
THEOREM FlushIsComplete == Spec => FlushEmptiesBuffers
<1>1. ASSUME IInv, [Next]_vars, op = "flush", SkipKey \/ Reset, op' = "none"
      PROVE  \A k \in Keys : buffers'[k] = <<>>
  <2>1. NextKey
    BY <1>1 DEF SkipKey, Reset
  <2>2. Len(todo) = 1 /\ Head(todo) \in Keys
    BY <1>1, <2>1, NextKeyFacts DEF IInv
  <2>3. todo[1] = Head(todo)
    BY <1>1, <2>2 DEF IInv, TypeOK
  <2>4. \A k \in Keys : k # Head(todo) => buffers[k] = <<>>
    BY <1>1, <2>2, <2>3 DEF IInv, FlushInv
  <2>5. CASE SkipKey
    BY <2>4, <2>5 DEF SkipKey, sinkVars
  <2>6. CASE Reset
    BY <1>1, <2>4, <2>6 DEF Reset, IInv, TypeOK
  <2>. QED  BY <1>1, <2>5, <2>6
<1>2. IInv /\ [Next]_vars =>
        [(op = "flush" /\ (SkipKey \/ Reset) /\ op' = "none")
           => \A k \in Keys : buffers'[k] = <<>>]_vars
  BY <1>1
<1>. QED  BY <1>2, Inductive, PTL DEF Spec, FlushEmptiesBuffers

-----------------------------------------------------------------------------
(***************************************************************************)
(* Reading the parts back                                                  *)
(***************************************************************************)

\* Every set of natural numbers has a smallest.
LEMMA Smallest ==
    ASSUME NEW S \in SUBSET Nat, S # {}
    PROVE  \E n \in S : \A m \in S : n <= m
<1>. DEFINE R == OpToRel(<, Nat)
<1>1. IsWellFoundedOn(R, Nat)
  BY NatLessThanWellFounded, Zenon
<1>2. \A x, y \in Nat : y < x => <<y, x>> \in R
  BY DEF OpToRel
<1>. HIDE DEF R
<1>3. \E x \in S : \A y \in S : ~ (<<y, x>> \in R)
  BY <1>1, WFMin
<1>4. S \subseteq Nat
  OBVIOUS
<1>5. \A x, y \in Nat : ~(y < x) => x <= y
  OBVIOUS
<1>. QED  BY <1>2, <1>3, <1>4, <1>5

\* As long as no index outgrows the padding, the order of the names is the order
\* of the indices.
LEMMA NamesInOrder ==
    ASSUME NEW i \in Nat, NEW j \in Nat, i < Limit, j < Limit
    PROVE  Before(i, j) <=> i < j
<1>1. \A a, b, c \in Nat : a < b => a * (c + 1) < b * (c + 1)
  OBVIOUS
<1>2. PICK c \in Nat : Base = c + 1
  BY NamesAssumption
<1>3. i < j => i * Base < j * Base
  BY <1>1, <1>2
<1>4. j < i => j * Base < i * Base
  BY <1>1, <1>2
<1>5. i * Base \in Nat /\ j * Base \in Nat
  BY <1>2
<1>6. Leading(i) = i * Base /\ Leading(j) = j * Base
  BY DEF Leading
<1>. QED  BY <1>3, <1>4, <1>5, <1>6 DEF Before

\* There is one way only to put the numbers below n in order.
LEMMA Enumerated ==
    ASSUME NEW n \in Nat, NEW s \in [1 .. n -> 0 .. n - 1],
           \A a, b \in 1 .. n : a < b => s[a] < s[b]
    PROVE  s = [m \in 1 .. n |-> m - 1]
<1>1. \A m \in 1 .. n : s[m] \in Nat /\ s[m] <= n - 1 /\ m \in Nat
  OBVIOUS
<1>2. \A m \in 1 .. n : s[m] >= m - 1
  <2>. DEFINE V == {m \in 1 .. n : ~(s[m] >= m - 1)}
  <2>1. SUFFICES ASSUME V # {} PROVE FALSE
    OBVIOUS
  <2>2. V \in SUBSET Nat
    OBVIOUS
  <2>3. PICK m \in V : \A k \in V : m <= k
    BY <2>1, <2>2, Smallest
  <2>4. m \in 1 .. n /\ ~(s[m] >= m - 1)
    OBVIOUS
  <2>5. m # 1
    BY <1>1, <2>4
  <2>6. m - 1 \in 1 .. n /\ m - 1 < m
    BY <2>4, <2>5
  <2>7. m - 1 \notin V
    BY <2>3, <2>4, <2>6
  <2>8. s[m - 1] >= (m - 1) - 1
    BY <2>6, <2>7
  <2>9. s[m - 1] < s[m]
    BY <2>4, <2>6
  <2>. QED  BY <1>1, <2>4, <2>6, <2>8, <2>9
<1>3. \A m \in 1 .. n : s[m] <= m - 1
  <2>. DEFINE V == {d \in 0 .. n - 1 : ~(s[n - d] <= n - d - 1)}
  <2>1. SUFFICES ASSUME V # {} PROVE FALSE
    <3>1. ASSUME NEW m \in 1 .. n, V = {} PROVE s[m] <= m - 1
      <4>1. n - m \in 0 .. n - 1 /\ n - (n - m) = m
        OBVIOUS
      <4>2. n - m \notin V
        BY <3>1
      <4>. QED  BY <4>1, <4>2
    <3>. QED  BY <3>1
  <2>2. V \in SUBSET Nat
    OBVIOUS
  <2>3. PICK d \in V : \A k \in V : d <= k
    BY <2>1, <2>2, Smallest
  <2>4. d \in 0 .. n - 1 /\ ~(s[n - d] <= n - d - 1)
    OBVIOUS
  <2>5. d # 0
    <3>1. n \in 1 .. n /\ n - 0 = n
      BY <2>4
    <3>. QED  BY <1>1, <2>4, <3>1
  <2>6. d - 1 \in 0 .. n - 1 /\ d - 1 < d /\ n - (d - 1) = (n - d) + 1
    BY <2>4, <2>5
  <2>7. d - 1 \notin V
    <3>1. d \in Nat /\ ~(d <= d - 1)
      BY <2>4
    <3>. HIDE DEF V
    <3>. QED  BY <2>3, <3>1
  <2>8. s[n - (d - 1)] <= n - (d - 1) - 1
    BY <2>6, <2>7
  <2>9. n - d \in 1 .. n /\ (n - d) + 1 \in 1 .. n /\ n - d < (n - d) + 1
    BY <2>4, <2>5
  <2>10. s[n - d] < s[(n - d) + 1]
    BY <2>9
  <2>11. s[(n - d) + 1] <= n - d
    BY <2>6, <2>8
  <2>12. s[n - d] \in Nat /\ s[(n - d) + 1] \in Nat
    BY <1>1, <2>9
  <2>. QED  BY <2>4, <2>10, <2>11, <2>12
<1>4. \A m \in 1 .. n : s[m] = m - 1
  BY <1>1, <1>2, <1>3
<1>. QED  BY <1>4

\* read_parquet reads the parts in the order of their indices.
LEMMA SortedIs ==
    ASSUME NEW n \in Nat, n <= Limit, NEW D, D = {i \in Nat : i < n}
    PROVE  SortedParts(D) = [m \in 1 .. n |-> m - 1]
<1>. DEFINE ordered(s) == \A a, b \in DOMAIN s : a < b => Before(s[a], s[b])
            w == [m \in 1 .. n |-> m - 1]
<1>1. D = 0 .. n - 1
  OBVIOUS
<1>2. Cardinality(D) = n
  <2>1. 0 \in Int /\ n - 1 \in Int
    OBVIOUS
  <2>2. Cardinality(0 .. n - 1) = IF 0 > n - 1 THEN 0 ELSE (n - 1) - 0 + 1
    BY <2>1, FS_Interval
  <2>3. Cardinality(0 .. n - 1) = n
    BY <2>2
  <2>. QED  BY <1>1, <2>3
<1>3. \A i, j \in D : Before(i, j) <=> i < j
  <2>1. \A i \in D : i \in Nat /\ i < Limit
    BY NamesAssumption
  <2>. QED  BY <2>1, NamesInOrder
<1>4. w \in [1 .. n -> D] /\ ordered(w)
  <2>1. w \in [1 .. n -> D]
    BY <1>1
  <2>2. \A a, b \in 1 .. n : a < b => w[a] < w[b]
    OBVIOUS
  <2>. QED  BY <1>3, <2>1, <2>2
<1>5. ASSUME NEW s \in [1 .. n -> D], ordered(s)
      PROVE  s = w
  <2>1. \A a, b \in 1 .. n : a < b => s[a] < s[b]
    <3>1. DOMAIN s = 1 .. n /\ \A a \in 1 .. n : s[a] \in D
      OBVIOUS
    <3>. QED  BY <1>3, <1>5, <3>1
  <2>2. s \in [1 .. n -> 0 .. n - 1]
    BY <1>1
  <2>. QED  BY <2>1, <2>2, Enumerated
<1>6. SortedParts(D) = CHOOSE s \in [1 .. n -> D] : ordered(s)
  BY <1>2 DEF SortedParts
<1>. HIDE DEF ordered, w
<1>7. (CHOOSE s \in [1 .. n -> D] : ordered(s)) = w
  BY <1>4, <1>5
<1>. QED  BY <1>6, <1>7 DEF w

\* f gives the concatenation of the first i elements of s, for each i up to n.
Accumulates(f, s, n) ==
    f = [i \in 1 .. n |-> IF i = 1 THEN s[i] ELSE f[i - 1] \o s[i]]

LEMMA Accumulated ==
    ASSUME NEW T, NEW n \in Nat, NEW s, \A i \in 1 .. n : s[i] \in Seq(T)
    PROVE  \E f \in [1 .. n -> Seq(T)] : Accumulates(f, s, n)
<1>. DEFINE ok(m) == \E f \in [1 .. m -> Seq(T)] : Accumulates(f, s, m)
            V == {m \in 0 .. n : ~ok(m)}
<1>1. SUFFICES ASSUME V # {} PROVE FALSE
  <2>1. n \in 0 .. n
    OBVIOUS
  <2>. HIDE DEF ok
  <2>2. ASSUME V = {} PROVE ok(n)
    BY <2>1, <2>2
  <2>. QED  BY <2>2 DEF ok
<1>2. V \in SUBSET Nat
  OBVIOUS
<1>3. PICK m \in V : \A k \in V : m <= k
  BY <1>1, <1>2, Smallest
<1>4. m \in 0 .. n /\ ~ok(m)
  OBVIOUS
<1>5. m # 0
  <2>1. ASSUME m = 0 PROVE FALSE
    <3>. DEFINE f == [i \in 1 .. 0 |-> <<>>]
    <3>1. 1 .. 0 = {}
      OBVIOUS
    <3>2. f \in [1 .. 0 -> Seq(T)] /\ Accumulates(f, s, 0)
      BY <3>1 DEF Accumulates
    <3>3. ok(0)
      BY <3>2
    <3>. HIDE DEF ok
    <3>. QED  BY <1>4, <2>1, <3>3
  <2>. QED  BY <2>1
<1>6. ok(m - 1)
  <2>1. m - 1 \in 0 .. n /\ ~(m <= m - 1)
    BY <1>4, <1>5
  <2>. HIDE DEF ok
  <2>. QED  BY <1>3, <2>1
<1>7. PICK g \in [1 .. m - 1 -> Seq(T)] : Accumulates(g, s, m - 1)
  BY <1>6
<1>8. \A i \in 1 .. m - 1 : g[i] = IF i = 1 THEN s[i] ELSE g[i - 1] \o s[i]
  BY <1>7 DEF Accumulates
<1>. DEFINE last == IF m = 1 THEN s[m] ELSE g[m - 1] \o s[m]
            f == [i \in 1 .. m |-> IF i = m THEN last ELSE g[i]]
<1>9. m \in Nat /\ m > 0 /\ s[m] \in Seq(T)
  BY <1>4, <1>5
<1>10. last \in Seq(T)
  <2>1. CASE m = 1
    BY <1>9, <2>1
  <2>2. CASE m # 1
    <3>1. g[m - 1] \in Seq(T)
      BY <1>9, <2>2
    <3>. QED  BY <1>9, <2>2, <3>1
  <2>. QED  BY <2>1, <2>2
<1>11. \A i \in 1 .. m : i = m \/ i \in 1 .. m - 1
  BY <1>9
<1>12. f \in [1 .. m -> Seq(T)]
  <2>. HIDE DEF last
  <2>. QED  BY <1>10, <1>11
<1>13. \A i \in 1 .. m : f[i] = IF i = 1 THEN s[i] ELSE f[i - 1] \o s[i]
  <2>. SUFFICES ASSUME NEW i \in 1 .. m
                PROVE  f[i] = IF i = 1 THEN s[i] ELSE f[i - 1] \o s[i]
    OBVIOUS
  <2>1. i # 1 => i - 1 \in 1 .. m /\ i - 1 # m
    BY <1>9
  <2>2. i # 1 => f[i - 1] = g[i - 1]
    <3>. HIDE DEF last
    <3>. QED  BY <2>1
  <2>3. CASE i = m
    <3>1. f[i] = last
      <4>. HIDE DEF last
      <4>. QED  BY <2>3
    <3>. QED  BY <2>2, <2>3, <3>1
  <2>4. CASE i # m
    <3>1. f[i] = g[i] /\ i \in 1 .. m - 1
      <4>. HIDE DEF last
      <4>. QED  BY <1>11, <2>4
    <3>. QED  BY <1>8, <2>2, <3>1
  <2>. QED  BY <2>3, <2>4
<1>14. Accumulates(f, s, m)
  <2>1. f = [i \in 1 .. m |-> f[i]]
    OBVIOUS
  <2>. HIDE DEF f
  <2>. QED  BY <1>13, <2>1 DEF Accumulates
<1>15. ok(m)
  <2>. HIDE DEF f
  <2>. QED  BY <1>12, <1>14
<1>. HIDE DEF ok
<1>. QED  BY <1>4, <1>15

\* Two such functions agree as far as both go.
Steps(f, s, m) == \A i \in 1 .. m : f[i] = IF i = 1 THEN s[i] ELSE f[i - 1] \o s[i]

LEMMA AccumulatesOnce ==
    ASSUME NEW m \in Nat \ {0}, NEW s, NEW f, NEW g, Steps(f, s, m), Steps(g, s, m)
    PROVE  f[m] = g[m]
<1>. DEFINE V == {i \in 1 .. m : f[i] # g[i]}
<1>1. SUFFICES ASSUME V # {} PROVE FALSE
  OBVIOUS
<1>2. V \in SUBSET Nat
  OBVIOUS
<1>3. PICK i \in V : \A k \in V : i <= k
  BY <1>1, <1>2, Smallest
<1>4. i \in 1 .. m /\ f[i] # g[i]
  OBVIOUS
<1>5. /\ f[i] = IF i = 1 THEN s[i] ELSE f[i - 1] \o s[i]
      /\ g[i] = IF i = 1 THEN s[i] ELSE g[i - 1] \o s[i]
  BY <1>4 DEF Steps
<1>6. i # 1 => f[i - 1] = g[i - 1]
  <2>1. i # 1 => i - 1 \in 1 .. m /\ ~(i <= i - 1)
    BY <1>4
  <2>. QED  BY <1>3, <2>1
<1>. QED  BY <1>4, <1>5, <1>6

LEMMA AccumulatesSteps ==
    ASSUME NEW n, NEW s, NEW f, Accumulates(f, s, n)
    PROVE  Steps(f, s, n)
BY DEF Accumulates, Steps

\* FlattenSeq of nothing, and of a sequence as the functions above have it.
LEMMA FlattenIs ==
    ASSUME NEW s, Len(s) \in Nat, Len(s) > 0, NEW f, Accumulates(f, s, Len(s))
    PROVE  FlattenSeq(s) = f[Len(s)]
<1>. DEFINE n == Len(s)
            c == CHOOSE g : g = [i \in 1 .. n |-> IF i = 1 THEN s[i] ELSE g[i - 1] \o s[i]]
<1>1. FlattenSeq(s) = c[n]
  BY DEF FlattenSeq
<1>2. \E g : g = [i \in 1 .. n |-> IF i = 1 THEN s[i] ELSE g[i - 1] \o s[i]]
  BY DEF Accumulates
<1>3. c = [i \in 1 .. n |-> IF i = 1 THEN s[i] ELSE c[i - 1] \o s[i]]
  BY <1>2
<1>. HIDE DEF c
<1>4. Accumulates(c, s, n)
  BY <1>3 DEF Accumulates
<1>5. Steps(c, s, n) /\ Steps(f, s, n)
  BY <1>4, AccumulatesSteps
<1>6. n \in Nat \ {0}
  OBVIOUS
<1>7. c[n] = f[n]
  <2>. HIDE DEF n
  <2>. QED  BY <1>5, <1>6, AccumulatesOnce
<1>. QED  BY <1>1, <1>7

LEMMA FlattenEmpty == FlattenSeq(<<>>) = <<>>
BY DEF FlattenSeq

LEMMA FlattenType ==
    ASSUME NEW T, NEW s \in Seq(Seq(T))
    PROVE  FlattenSeq(s) \in Seq(T)
<1>1. Len(s) \in Nat /\ \A i \in 1 .. Len(s) : s[i] \in Seq(T)
  OBVIOUS
<1>2. CASE Len(s) = 0
  <2>1. s = <<>>
    BY <1>2
  <2>2. <<>> \in Seq(T)
    OBVIOUS
  <2>. QED  BY <2>1, <2>2, FlattenEmpty, Zenon
<1>3. CASE Len(s) > 0
  <2>1. PICK f \in [1 .. Len(s) -> Seq(T)] : Accumulates(f, s, Len(s))
    BY <1>1, Accumulated
  <2>2. FlattenSeq(s) = f[Len(s)]
    BY <1>1, <1>3, <2>1, FlattenIs
  <2>3. Len(s) \in 1 .. Len(s)
    BY <1>1, <1>3
  <2>. QED  BY <2>2, <2>3
<1>. QED  BY <1>1, <1>2, <1>3

\* One more element goes to the end.
LEMMA FlattenAppend ==
    ASSUME NEW T, NEW s \in Seq(Seq(T)), NEW e \in Seq(T)
    PROVE  FlattenSeq(Append(s, e)) = FlattenSeq(s) \o e
<1>. DEFINE n == Len(s)
            r == Append(s, e)
<1>1. /\ n \in Nat /\ Len(r) = n + 1 /\ r[n + 1] = e
      /\ \A i \in 1 .. n : r[i] = s[i] /\ s[i] \in Seq(T)
  OBVIOUS
<1>. HIDE DEF n, r
<1>2. \A i \in 1 .. n + 1 : r[i] \in Seq(T)
  <2>1. \A i \in 1 .. n + 1 : i = n + 1 \/ i \in 1 .. n
    BY <1>1
  <2>. QED  BY <1>1, <2>1
<1>3. n + 1 \in Nat
  BY <1>1
<1>4. PICK g \in [1 .. n + 1 -> Seq(T)] : Accumulates(g, r, n + 1)
  BY <1>2, <1>3, Accumulated
<1>5. FlattenSeq(r) = g[n + 1]
  <2>1. Len(r) \in Nat /\ Len(r) > 0
    BY <1>1
  <2>2. Accumulates(g, r, Len(r))
    BY <1>1, <1>4
  <2>3. FlattenSeq(r) = g[Len(r)]
    BY <2>1, <2>2, FlattenIs
  <2>. QED  BY <1>1, <2>3
<1>6. g[n + 1] = IF n + 1 = 1 THEN e ELSE g[(n + 1) - 1] \o e
  <2>1. n + 1 \in 1 .. n + 1
    BY <1>1
  <2>. QED  BY <1>1, <1>4, <2>1 DEF Accumulates
<1>7. CASE n = 0
  <2>1. s = <<>>
    BY <1>7 DEF n
  <2>2. <<>> \o e = e
    OBVIOUS
  <2>. QED  BY <1>5, <1>6, <1>7, <2>1, <2>2, FlattenEmpty DEF r
<1>8. CASE n > 0
  <2>1. PICK f \in [1 .. n -> Seq(T)] : Accumulates(f, s, n)
    BY <1>1, Accumulated
  <2>2. FlattenSeq(s) = f[n]
    BY <1>1, <1>8, <2>1, FlattenIs DEF n
  <2>4. f[n] = g[n]
    <3>1. Steps(f, s, n)
      BY <2>1, AccumulatesSteps
    <3>2. Steps(g, r, n + 1)
      BY <1>4, AccumulatesSteps
    <3>3. ASSUME NEW i \in 1 .. n
          PROVE  g[i] = IF i = 1 THEN s[i] ELSE g[i - 1] \o s[i]
      <4>1. i \in 1 .. n + 1 /\ r[i] = s[i]
        BY <1>1
      <4>2. g[i] = IF i = 1 THEN r[i] ELSE g[i - 1] \o r[i]
        BY <3>2, <4>1 DEF Steps
      <4>. QED  BY <4>1, <4>2
    <3>4. Steps(g, s, n)
      BY <3>3 DEF Steps
    <3>5. n \in Nat \ {0}
      BY <1>1, <1>8
    <3>. QED  BY <3>1, <3>4, <3>5, AccumulatesOnce
  <2>5. (n + 1) - 1 = n /\ n + 1 # 1
    BY <1>1, <1>8
  <2>. QED  BY <1>5, <1>6, <2>2, <2>4, <2>5 DEF r
<1>. QED  BY <1>1, <1>7, <1>8

-----------------------------------------------------------------------------
(***************************************************************************)
(* The refinement of DurableLog                                            *)
(***************************************************************************)

\* What read_parquet gives for n parts p[0], p[1], ...
Concat(p, n) == FlattenSeq([m \in 1 .. n |-> p[m - 1]])

LEMMA SublogsAre ==
    ASSUME NEW rows
    PROVE  rows \in Sublogs <=> rows \in Seq([n : Nat, fits : Fits])
BY DEF Sublogs

LEMMA ConcatType ==
    ASSUME NEW T, NEW n \in Nat, NEW p, \A i \in Nat : i < n => p[i] \in Seq(T)
    PROVE  Concat(p, n) \in Seq(T)
<1>. DEFINE s == [m \in 1 .. n |-> p[m - 1]]
<1>1. \A m \in 1 .. n : p[m - 1] \in Seq(T)
  <2>1. \A m \in 1 .. n : m - 1 \in Nat /\ m - 1 < n
    OBVIOUS
  <2>. QED  BY <2>1
<1>2. s \in Seq(Seq(T))
  BY <1>1
<1>. HIDE DEF s
<1>3. FlattenSeq(s) \in Seq(T)
  BY <1>2, FlattenType
<1>. QED  BY <1>3 DEF Concat, s

LEMMA ConcatEmpty ==
    ASSUME NEW p
    PROVE  Concat(p, 0) = <<>>
<1>1. [m \in 1 .. 0 |-> p[m - 1]] = <<>>
  OBVIOUS
<1>. QED  BY <1>1, FlattenEmpty, Zenon DEF Concat

LEMMA ConcatSame ==
    ASSUME NEW n \in Nat, NEW p, NEW q, \A i \in Nat : i < n => q[i] = p[i]
    PROVE  Concat(q, n) = Concat(p, n)
<1>1. \A m \in 1 .. n : m - 1 \in Nat /\ m - 1 < n
  OBVIOUS
<1>2. [m \in 1 .. n |-> q[m - 1]] = [m \in 1 .. n |-> p[m - 1]]
  BY <1>1
<1>. QED  BY <1>2, Zenon DEF Concat

\* One more part goes to the end.
Extends(q, p, n, T) == \A i \in Nat : i < n => p[i] \in Seq(T) /\ q[i] = p[i]

LEMMA ConcatNext ==
    ASSUME NEW T, NEW n \in Nat, NEW p, NEW q, Extends(q, p, n, T), q[n] \in Seq(T)
    PROVE  Concat(q, n + 1) = Concat(p, n) \o q[n]
<1>. DEFINE s == [m \in 1 .. n |-> p[m - 1]]
            r == [m \in 1 .. n + 1 |-> q[m - 1]]
<1>1. \A m \in 1 .. n : p[m - 1] \in Seq(T) /\ q[m - 1] = p[m - 1]
  <2>1. \A m \in 1 .. n : m - 1 \in Nat /\ m - 1 < n
    OBVIOUS
  <2>. QED  BY <2>1 DEF Extends
<1>2. s \in Seq(Seq(T)) /\ Len(s) = n
  BY <1>1
<1>3. r = Append(s, q[n])
  <2>1. \A m \in 1 .. n + 1 : m \in 1 .. n \/ (m = n + 1 /\ m - 1 = n)
    OBVIOUS
  <2>2. \A m \in 1 .. n : s[m] = q[m - 1]
    BY <1>1
  <2>3. Append(s, q[n]) = [m \in 1 .. n + 1 |-> IF m = n + 1 THEN q[n] ELSE s[m]]
    OBVIOUS
  <2>4. \A m \in 1 .. n + 1 : (IF m = n + 1 THEN q[n] ELSE s[m]) = q[m - 1]
    <3>. HIDE DEF s
    <3>. QED  BY <2>1, <2>2
  <2>. HIDE DEF s
  <2>. QED  BY <2>3, <2>4
<1>4. q[n] \in Seq(T)
  OBVIOUS
<1>. HIDE DEF s, r
<1>5. FlattenSeq(Append(s, q[n])) = FlattenSeq(s) \o q[n]
  BY <1>2, <1>4, FlattenAppend
<1>. QED  BY <1>3, <1>5 DEF Concat, s, r

\* read_parquet, as long as the names suffice.
LEMMA ReadIs ==
    ASSUME NEW k \in Keys, NEW n \in Nat, n <= Limit, DOMAIN parts[k] = {i \in Nat : i < n}
    PROVE  ReadParquet(k) = Concat(parts[k], n)
<1>1. SortedParts(DOMAIN parts[k]) = [m \in 1 .. n |-> m - 1]
  BY SortedIs
<1>. DEFINE f == SortedParts(DOMAIN parts[k])
<1>. HIDE DEF f
<1>2. DOMAIN f = 1 .. n /\ \A m \in 1 .. n : f[m] = m - 1
  BY <1>1 DEF f
<1>3. [m \in DOMAIN f |-> parts[k][f[m]]] = [m \in 1 .. n |-> parts[k][m - 1]]
  BY <1>2
<1>4. ReadParquet(k) = FlattenSeq([m \in DOMAIN f |-> parts[k][f[m]]])
  BY DEF ReadParquet, f
<1>. QED  BY <1>3, <1>4, Zenon DEF Concat

LEMMA ReadIsNext ==
    ASSUME NEW k \in Keys, NEW n \in Nat, n <= Limit, DOMAIN parts'[k] = {i \in Nat : i < n}
    PROVE  ReadParquet(k)' = Concat(parts'[k], n)
<1>1. SortedParts(DOMAIN parts'[k]) = [m \in 1 .. n |-> m - 1]
  BY SortedIs
<1>. DEFINE f == SortedParts(DOMAIN parts'[k])
<1>. HIDE DEF f
<1>2. DOMAIN f = 1 .. n /\ \A m \in 1 .. n : f[m] = m - 1
  BY <1>1 DEF f
<1>3. [m \in DOMAIN f |-> parts'[k][f[m]]] = [m \in 1 .. n |-> parts'[k][m - 1]]
  BY <1>2
<1>4. ReadParquet(k)' = FlattenSeq([m \in DOMAIN f |-> parts'[k][f[m]]])
  BY DEF ReadParquet, f
<1>. QED  BY <1>3, <1>4, Zenon DEF Concat

\* What DurableLog sees of the sink.
LogOf     == [k \in Keys |-> ReadParquet(k) \o Unwritten(k)]
DurableOf == [k \in Keys |-> Len(ReadParquet(k))]

\* No index outgrows the padding of the names.
NamesSuffice == \A k \in Keys : \A i \in DOMAIN parts[k] : i < Limit

LEMMA UnwrittenIs ==
    ASSUME TypeOK, ResetInv, NEW k \in Keys
    PROVE  Unwritten(k) = Buffered(k)
<1>1. CASE stage = "reset" /\ k = Head(todo)
  <2>1. parts[k][index] = buffers[k] /\ buffers[k] \in Seq([n : Nat, fits : Fits])
    BY <1>1 DEF ResetInv, TypeOK, Sublogs
  <2>2. \A T : \A s \in Seq(T) : SubSeq(s, Len(s) + 1, Len(s)) = <<>>
    OBVIOUS
  <2>3. SubSeq(buffers[k], Len(buffers[k]) + 1, Len(buffers[k])) = <<>>
    BY <2>1, <2>2
  <2>. QED  BY <1>1, <2>1, <2>3 DEF Unwritten, Buffered
<1>2. CASE ~(stage = "reset" /\ k = Head(todo))
  BY <1>2 DEF Unwritten, Buffered
<1>. QED  BY <1>1, <1>2

LEMMA UnwrittenIsNext ==
    ASSUME TypeOK', ResetInv', NEW k \in Keys
    PROVE  Unwritten(k)' = Buffered(k)'
<1>1. CASE stage' = "reset" /\ k = Head(todo')
  <2>1. /\ parts'[k][index'] = buffers'[k]
        /\ buffers'[k] \in Seq([n : Nat, fits : Fits])
    BY <1>1 DEF ResetInv, TypeOK, Sublogs
  <2>2. \A T : \A s \in Seq(T) : SubSeq(s, Len(s) + 1, Len(s)) = <<>>
    OBVIOUS
  <2>3. SubSeq(buffers'[k], Len(buffers'[k]) + 1, Len(buffers'[k])) = <<>>
    BY <2>1, <2>2
  <2>. QED  BY <1>1, <2>1, <2>3 DEF Unwritten, Buffered
<1>2. CASE ~(stage' = "reset" /\ k = Head(todo'))
  BY <1>2 DEF Unwritten, Buffered
<1>. QED  BY <1>1, <1>2

LEMMA PartsInRange ==
    ASSUME TypeOK, NamesSuffice, NEW k \in Keys, Contiguous(k)
    PROVE  \E n \in Nat : n <= Limit /\ DOMAIN parts[k] = {i \in Nat : i < n}
<1>1. PICK n \in Nat : DOMAIN parts[k] = {i \in Nat : i < n}
  BY DEF Contiguous
<1>2. Limit \in Nat
  BY NamesAssumption
<1>3. ASSUME ~(n <= Limit) PROVE FALSE
  <2>1. Limit \in DOMAIN parts[k]
    BY <1>1, <1>2, <1>3
  <2>. QED  BY <1>2, <2>1 DEF NamesSuffice
<1>. QED  BY <1>1, <1>3

LEMMA ReadType ==
    ASSUME TypeOK, NamesSuffice, NEW k \in Keys, Contiguous(k)
    PROVE  ReadParquet(k) \in Sublogs
<1>1. PICK n \in Nat : n <= Limit /\ DOMAIN parts[k] = {i \in Nat : i < n}
  BY PartsInRange
<1>2. ReadParquet(k) = Concat(parts[k], n)
  BY <1>1, ReadIs
<1>3. \A i \in Nat : i < n => parts[k][i] \in Sublogs
  BY <1>1 DEF TypeOK
<1>. DEFINE T == [n : Nat, fits : Fits]
<1>4. \A i \in Nat : i < n => parts[k][i] \in Seq(T)
  BY <1>3, SublogsAre
<1>. HIDE DEF T
<1>5. Concat(parts[k], n) \in Seq(T)
  BY <1>4, ConcatType
<1>. QED  BY <1>2, <1>5, SublogsAre DEF T

LEMMA Concatenation ==
    ASSUME NEW s \in Sublogs, NEW r \in Sublogs
    PROVE  /\ s \o r \in Sublogs /\ Len(s \o r) = Len(s) + Len(r)
           /\ s \o <<>> = s
           /\ SubSeq(s \o r, 1, Len(s)) = s
<1>. DEFINE T == [n : Nat, fits : Fits]
<1>1. s \in Seq(T) /\ r \in Seq(T)
  BY SublogsAre
<1>. HIDE DEF T
<1>2. s \o r \in Seq(T) /\ Len(s \o r) = Len(s) + Len(r) /\ s \o <<>> = s
  BY <1>1
<1>3. SubSeq(s \o r, 1, Len(s)) = s
  BY <1>1
<1>. QED  BY <1>2, <1>3, SublogsAre DEF T

LEMMA AppendToLast ==
    ASSUME NEW s \in Sublogs, NEW r \in Sublogs, NEW e \in [n : Nat, fits : Fits]
    PROVE  s \o Append(r, e) = Append(s \o r, e)
<1>. DEFINE T == [n : Nat, fits : Fits]
<1>1. s \in Seq(T) /\ r \in Seq(T) /\ e \in T
  BY SublogsAre
<1>. HIDE DEF T
<1>. QED  BY <1>1

\* What keeps the files keeps what is read from them.
LEMMA ReadSame ==
    ASSUME UNCHANGED parts, NEW k
    PROVE  ReadParquet(k)' = ReadParquet(k)
BY DEF ReadParquet

\* A step that moves no row and writes no file is a stutter.
LEMMA QuietLog ==
    ASSUME TypeOK, ResetInv, TypeOK', ResetInv', UNCHANGED parts,
           \A k \in Keys : Buffered(k)' = Buffered(k)
    PROVE  UNCHANGED <<LogOf, DurableOf>>
<1>1. \A k \in Keys : Unwritten(k) = Buffered(k)
  BY UnwrittenIs
<1>2. \A k \in Keys : Unwritten(k)' = Buffered(k)'
  <2>1. ASSUME NEW k \in Keys PROVE Unwritten(k)' = Buffered(k)'
    BY UnwrittenIsNext
  <2>. QED  BY <2>1
<1>3. \A k \in Keys : ReadParquet(k)' = ReadParquet(k)
  BY ReadSame
<1>4. \A k \in Keys : ReadParquet(k)' \o Unwritten(k)' = ReadParquet(k) \o Unwritten(k)
  BY <1>1, <1>2, <1>3
<1>. QED  BY <1>3, <1>4 DEF LogOf, DurableOf

LEMMA WriteAccepts ==
    ASSUME TypeOK, CallInv, RowsInv, NamesSuffice, NEW k \in Keys, Write(k)
    PROVE  Log!Accept(k)
<1>1. PICK fits \in Fits :
          buffers' = [buffers EXCEPT ![k] =
                        Append(@, [n |-> written'[k], fits |-> fits])]
  BY DEF Write
<1>. DEFINE row == [n |-> written'[k], fits |-> fits]
<1>2. written[k] \in Nat /\ written'[k] = written[k] + 1 /\ written[k] < MaxWritten
      /\ MaxWritten \in Nat
  BY BoundAssumption DEF Write, TypeOK
<1>3. row \in Row /\ row \in [n : Nat, fits : Fits]
  <2>1. written'[k] \in Nat /\ written'[k] \in 1 .. MaxWritten
    BY <1>2
  <2>. QED  BY <2>1 DEF Row
<1>4. stage = "start" /\ stage' = "start" /\ UNCHANGED parts
  BY DEF Write, CallInv
<1>5. \A m \in Keys : Unwritten(m) = buffers[m] /\ Unwritten(m)' = buffers'[m]
  BY <1>4 DEF Unwritten
<1>6. \A m \in Keys : ReadParquet(m)' = ReadParquet(m)
  BY <1>4, ReadSame
<1>7. ReadParquet(k) \in Sublogs /\ buffers[k] \in Sublogs
  BY ReadType DEF RowsInv, TypeOK
<1>8. buffers'[k] = Append(buffers[k], row)
      /\ \A m \in Keys : m # k => buffers'[m] = buffers[m]
  BY <1>1 DEF TypeOK
<1>. HIDE DEF row
<1>9. ReadParquet(k) \o buffers'[k] = Append(ReadParquet(k) \o buffers[k], row)
  <2>1. ReadParquet(k) \o Append(buffers[k], row) = Append(ReadParquet(k) \o buffers[k], row)
    BY <1>3, <1>7, AppendToLast
  <2>. QED  BY <1>8, <2>1
<1>10. LogOf' = [m \in Keys |-> ReadParquet(m) \o buffers'[m]]
       /\ LogOf = [m \in Keys |-> ReadParquet(m) \o buffers[m]]
  BY <1>5, <1>6 DEF LogOf
<1>11. LogOf' = [LogOf EXCEPT ![k] = Append(@, row)]
  <2>1. \A m \in Keys : ReadParquet(m) \o buffers'[m] =
            IF m = k THEN Append(ReadParquet(m) \o buffers[m], row)
                     ELSE ReadParquet(m) \o buffers[m]
    BY <1>8, <1>9
  <2>. QED  BY <1>10, <2>1
<1>12. DurableOf' = DurableOf
  BY <1>6 DEF DurableOf
<1>. QED  BY <1>3, <1>11, <1>12 DEF Log!Accept, LogOf, DurableOf

LEMMA ReplacePersists ==
    ASSUME TypeOK, CallInv, RowsInv, ResetInv, NamesSuffice, Replace,
           TypeOK', RowsInv', ResetInv', NamesSuffice', NEW h \in Keys, h = Head(todo)
    PROVE  Log!Persist(h)
<1>1. /\ index \in Nat /\ stage = "replace" /\ stage' = "reset"
      /\ UNCHANGED <<buffers, todo, index>>
      /\ DOMAIN parts[h] = {i \in Nat : i < index}
  BY DEF Replace, TypeOK, RowsInv, IndexFree, sinkVars
<1>2. /\ \A k \in Keys : k # h => parts'[k] = parts[k]
      /\ parts'[h] = [i \in DOMAIN parts[h] \cup {index} |->
                         IF i = index THEN buffers[h] ELSE parts[h][i]]
  BY <1>1 DEF Replace, TypeOK
<1>3. /\ DOMAIN parts'[h] = {i \in Nat : i < index + 1}
      /\ parts'[h][index] = buffers[h]
      /\ \A i \in Nat : i < index => parts'[h][i] = parts[h][i]
  BY <1>1, <1>2
<1>4. index < Limit /\ Limit \in Nat
  BY <1>1, <1>3, NamesAssumption DEF NamesSuffice
<1>5. index <= Limit /\ index + 1 <= Limit /\ index + 1 \in Nat
  BY <1>1, <1>4
<1>6. ReadParquet(h) = Concat(parts[h], index)
  BY <1>1, <1>5, ReadIs
<1>7. ReadParquet(h)' = Concat(parts'[h], index + 1)
  BY <1>3, <1>5, ReadIsNext
<1>8. Concat(parts'[h], index + 1) = Concat(parts[h], index) \o buffers[h]
  <2>1. \A i \in Nat : i < index => parts[h][i] \in Sublogs
    BY <1>1 DEF TypeOK
  <2>2. buffers[h] \in Sublogs
    BY DEF TypeOK
  <2>. DEFINE T == [n : Nat, fits : Fits]
  <2>3. Extends(parts'[h], parts[h], index, T)
    BY <1>3, <2>1, SublogsAre DEF Extends
  <2>4. parts'[h][index] \in Seq(T)
    BY <1>3, <2>2, SublogsAre
  <2>. HIDE DEF T
  <2>5. Concat(parts'[h], index + 1) = Concat(parts[h], index) \o parts'[h][index]
    BY <1>1, <2>3, <2>4, ConcatNext
  <2>. QED  BY <1>3, <2>5
<1>9. ReadParquet(h)' = ReadParquet(h) \o buffers[h]
  BY <1>6, <1>7, <1>8
<1>10. \A k \in Keys : k # h => ReadParquet(k)' = ReadParquet(k)
  BY <1>2 DEF ReadParquet
<1>11. \A k \in Keys : Unwritten(k) = buffers[k]
  BY <1>1 DEF Unwritten
<1>12. \A k \in Keys : k # h => Unwritten(k)' = buffers[k]
  BY <1>1 DEF Unwritten
<1>13. Unwritten(h)' = <<>>
  BY <1>1, UnwrittenIsNext DEF Buffered
<1>14. ReadParquet(h) \in Sublogs /\ buffers[h] \in Sublogs
  BY ReadType DEF RowsInv, TypeOK
<1>15. ReadParquet(h) \o buffers[h] \in Sublogs
       /\ Len(ReadParquet(h) \o buffers[h]) = Len(ReadParquet(h)) + Len(buffers[h])
       /\ (ReadParquet(h) \o buffers[h]) \o <<>> = ReadParquet(h) \o buffers[h]
  BY <1>14, Concatenation
<1>16. \A k \in Keys :
          ReadParquet(k)' \o Unwritten(k)' = ReadParquet(k) \o Unwritten(k)
  <2>1. TAKE k \in Keys
  <2>2. CASE k = h
    BY <1>9, <1>11, <1>13, <1>15, <2>2
  <2>3. CASE k # h
    BY <1>10, <1>11, <1>12, <2>3
  <2>. QED  BY <2>2, <2>3
<1>17. LogOf' = LogOf
  BY <1>16 DEF LogOf
<1>. DEFINE m == Len(ReadParquet(h) \o buffers[h])
<1>18. DurableOf' = [DurableOf EXCEPT ![h] = m]
  <2>1. \A k \in Keys : Len(ReadParquet(k)') = IF k = h THEN m ELSE Len(ReadParquet(k))
    BY <1>9, <1>10
  <2>. HIDE DEF m
  <2>. QED  BY <2>1 DEF DurableOf
<1>19. m \in DurableOf[h] .. Len(LogOf[h])
  <2>1. DurableOf[h] = Len(ReadParquet(h)) /\ LogOf[h] = ReadParquet(h) \o buffers[h]
    BY <1>11 DEF DurableOf, LogOf
  <2>2. Len(ReadParquet(h)) \in Nat /\ Len(buffers[h]) \in Nat
    BY <1>14, SublogRows
  <2>3. \A x, y \in Nat : x + y \in x .. (x + y)
    OBVIOUS
  <2>4. m = Len(ReadParquet(h)) + Len(buffers[h])
    BY <1>15
  <2>. HIDE DEF m
  <2>5. m \in Len(ReadParquet(h)) .. m
    BY <2>2, <2>3, <2>4
  <2>. QED  BY <2>1, <2>5 DEF m
<1>. HIDE DEF m
<1>. QED  BY <1>17, <1>18, <1>19 DEF Log!Persist, LogOf, DurableOf

LEMMA CrashIsCrash ==
    ASSUME TypeOK, CallInv, RowsInv, ResetInv, NamesSuffice, Crash
    PROVE  Log!Crash
<1>1. stage' = "start" /\ UNCHANGED parts /\ buffers' = [k \in Keys |-> <<>>]
  BY DEF Crash, Return
<1>2. \A k \in Keys : ReadParquet(k)' = ReadParquet(k) /\ Unwritten(k)' = <<>>
  BY <1>1, ReadSame DEF Unwritten
<1>3. ASSUME NEW k \in Keys
      PROVE  ReadParquet(k)' \o Unwritten(k)' = SubSeq(LogOf[k], 1, DurableOf[k])
  <2>1. LogOf[k] = ReadParquet(k) \o Unwritten(k) /\ DurableOf[k] = Len(ReadParquet(k))
    BY DEF LogOf, DurableOf
  <2>2. ReadParquet(k) \in Sublogs
    BY ReadType DEF RowsInv
  <2>3. Unwritten(k) \in Sublogs
    <3>1. <<>> \in Sublogs /\ buffers[k] \in Sublogs
      <4>1. <<>> \in Sublogs
        BY DEF Sublogs
      <4>. QED  BY <4>1 DEF TypeOK
    <3>. QED  BY <3>1, UnwrittenIs DEF Buffered
  <2>4. /\ ReadParquet(k) \o <<>> = ReadParquet(k)
        /\ SubSeq(ReadParquet(k) \o Unwritten(k), 1, Len(ReadParquet(k))) = ReadParquet(k)
    BY <2>2, <2>3, Concatenation
  <2>. QED  BY <1>2, <2>1, <2>4
<1>4. LogOf' = [k \in Keys |-> SubSeq(LogOf[k], 1, DurableOf[k])]
  BY <1>3 DEF LogOf
<1>5. DurableOf' = DurableOf
  BY <1>2 DEF DurableOf
<1>. QED  BY <1>4, <1>5 DEF Log!Crash, LogOf, DurableOf

\* Every step of the sink is a step of DurableLog, or changes neither the log nor
\* the number of its durable rows.
LEMMA StepRefines ==
    ASSUME IInv, NamesSuffice, [Next]_vars, IInv', NamesSuffice'
    PROVE  [Log!Next]_(Log!vars)
<1>. USE DEF IInv
<1>1. ASSUME UNCHANGED <<LogOf, DurableOf>>
      PROVE  UNCHANGED Log!vars
  BY <1>1 DEF Log!vars, LogOf, DurableOf
<1>2. ASSUME UNCHANGED <<buffers, parts>>, stage # "reset", stage' # "reset"
      PROVE  UNCHANGED Log!vars
  <2>1. \A k \in Keys : Buffered(k)' = Buffered(k)
    BY <1>2 DEF Buffered
  <2>. QED  BY <1>1, <1>2, <2>1, QuietLog
<1>3. CASE Flush
  BY <1>2, <1>3 DEF Flush, CallInv, sinkVars
<1>4. CASE SkipKey
  BY <1>2, <1>4, NextKeyFacts DEF SkipKey, sinkVars
<1>5. CASE WriteTable \/ TableFails \/ WriteFails
  BY <1>2, <1>5 DEF WriteTable, TableFails, WriteFails, Return, sinkVars
<1>6. CASE Replace
  <2>1. Head(todo) \in Keys
    BY <1>6 DEF Replace, TypeOK
  <2>2. Log!Persist(Head(todo))
    BY <1>6, <2>1, ReplacePersists
  <2>. QED  BY <2>1, <2>2 DEF Log!Next
<1>7. CASE Reset
  <2>1. stage = "reset" /\ stage' = "start" /\ UNCHANGED parts
    BY <1>7, NextKeyFacts DEF Reset
  <2>2. \A k \in Keys : buffers'[k] = IF k = Head(todo) THEN <<>> ELSE buffers[k]
    BY <1>7 DEF Reset, TypeOK
  <2>3. \A k \in Keys : Buffered(k)' = Buffered(k)
    BY <2>1, <2>2 DEF Buffered
  <2>. QED  BY <1>1, <2>1, <2>3, QuietLog
<1>8. CASE Crash
  BY <1>8, CrashIsCrash DEF Log!Next
<1>9. ASSUME NEW k \in Keys, Write(k)
      PROVE  Log!Next
  BY <1>9, WriteAccepts DEF Log!Next
<1>10. CASE UNCHANGED vars
  <2>1. UNCHANGED parts /\ \A k \in Keys : Buffered(k)' = Buffered(k)
    BY <1>10 DEF vars, Buffered
  <2>. QED  BY <1>1, <2>1, QuietLog
<1>. QED
  BY <1>3, <1>4, <1>5, <1>6, <1>7, <1>8, <1>9, <1>10 DEF Next, FlushKey

LEMMA InitRefines ==
    ASSUME Init
    PROVE  Log!Init
<1>1. TypeOK /\ ResetInv
  BY InitType DEF Init, ResetInv
<1>2. \A k \in Keys : DOMAIN parts[k] = {i \in Nat : i < 0} /\ Unwritten(k) = <<>>
  BY DEF Init, Unwritten
<1>3. 0 \in Nat /\ 0 <= Limit
  BY NamesAssumption
<1>4. \A k \in Keys : ReadParquet(k) = <<>>
  <2>1. TAKE k \in Keys
  <2>2. ReadParquet(k) = Concat(parts[k], 0)
    BY <1>2, <1>3, ReadIs
  <2>. QED  BY <2>2, ConcatEmpty
<1>5. <<>> \o <<>> = <<>> /\ Len(<<>>) = 0
  OBVIOUS
<1>6. \A k \in Keys : ReadParquet(k) \o Unwritten(k) = <<>> /\ Len(ReadParquet(k)) = 0
  BY <1>2, <1>4, <1>5
<1>. QED  BY <1>6 DEF Log!Init

\* The sink implements DurableLog as long as no index outgrows the padding of the
\* part names: whatever fails and wherever the process dies, what read_parquet
\* gives is a growing prefix of the rows written, each once and in order, and
\* what is not yet in it is in memory (write, flush, _flush_key, read_parquet).
THEOREM Refinement == Spec /\ []NamesSuffice => RefinesDurableLog
<1>1. Init => Log!Init
  BY InitRefines
<1>2. IInv /\ NamesSuffice /\ [Next]_vars /\ IInv' /\ NamesSuffice'
        => [Log!Next]_(Log!vars)
  BY StepRefines
<1>. QED  BY <1>1, <1>2, Inductive, PTL DEF Spec, RefinesDurableLog, Log!Spec

\* Each part holds a row whose number is above the index of the part: there are
\* never more parts than rows.
AboveAll(rows, n) == \A j \in 1 .. Len(rows) : rows[j].n > n
CountInv ==
    \A k \in Keys :
        /\ written[k] <= MaxWritten
        /\ AboveAll(buffers[k], 0)
        /\ \A i \in DOMAIN parts[k] : parts[k][i] # <<>> /\ AboveAll(parts[k][i], i)

LEMMA CountInductive ==
    ASSUME IInv, CountInv, [Next]_vars
    PROVE  CountInv'
<1>. USE DEF IInv
<1>1. 1 .. Len(<<>>) = {}
  OBVIOUS
<1>2. ASSUME UNCHANGED <<parts, written>>,
             \A k \in Keys : buffers'[k] \in {<<>>, buffers[k]}
      PROVE  CountInv'
  BY <1>1, <1>2 DEF CountInv, AboveAll
<1>3. CASE Flush \/ SkipKey \/ WriteTable \/ TableFails \/ WriteFails
  BY <1>2, <1>3 DEF Flush, SkipKey, WriteTable, TableFails, WriteFails, sinkVars
<1>4. CASE Reset
  BY <1>2, <1>4 DEF Reset, TypeOK
<1>5. CASE Crash
  BY <1>2, <1>5 DEF Crash
<1>6. CASE Replace
  <2>0. PICK h \in Keys : h = Head(todo)
    BY <1>6 DEF Replace, TypeOK
  <2>1. /\ index \in Nat /\ UNCHANGED <<buffers, written>>
        /\ DOMAIN parts[h] = {i \in Nat : i < index}
        /\ buffers[h] # <<>> /\ buffers[h] = Buffered(h)
    BY <1>6, <2>0 DEF Replace, TypeOK, RowsInv, IndexFree, CallInv, Buffered, sinkVars
  <2>2. /\ \A k \in Keys : k # h => parts'[k] = parts[k]
        /\ parts'[h] = [i \in DOMAIN parts[h] \cup {index} |->
                           IF i = index THEN buffers[h] ELSE parts[h][i]]
    BY <1>6, <2>0 DEF Replace, TypeOK
  <2>3. AboveAll(buffers[h], index)
    <3>1. CASE index = 0
      BY <3>1 DEF CountInv
    <3>2. CASE index # 0
      <4>1. index - 1 \in DOMAIN parts[h]
        BY <2>1, <3>2
      <4>. DEFINE p == parts[h][index - 1]
      <4>2. p # <<>> /\ AboveAll(p, index - 1) /\ AllBefore(p, buffers[h]) /\ p \in Sublogs
        BY <2>1, <4>1 DEF CountInv, RowsInv, OrderInv, TypeOK
      <4>. HIDE DEF p
      <4>3. 1 \in 1 .. Len(p)
        BY <4>2 DEF Sublogs
      <4>4. p[1].n > index - 1 /\ p[1].n \in Nat
        BY <4>2, <4>3, SublogRows DEF AboveAll
      <4>5. ASSUME NEW j \in 1 .. Len(buffers[h]) PROVE buffers[h][j].n > index
        <5>1. p[1].n < buffers[h][j].n
          BY <4>2, <4>3 DEF AllBefore
        <5>2. buffers[h][j].n \in Nat
          BY SublogRows DEF TypeOK
        <5>. QED  BY <2>1, <4>4, <5>1, <5>2
      <4>. QED  BY <4>5 DEF AboveAll
    <3>. QED  BY <3>1, <3>2
  <2>4. ASSUME NEW i \in DOMAIN parts'[h]
        PROVE  parts'[h][i] # <<>> /\ AboveAll(parts'[h][i], i)
    <3>1. CASE i = index
      BY <2>1, <2>2, <2>3, <3>1
    <3>2. CASE i # index
      BY <2>2, <3>2 DEF CountInv
    <3>. QED  BY <3>1, <3>2
  <2>5. ASSUME NEW k \in Keys, NEW i \in DOMAIN parts'[k]
        PROVE  parts'[k][i] # <<>> /\ AboveAll(parts'[k][i], i)
    <3>1. CASE k = h
      BY <2>4, <3>1
    <3>2. CASE k # h
      BY <2>2, <3>2 DEF CountInv
    <3>. QED  BY <3>1, <3>2
  <2>. QED  BY <2>1, <2>5 DEF CountInv
<1>7. ASSUME NEW k \in Keys, Write(k)
      PROVE  CountInv'
  <2>1. PICK fits \in Fits :
            buffers' = [buffers EXCEPT ![k] =
                          Append(@, [n |-> written'[k], fits |-> fits])]
    BY <1>7 DEF Write
  <2>. DEFINE row == [n |-> written'[k], fits |-> fits]
  <2>2. /\ written[k] \in Nat /\ written[k] < MaxWritten /\ MaxWritten \in Nat
        /\ written'[k] = written[k] + 1 /\ UNCHANGED parts
        /\ \A m \in Keys : m # k => written'[m] = written[m] /\ buffers'[m] = buffers[m]
    BY <1>7, <2>1, BoundAssumption DEF Write, TypeOK
  <2>3. row.n > 0 /\ row \in [n : Nat, fits : Fits] /\ buffers[k] \in Sublogs
    BY <2>2 DEF TypeOK
  <2>4. buffers'[k] = Append(buffers[k], row)
    BY <2>1 DEF TypeOK
  <2>5. AboveAll(buffers'[k], 0)
    <3>. DEFINE S == [n : Nat, fits : Fits]
    <3>1. buffers[k] \in Seq(S) /\ row \in S
      BY <2>3 DEF Sublogs
    <3>. HIDE DEF S, row
    <3>2. /\ Len(buffers'[k]) = Len(buffers[k]) + 1 /\ Len(buffers[k]) \in Nat
          /\ \A i \in 1 .. Len(buffers[k]) : buffers'[k][i] = buffers[k][i]
          /\ buffers'[k][Len(buffers[k]) + 1] = row
      BY <2>4, <3>1, AppendElements, ElementOfSeq
    <3>3. \A i \in 1 .. Len(buffers'[k]) :
              i \in 1 .. Len(buffers[k]) \/ i = Len(buffers[k]) + 1
      BY <3>2
    <3>. QED  BY <2>3, <3>2, <3>3 DEF CountInv, AboveAll
  <2>6. written'[k] <= MaxWritten
    BY <2>2
  <2>. QED  BY <2>2, <2>5, <2>6 DEF CountInv
<1>8. CASE UNCHANGED vars
  BY <1>2, <1>8 DEF vars
<1>. QED
  BY <1>3, <1>4, <1>5, <1>6, <1>7, <1>8 DEF Next, FlushKey

LEMMA FewParts ==
    ASSUME MaxWritten <= Limit, IInv, CountInv
    PROVE  NamesSuffice
<1>. SUFFICES ASSUME NEW k \in Keys, NEW i \in DOMAIN parts[k]
              PROVE  i < Limit
  BY DEF NamesSuffice
<1>. DEFINE p == parts[k][i]
<1>1. /\ p \in Sublogs /\ p # <<>> /\ AboveAll(p, i) /\ Upto(p, written[k])
      /\ written[k] <= MaxWritten /\ written[k] \in Nat /\ i \in Nat
  BY DEF IInv, TypeOK, CountInv, RowsInv, Numbered
<1>. HIDE DEF p
<1>2. 1 \in 1 .. Len(p)
  BY <1>1 DEF Sublogs
<1>3. p[1].n \in Nat /\ p[1].n > i /\ p[1].n <= written[k]
  BY <1>1, <1>2, SublogRows DEF AboveAll, Upto
<1>4. MaxWritten \in Nat /\ Limit \in Nat
  BY BoundAssumption, NamesAssumption
<1>. QED  BY <1>1, <1>3, <1>4

\* As long as no key gets more rows than there are names, the sink implements
\* DurableLog whatever else happens to it (_flush_key's "part-{:05d}").
THEOREM RefinementWithinLimit ==
    ASSUME MaxWritten <= Limit
    PROVE  Spec => RefinesDurableLog
<1>1. Init => CountInv
  <2>. SUFFICES ASSUME Init PROVE CountInv
    OBVIOUS
  <2>1. 1 .. Len(<<>>) = {} /\ DOMAIN <<>> = {}
    OBVIOUS
  <2>. QED  BY <2>1, BoundAssumption DEF Init, CountInv, AboveAll
<1>2. IInv /\ CountInv /\ [Next]_vars => CountInv'
  BY CountInductive
<1>3. Spec => []CountInv
  BY <1>1, <1>2, Inductive, PTL DEF Spec
<1>4. IInv /\ CountInv => NamesSuffice
  BY FewParts
<1>. QED  BY <1>3, <1>4, Inductive, Refinement, PTL

=============================================================================
