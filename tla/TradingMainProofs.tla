-------------------------- MODULE TradingMainProofs ---------------------------
(***************************************************************************)
(* Proofs about trading_main, for every set of input files and every       *)
(* number of events.  The inductive invariant says what the reader has     *)
(* established of the rows it accepted (ReadInv) and what is on the disk   *)
(* and in the buffer of the persistence stream (JournalInv).               *)
(***************************************************************************)
EXTENDS TradingMain, SequenceTheorems, WellFoundedInduction, TLAPS

Field == [kind : {"int", "empty", "junk"}, value : Int]

Tick(i) == parsed(input.rows[i])

\* The first k rows are accepted.
Accepted(k) ==
  /\ Len(ticks) = k
  /\ \A i \in 1 .. k : ticks[i] = Tick(i)

\* None of the first k rows offends.
Clean(k) == \A j \in 1 .. k : ~Offends(input.rows, j)

ReadInv ==
  /\ input \in Inputs
  /\ ticks \in Seq({parsed(row) : row \in Seq(Field)})
  /\ pc \in {"config", "header"} => line = 0 /\ ticks = <<>>
  /\ pc \in {"rows", "open", "replay", "flush"} =>
       /\ line \in 1 .. Len(input.rows) + 1
       /\ Accepted(line - 1)
       /\ Clean(line - 1)
  /\ pc \in {"open", "replay", "flush"} =>
       line = Len(input.rows) + 1 /\ ticks # <<>>
  /\ pc # "exit" => error = NoError
  /\ FirstErrorReported

\* Events 0 .. n - 1 in order.
Numbered(s, n) == Len(s) = n /\ \A i \in 1 .. n : s[i] = i - 1

\* Where the journal stands: complete so far, or there is a reason to fail.
Standing(lines, s, reasons, n) ==
  /\ lines \in Seq(Nat)
  /\ s.good \in BOOLEAN /\ s.buffer \in Seq(Nat)
  /\ ~s.good => reasons # {}
  /\ reasons = {} => Numbered(lines \o s.buffer, n)

JournalInv ==
  /\ pc \in {"config", "header", "rows", "open", "replay", "flush", "exit"}
  /\ emitted \in Nat
  /\ pc \in {"config", "header", "rows", "open"} =>
       disk = OldJournal /\ emitted = 0
  /\ pc \in {"replay", "flush"} =>
       Standing(disk, stream, failed, emitted + 1)
  /\ exit # "running" => pc = "exit"
  /\ SuccessMeansCompleteJournal
  /\ BadInputKeepsOldJournal

\* The inductive invariant.
MainInv == ReadInv /\ JournalInv

-----------------------------------------------------------------------------
(* The reader *)

\* A row that is not malformed has seven integers.
LEMMA WellFormed ==
  ASSUME NEW row \in Seq(Field), ~malformed(row)
  PROVE  /\ Len(row) = 7
         /\ \A i \in 1 .. 7 : row[i].value \in Int
         /\ parsed(row).receive_ts_ns = row[2].value
         /\ parsed(row).symbol_id = row[3].value
  <1>1. Len(row) = 7
    BY DEF malformed
  <1>2. \A i \in 1 .. 7 : row[i] \in Field
    <2> TAKE i \in 1 .. 7
    <2>1. i \in 1 .. Len(row)
      BY <1>1
    <2> QED
      BY <2>1, ElementOfSeq
  <1>3. \A i \in 1 .. 7 : row[i].value \in Int
    BY <1>2 DEF Field
  <1>4. /\ parsed(row).receive_ts_ns = row[2].value
        /\ parsed(row).symbol_id = row[3].value
    BY DEF parsed
  <1> QED
    BY <1>1, <1>3, <1>4

\* The reader compares a row with the last and the first row it accepted;
\* this decides whether the row fits to all rows before it.
LEMMA RowDecides ==
  ASSUME MainInv, pc = "rows", line <= Len(input.rows)
  PROVE  (row_error(ticks, input.rows[line]) # "none") <=> Offends(input.rows, line)
  <1> DEFINE n == Len(input.rows)
             row == input.rows[line]
  <1>1. /\ input.rows \in Seq(Seq(Field)) /\ n \in Nat
        /\ line \in 1 .. n /\ line \in Nat
    BY MainAssumption DEF MainInv, ReadInv, Field
  <1>2. \A i \in 1 .. n : input.rows[i] \in Seq(Field)
    BY <1>1
  <1>3. /\ Accepted(line - 1) /\ Clean(line - 1)
        /\ ticks \in Seq({parsed(r) : r \in Seq(Field)})
    BY DEF MainInv, ReadInv
  <1>4. CASE malformed(row)
    BY <1>4 DEF row_error, Offends
  <1>5. CASE value_error(parsed(row)) /\ ~malformed(row)
    BY <1>5 DEF row_error, Offends
  <1>6. CASE ~malformed(row) /\ ~value_error(parsed(row)) /\ line = 1
    <2>1. ticks = <<>>
      BY <1>1, <1>3, <1>6 DEF Accepted
    <2>2. row_error(ticks, row) = "none"
      BY <1>6, <2>1 DEF row_error
    <2>3. ~Offends(input.rows, line)
      BY <1>6 DEF Offends
    <2> QED
      BY <2>2, <2>3
  <1>7. CASE ~malformed(row) /\ ~value_error(parsed(row)) /\ line > 1
    <2> DEFINE p == line - 1
    <2>1. /\ p \in Nat /\ p >= 1 /\ p \in 1 .. n /\ 1 \in 1 .. p
      BY <1>1, <1>7
    <2>2. /\ Len(ticks) = p /\ ticks # <<>> /\ ticks[p] = Tick(p)
          /\ ticks[1] = Tick(1)
      BY <1>3, <2>1 DEF Accepted
    <2>3. /\ Head(ticks) = Tick(1) /\ previous(ticks) = Tick(p)
      BY <1>3, <2>1, <2>2 DEF previous, Last
    <2>4. row_error(ticks, row) # "none"
            <=> \/ Tick(line).receive_ts_ns < Tick(p).receive_ts_ns
                \/ Tick(line).symbol_id # Tick(1).symbol_id
      BY <1>7, <2>2, <2>3 DEF row_error, Tick
    <2>5. Offends(input.rows, line)
            <=> \E j \in 1 .. p :
                  \/ Tick(j).receive_ts_ns > Tick(line).receive_ts_ns
                  \/ Tick(j).symbol_id # Tick(line).symbol_id
      BY <1>7 DEF Offends, Tick
    <2>6. \A j \in 1 .. p : Tick(j).receive_ts_ns \in Int
      <3> TAKE j \in 1 .. p
      <3>1. j \in 1 .. n /\ ~Offends(input.rows, j)
        BY <1>1, <1>3, <2>1 DEF Clean
      <3>2. ~malformed(input.rows[j])
        BY <3>1 DEF Offends
      <3> QED
        BY <1>2, <3>1, <3>2, WellFormed DEF Tick
    <2>7. Tick(line).receive_ts_ns \in Int
      <3>1. row \in Seq(Field) /\ ~malformed(row)
        BY <1>1, <1>2, <1>7
      <3>2. parsed(row).receive_ts_ns = row[2].value /\ row[2].value \in Int
        BY <3>1, WellFormed
      <3> QED
        BY <3>2 DEF Tick
    <2>8. \A j \in 1 .. p : /\ Tick(j).receive_ts_ns <= Tick(p).receive_ts_ns
                            /\ Tick(j).symbol_id = Tick(1).symbol_id
      <3> TAKE j \in 1 .. p
      <3>1. j < p => Tick(j).receive_ts_ns <= Tick(p).receive_ts_ns
        <4> SUFFICES ASSUME j < p PROVE Tick(j).receive_ts_ns <= Tick(p).receive_ts_ns
          OBVIOUS
        <4>1. ~Offends(input.rows, p) /\ j \in 1 .. p - 1
          BY <1>3, <2>1 DEF Clean
        <4>2. ~(Tick(j).receive_ts_ns > Tick(p).receive_ts_ns)
          BY <4>1 DEF Offends, Tick
        <4> QED
          BY <2>1, <2>6, <4>2
      <3>2. j > 1 => Tick(j).symbol_id = Tick(1).symbol_id
        <4> SUFFICES ASSUME j > 1 PROVE Tick(j).symbol_id = Tick(1).symbol_id
          OBVIOUS
        <4>1. ~Offends(input.rows, j) /\ 1 \in 1 .. j - 1
          BY <1>3, <2>1 DEF Clean
        <4> QED
          BY <4>1 DEF Offends, Tick
      <3> QED
        BY <2>1, <2>6, <3>1, <3>2
    <2>9. p \in 1 .. p
      BY <2>1
    <2>10. ASSUME Tick(line).receive_ts_ns < Tick(p).receive_ts_ns
           PROVE  Offends(input.rows, line)
      BY <2>5, <2>6, <2>7, <2>9, <2>10
    <2>11. ASSUME Tick(line).symbol_id # Tick(1).symbol_id
           PROVE  Offends(input.rows, line)
      BY <2>1, <2>5, <2>11
    <2>12. ASSUME NEW j \in 1 .. p,
                  Tick(j).receive_ts_ns > Tick(line).receive_ts_ns
           PROVE  Tick(line).receive_ts_ns < Tick(p).receive_ts_ns
      BY <2>6, <2>7, <2>8, <2>9, <2>12
    <2> QED
      BY <2>4, <2>5, <2>8, <2>10, <2>11, <2>12
  <1> QED
    BY <1>1, <1>4, <1>5, <1>6, <1>7

\* There is one.
LEMMA FirstExists ==
  ASSUME NEW rows, Len(rows) \in Nat
  PROVE  /\ FirstOffense(rows) \in 1 .. Len(rows) + 1
         /\ IsFirst(rows, FirstOffense(rows))
  <1> DEFINE n == Len(rows)
             T == {i \in 1 .. n + 1 : i <= n => Offends(rows, i)}
             R == OpToRel(<, Nat)
  <1>1. n + 1 \in T /\ T \subseteq Nat
    OBVIOUS
  <1>2. PICK x \in T : \A y \in T : ~(<<y, x>> \in R)
    <2>1. T # {}
      BY <1>1
    <2> HIDE DEF T, R
    <2>2. IsWellFoundedOn(R, Nat)
      BY NatLessThanWellFounded DEF R
    <2> QED
      BY <1>1, <2>1, <2>2, WFMin
  <1>3. \A y \in T : ~(y < x)
    BY <1>1, <1>2 DEF OpToRel
  <1>4. x \in 1 .. n + 1 /\ IsFirst(rows, x)
    BY <1>3 DEF IsFirst
  <1> QED
    BY <1>4 DEF FirstOffense

\* There is only one.
LEMMA FirstIsOne ==
  ASSUME NEW rows, Len(rows) \in Nat,
         NEW i \in 1 .. Len(rows) + 1, IsFirst(rows, i)
  PROVE  FirstOffense(rows) = i
  <1> DEFINE f == FirstOffense(rows)
  <1>1. f \in 1 .. Len(rows) + 1 /\ IsFirst(rows, f)
    BY FirstExists
  <1> HIDE DEF f
  <1>2. ~(f < i)
    BY <1>1 DEF IsFirst
  <1>3. ~(i < f)
    BY <1>1 DEF IsFirst
  <1> QED
    BY <1>1, <1>2, <1>3 DEF f

\* Where a clean prefix ends, the first offense is not before it.
LEMMA CleanPrefix ==
  ASSUME NEW rows, Len(rows) \in Nat,
         NEW k \in 1 .. Len(rows) + 1, \A j \in 1 .. k - 1 : ~Offends(rows, j)
  PROVE  FirstOffense(rows) >= k
  <1> DEFINE f == FirstOffense(rows)
  <1>1. f \in 1 .. Len(rows) + 1 /\ IsFirst(rows, f)
    BY FirstExists
  <1> HIDE DEF f
  <1>2. ~(f < k)
    BY <1>1 DEF IsFirst
  <1> QED
    BY <1>1, <1>2 DEF f

\* Steps that read nothing.
LEMMA NothingReadInv ==
  ASSUME MainInv, UNCHANGED <<input, line, ticks, error>>,
         \/ pc' = "exit"
         \/ pc = "config" /\ pc' = "header"
         \/ pc = "open" /\ pc' = "replay"
         \/ pc = "replay" /\ pc' \in {"replay", "flush"}
         \/ pc' = pc
  PROVE  ReadInv'
  <1>1. FirstErrorReported'
    BY DEF MainInv, ReadInv, FirstErrorReported
  <1> QED
    BY <1>1 DEF MainInv, ReadInv, Accepted, Clean, Tick

\* What a refusal has to say.
RightLine(category, number) ==
  LET first == FirstOffense(input.rows)
      readable == input.opens /\ input.header /\ input.bad_after > first
  IN /\ category \in {"ValueError", "OrderingError", "MultiSymbolError"}
          => number = first + 1
     /\ readable /\ first <= Len(input.rows) => number = first + 1

\* A refusal that says so.
LEMMA RefuseInv ==
  ASSUME MainInv, input' = input, NEW category, NEW number,
         Refuse(category, number), RightLine(category, number)
  PROVE  ReadInv'
  <1>1. /\ error'.category = category /\ error'.line = number
        /\ pc' = "exit" /\ ticks' = ticks
    BY DEF Refuse, Exit
  <1>2. FirstErrorReported'
    BY <1>1 DEF FirstErrorReported, RightLine
  <1> QED
    BY <1>1, <1>2 DEF MainInv, ReadInv

\* The file and the rows accepted so far.
LEMMA Reading ==
  ASSUME MainInv
  PROVE  /\ Len(input.rows) \in Nat /\ input.rows \in Seq(Seq(Field))
         /\ input.bad_after \in Nat
         /\ FirstOffense(input.rows) \in 1 .. Len(input.rows) + 1
         /\ pc = "rows" =>
              /\ line \in Nat /\ line >= 1 /\ line <= Len(input.rows) + 1
              /\ FirstOffense(input.rows) >= line
  <1>1. /\ Len(input.rows) \in Nat /\ input.rows \in Seq(Seq(Field))
        /\ input.bad_after \in Nat
    BY MainAssumption DEF MainInv, ReadInv, Field
  <1>2. pc = "rows" => line \in 1 .. Len(input.rows) + 1 /\ Clean(line - 1)
    BY DEF MainInv, ReadInv
  <1>3. FirstOffense(input.rows) \in 1 .. Len(input.rows) + 1
    BY <1>1, FirstExists
  <1>4. pc = "rows" => FirstOffense(input.rows) >= line
    BY <1>1, <1>2, CleanPrefix DEF Clean
  <1> QED
    BY <1>1, <1>2, <1>3, <1>4

\* The header is read, or the file is refused.
LEMMA ReadHeaderInv ==
  ASSUME MainInv, ReadHeader
  PROVE  ReadInv'
  <1> DEFINE f == FirstOffense(input.rows)
  <1>1. /\ input' = input /\ line = 0 /\ ticks = <<>> /\ pc = "header"
        /\ error = NoError
    BY DEF MainInv, ReadInv, ReadHeader
  <1>2. f \in 1 .. Len(input.rows) + 1 /\ Len(input.rows) \in Nat
    BY Reading
  <1> HIDE DEF f
  <1>3. CASE ~input.opens
    <2>1. Refuse("IoError", 0)
      BY <1>3 DEF ReadHeader
    <2>2. RightLine("IoError", 0)
      BY <1>3 DEF RightLine
    <2> QED
      BY <1>1, <2>1, <2>2, RefuseInv
  <1>4. CASE input.opens /\ ReadFails
    <2>1. Refuse("IoError", 1)
      BY <1>4 DEF ReadHeader
    <2>2. ~(input.bad_after > f)
      BY <1>1, <1>2, <1>4 DEF ReadFails
    <2>3. RightLine("IoError", 1)
      BY <2>2 DEF RightLine, f
    <2> QED
      BY <1>1, <2>1, <2>3, RefuseInv
  <1>5. CASE input.opens /\ ~ReadFails /\ ~input.header
    <2>1. Refuse("SchemaError", 1)
      BY <1>5 DEF ReadHeader
    <2>2. RightLine("SchemaError", 1)
      BY <1>5 DEF RightLine
    <2> QED
      BY <1>1, <2>1, <2>2, RefuseInv
  <1>6. CASE input.opens /\ ~ReadFails /\ input.header
    <2>1. pc' = "rows" /\ line' = 1 /\ error' = error /\ ticks' = ticks
      BY <1>6 DEF ReadHeader
    <2>2. FirstErrorReported'
      BY <1>1, <2>1 DEF MainInv, ReadInv, FirstErrorReported
    <2>3. line' - 1 = 0 /\ Len(ticks') = 0 /\ line' \in 1 .. Len(input'.rows) + 1
      BY <1>1, <1>2, <2>1
    <2>4. (Accepted(line - 1))' /\ (Clean(line - 1))'
      BY <2>3 DEF Accepted, Clean
    <2> QED
      BY <1>1, <2>1, <2>2, <2>3, <2>4 DEF MainInv, ReadInv
  <1> QED
    BY <1>3, <1>4, <1>5, <1>6

\* The next row is accepted, or it is the first that offends.
LEMMA ReadRowInv ==
  ASSUME MainInv, ReadRow
  PROVE  ReadInv'
  <1> DEFINE f == FirstOffense(input.rows)
             row == input.rows[line]
             T == {parsed(r) : r \in Seq(Field)}
  <1>1. /\ input' = input /\ pc = "rows" /\ error = NoError
        /\ line <= Len(input.rows) /\ ~ReadFails
        /\ Accepted(line - 1) /\ Clean(line - 1) /\ ticks \in Seq(T)
    BY DEF MainInv, ReadInv, ReadRow
  <1>2. /\ f \in 1 .. Len(input.rows) + 1 /\ Len(input.rows) \in Nat
        /\ line \in Nat /\ line >= 1 /\ line \in 1 .. Len(input.rows)
        /\ row \in Seq(Field)
    BY <1>1, Reading
  <1>3. (row_error(ticks, row) # "none") <=> Offends(input.rows, line)
    BY <1>1, RowDecides
  <1>4. CASE Offends(input.rows, line)
    <2>1. Refuse(row_error(ticks, row), line + 1)
      BY <1>3, <1>4 DEF ReadRow
    <2>2. IsFirst(input.rows, line)
      BY <1>1, <1>4 DEF IsFirst, Clean
    <2>3. f = line
      BY <1>2, <2>2, FirstIsOne
    <2>4. RightLine(row_error(ticks, row), line + 1)
      BY <2>3 DEF RightLine
    <2> QED
      BY <1>1, <2>1, <2>4, RefuseInv
  <1>5. CASE ~Offends(input.rows, line)
    <2> DEFINE t == parsed(row)
    <2>1. /\ line' = line + 1 /\ ticks' = Append(ticks, t)
          /\ pc' = pc /\ error' = error
      BY <1>3, <1>5 DEF ReadRow
    <2>2. t \in T /\ t = Tick(line)
      BY <1>2 DEF Tick
    <2> HIDE DEF t, T
    <2>3. /\ ticks' \in Seq(T) /\ Len(ticks') = Len(ticks) + 1
          /\ \A i \in 1 .. Len(ticks) : ticks'[i] = ticks[i]
          /\ ticks'[Len(ticks) + 1] = t
      BY <1>1, <2>1, <2>2, AppendProperties
    <2>4. (Accepted(line - 1))'
      <3>1. line' - 1 = line /\ Len(ticks) = line - 1
        BY <1>1, <1>2, <2>1 DEF Accepted
      <3>2. \A i \in 1 .. line : i \in 1 .. line - 1 \/ i = line
        BY <1>2
      <3>3. \A i \in 1 .. line : Tick(i)' = Tick(i)
        BY <1>1 DEF Tick
      <3> QED
        BY <1>1, <1>2, <2>2, <2>3, <3>1, <3>2, <3>3 DEF Accepted
    <2>5. (Clean(line - 1))'
      <3>1. line' - 1 = line
        BY <1>2, <2>1
      <3>2. \A i \in 1 .. line : i \in 1 .. line - 1 \/ i = line
        BY <1>2
      <3> QED
        BY <1>1, <1>5, <3>1, <3>2 DEF Clean
    <2>6. line' \in 1 .. Len(input'.rows) + 1
      BY <1>1, <1>2, <2>1
    <2>7. FirstErrorReported'
      BY <1>1, <2>1 DEF MainInv, ReadInv, FirstErrorReported
    <2> QED
      BY <1>1, <2>1, <2>3, <2>4, <2>5, <2>6, <2>7 DEF MainInv, ReadInv, T
  <1> QED
    BY <1>4, <1>5

\* The end of the file: it was read completely, or it is refused.
LEMMA EndOfRowsInv ==
  ASSUME MainInv, EndOfRows
  PROVE  ReadInv'
  <1> DEFINE f == FirstOffense(input.rows)
             n == Len(input.rows)
  <1>1. /\ input' = input /\ pc = "rows" /\ error = NoError
        /\ Accepted(line - 1) /\ Clean(line - 1)
        /\ ReadFails \/ line > n
    BY DEF MainInv, ReadInv, EndOfRows
  <1>2. /\ f \in 1 .. n + 1 /\ n \in Nat /\ f >= line
        /\ line \in Nat /\ line >= 1 /\ line <= n + 1
        /\ input.bad_after \in Nat
    BY <1>1, Reading
  <1> HIDE DEF f, n
  <1>3. CASE ReadFails
    <2>1. Refuse("IoError", line + 1)
      BY <1>3 DEF EndOfRows, read_failed
    <2>2. ~(input.bad_after > f)
      BY <1>2, <1>3 DEF ReadFails
    <2>3. RightLine("IoError", line + 1)
      BY <2>2 DEF RightLine, f
    <2> QED
      BY <1>1, <2>1, <2>3, RefuseInv
  <1>4. CASE ~ReadFails
    <2>1. line = n + 1 /\ f = n + 1
      BY <1>1, <1>2, <1>4
    <2>2. CASE ticks = <<>>
      <3>1. Refuse("SchemaError", 1)
        BY <1>4, <2>2 DEF EndOfRows, read_failed
      <3>2. ~(f <= n)
        BY <1>2, <2>1
      <3>3. RightLine("SchemaError", 1)
        BY <3>2 DEF RightLine, f, n
      <3> QED
        BY <1>1, <3>1, <3>3, RefuseInv
    <2>3. CASE ticks # <<>>
      <3>1. pc' = "open" /\ UNCHANGED <<line, ticks, error>>
        BY <1>4, <2>3 DEF EndOfRows, read_failed
      <3>2. FirstErrorReported'
        BY <1>1, <2>1, <3>1
           DEF MainInv, ReadInv, FirstErrorReported, f, n, NoError
      <3> QED
        BY <1>1, <2>1, <2>3, <3>1, <3>2
           DEF MainInv, ReadInv, Accepted, Clean, Tick, n
    <2> QED
      BY <2>2, <2>3
  <1> QED
    BY <1>3, <1>4

-----------------------------------------------------------------------------
(* The journal *)

\* One more event: what is on the disk and in the buffer together grows by it.
LEMMA NextEvent ==
  ASSUME NEW d \in Seq(Nat), NEW b \in Seq(Nat), NEW n \in Nat,
         Numbered(d \o b, n)
  PROVE  /\ Numbered(d \o Append(b, n), n + 1)
         /\ Numbered((d \o Append(b, n)) \o <<>>, n + 1)
         /\ d \o Append(b, n) \in Seq(Nat)
         /\ Append(b, n) \in Seq(Nat)
  <1> DEFINE s == d \o b
             a == Append(s, n)
  <1>1. s \in Seq(Nat) /\ <<n>> \in Seq(Nat) /\ Append(b, n) \in Seq(Nat)
    OBVIOUS
  <1>2. d \o Append(b, n) = a
    <2>1. Append(b, n) = b \o <<n>> /\ a = s \o <<n>>
      BY <1>1, AppendIsConcat
    <2>2. s \o <<n>> = d \o (b \o <<n>>)
      BY <1>1, ConcatAssociative
    <2> QED
      BY <2>1, <2>2
  <1>3. /\ a \in Seq(Nat) /\ Len(a) = Len(s) + 1
        /\ \A i \in 1 .. Len(s) : a[i] = s[i]
        /\ a[Len(s) + 1] = n
    BY <1>1, AppendProperties
  <1>4. Len(s) = n /\ \A i \in 1 .. n : s[i] = i - 1
    BY DEF Numbered
  <1> HIDE DEF a, s
  <1>5. \A i \in 1 .. n + 1 : i \in 1 .. n \/ i = n + 1
    OBVIOUS
  <1>6. Numbered(a, n + 1)
    BY <1>3, <1>4, <1>5 DEF Numbered
  <1>7. a \o <<>> = a
    BY <1>3, ConcatEmptySeq
  <1> QED
    BY <1>1, <1>2, <1>3, <1>6, <1>7

\* Writing the next event leaves the journal complete or a reason to fail.
LEMMA PersistStands ==
  ASSUME NEW n \in Nat, NEW s, NEW d, Standing(d, s, failed, n),
         Persist(written(s, d, n))
  PROVE  Standing(disk', stream', failed', n + 1)
  <1>1. PICK w \in written(s, d, n) :
          /\ stream' = w.stream /\ disk' = w.disk
          /\ failed' = failed \cup IF w.stream.good THEN {} ELSE {"persist_write"}
    BY DEF Persist
  <1>2. d \in Seq(Nat) /\ s.buffer \in Seq(Nat) /\ <<>> \in Seq(Nat)
    BY EmptySeq DEF Standing
  <1>3. CASE w = Persistence(FALSE, <<>>, d)
    <2>1. /\ stream' = [good |-> FALSE, buffer |-> <<>>] /\ disk' = d
      BY <1>1, <1>3 DEF Persistence
    <2>2. "persist_write" \in failed'
      BY <1>1, <2>1
    <2>3. stream'.good = FALSE /\ stream'.buffer = <<>>
      BY <2>1
    <2> QED
      BY <1>2, <2>1, <2>2, <2>3 DEF Standing
  <1>4. CASE /\ s.good
             /\ w \in {Persistence(TRUE, Append(s.buffer, n), d),
                       Persistence(TRUE, <<>>, d \o Append(s.buffer, n))}
    <2>1. failed' = failed /\ stream'.good = TRUE
      BY <1>1, <1>4 DEF Persistence
    <2>2. /\ Append(s.buffer, n) \in Seq(Nat)
          /\ d \o Append(s.buffer, n) \in Seq(Nat)
      BY <1>2
    <2>3. failed = {} => /\ Numbered(d \o Append(s.buffer, n), n + 1)
                         /\ Numbered((d \o Append(s.buffer, n)) \o <<>>, n + 1)
      BY <1>2, NextEvent DEF Standing
    <2>4. \/ stream'.buffer = Append(s.buffer, n) /\ disk' = d
          \/ stream'.buffer = <<>> /\ disk' = d \o Append(s.buffer, n)
      <3> DEFINE x == Append(s.buffer, n)
                 y == d \o Append(s.buffer, n)
      <3> HIDE DEF x, y
      <3>1. CASE w = Persistence(TRUE, x, d)
        BY <1>1, <3>1 DEF Persistence, x
      <3>2. CASE w = Persistence(TRUE, <<>>, y)
        BY <1>1, <3>2 DEF Persistence, y
      <3> QED
        BY <1>4, <3>1, <3>2 DEF x, y
    <2>5. CASE stream'.buffer = Append(s.buffer, n) /\ disk' = d
      BY <1>2, <2>1, <2>2, <2>3, <2>5 DEF Standing
    <2>6. CASE stream'.buffer = <<>> /\ disk' = d \o Append(s.buffer, n)
      BY <1>2, <2>1, <2>2, <2>3, <2>6 DEF Standing
    <2> QED
      BY <2>4, <2>5, <2>6
  <1> QED
    BY <1>1, <1>3, <1>4 DEF written, Standing

\* Steps that do not touch the persistence file.
LEMMA FileKeptInv ==
  ASSUME MainInv, UNCHANGED <<input, disk>>,
         \/ /\ pc \in {"config", "header", "rows"}
            /\ pc' \in {"header", "rows", "open", "exit"}
            /\ UNCHANGED <<stream, emitted, failed>>
            /\ exit' # "running" => pc' = "exit"
            /\ exit' # "success"
         \/ /\ pc \in {"open", "replay"} /\ pc' = "exit" /\ exit' = "failure"
            /\ UNCHANGED <<emitted, ticks, error>>
         \/ UNCHANGED mainVars
  PROVE  JournalInv'
  <1>1. CASE UNCHANGED mainVars
    BY <1>1 DEF MainInv, JournalInv, mainVars, SuccessMeansCompleteJournal,
                BadInputKeepsOldJournal
  <1>2. CASE /\ pc \in {"config", "header", "rows"}
             /\ pc' \in {"header", "rows", "open", "exit"}
             /\ UNCHANGED <<stream, emitted, failed>>
             /\ exit' # "running" => pc' = "exit"
             /\ exit' # "success"
    BY <1>2 DEF MainInv, JournalInv, SuccessMeansCompleteJournal,
                BadInputKeepsOldJournal
  <1>3. CASE /\ pc \in {"open", "replay"} /\ pc' = "exit" /\ exit' = "failure"
             /\ UNCHANGED <<emitted, ticks, error>>
    <2>1. error = NoError /\ ticks # <<>>
      BY <1>3 DEF MainInv, ReadInv
    <2> QED
      BY <1>3, <2>1 DEF MainInv, JournalInv, SuccessMeansCompleteJournal,
                        BadInputKeepsOldJournal
  <1> QED
    BY <1>1, <1>2, <1>3

\* Steps of the replay that leave the file complete so far, or a reason.
LEMMA ReplayedInv ==
  ASSUME MainInv, pc \in {"open", "replay"}, pc' \in {"replay", "flush"},
         UNCHANGED exit, emitted' \in Nat,
         Standing(disk', stream', failed', emitted' + 1)
  PROVE  JournalInv'
  BY DEF MainInv, JournalInv, Standing, SuccessMeansCompleteJournal,
         BadInputKeepsOldJournal

\* The file is opened: truncated, with its header written.
LEMMA OpenInv ==
  ASSUME MainInv, OpenPersistence
  PROVE  MainInv'
  <1> USE DEF OpenPersistence, Exit
  <1>1. ReadInv'
    BY NothingReadInv
  <1>2. CASE /\ pc' = "exit" /\ exit' = "failure"
             /\ UNCHANGED <<disk, stream, failed>>
    BY <1>1, <1>2, FileKeptInv DEF MainInv
  <1>3. CASE /\ Persist(written(FreshStream, <<>>, 0))
             /\ pc' = "replay" /\ UNCHANGED exit
    <2>1. Standing(<<>>, FreshStream, failed, 0)
      BY DEF Standing, FreshStream, Numbered
    <2>2. emitted = 0 /\ emitted' = emitted /\ 0 + 1 = emitted' + 1
      BY DEF MainInv, JournalInv
    <2>3. Standing(disk', stream', failed', 0 + 1)
      BY <1>3, <2>1, PersistStands
    <2> QED
      BY <1>1, <1>3, <2>2, <2>3, ReplayedInv DEF MainInv
  <1> QED
    BY <1>2, <1>3

\* An event is written.
LEMMA ConsumeInv ==
  ASSUME MainInv, Consume
  PROVE  MainInv'
  <1> USE DEF Consume
  <1>1. ReadInv'
    BY NothingReadInv
  <1>2. /\ emitted \in Nat /\ emitted + 1 \in Nat
        /\ Standing(disk, stream, failed, emitted + 1)
    BY DEF MainInv, JournalInv
  <1>3. Standing(disk', stream', failed', (emitted + 1) + 1)
    BY <1>2, PersistStands
  <1> QED
    BY <1>1, <1>2, <1>3, ReplayedInv DEF MainInv

\* A dropped event is a reason to fail.
LEMMA DropInv ==
  ASSUME MainInv, Drop
  PROVE  MainInv'
  <1> USE DEF Drop
  <1>1. ReadInv'
    BY NothingReadInv
  <1>2. /\ emitted \in Nat /\ emitted + 1 \in Nat
        /\ Standing(disk, stream, failed, emitted + 1)
    BY DEF MainInv, JournalInv
  <1>3. Standing(disk', stream', failed', (emitted + 1) + 1)
    BY <1>2 DEF Standing
  <1> QED
    BY <1>1, <1>2, <1>3, ReplayedInv DEF MainInv

\* run_replay comes back.
LEMMA ReplayReturnsInv ==
  ASSUME MainInv, ReplayReturns
  PROVE  MainInv'
  <1> USE DEF ReplayReturns, Exit
  <1>1. ReadInv'
    BY NothingReadInv
  <1>2. CASE pc' = "exit" /\ exit' = "failure" /\ UNCHANGED failed
    BY <1>1, <1>2, FileKeptInv DEF MainInv
  <1>3. CASE pc' = "flush" /\ UNCHANGED exit /\ failed \subseteq failed'
    <2>1. /\ emitted \in Nat /\ emitted' = emitted
          /\ Standing(disk, stream, failed, emitted + 1)
      BY DEF MainInv, JournalInv
    <2>2. Standing(disk', stream', failed', emitted' + 1)
      BY <1>3, <2>1 DEF Standing
    <2> QED
      BY <1>1, <1>3, <2>1, <2>2, ReplayedInv DEF MainInv
  <1> QED
    BY <1>2, <1>3

\* The last flush decides: success only with everything on the disk.
LEMMA FinishInv ==
  ASSUME MainInv, Finish
  PROVE  MainInv'
  <1>1. /\ pc = "flush" /\ pc' = "exit"
        /\ exit' = IF failed' = {} THEN "success" ELSE "failure"
        /\ UNCHANGED <<input, line, ticks, error, emitted>>
    BY DEF Finish, Exit
  <1>2. ReadInv'
    BY <1>1, NothingReadInv
  <1>3. /\ error = NoError /\ ticks # <<>> /\ emitted \in Nat
        /\ line = Len(input.rows) + 1 /\ Accepted(line - 1)
        /\ Standing(disk, stream, failed, emitted + 1)
        /\ Len(input.rows) \in Nat /\ input.rows \in Seq(Seq(Field))
    BY <1>1, Reading DEF MainInv, ReadInv, JournalInv
  <1>4. failed' = {} => disk' = [i \in 1 .. emitted + 1 |-> i - 1]
    <2> SUFFICES ASSUME failed' = {}
                 PROVE  disk' = [i \in 1 .. emitted + 1 |-> i - 1]
      OBVIOUS
    <2>1. PICK w \in flushed :
            /\ disk' = w.disk /\ w.stream.good /\ failed = {}
      BY DEF Finish, stream_failed
    <2>2. stream.good /\ Numbered(disk \o stream.buffer, emitted + 1)
            /\ disk \in Seq(Nat) /\ stream.buffer \in Seq(Nat)
      BY <1>3, <2>1 DEF Standing
    <2>3. disk' = disk \o stream.buffer
      BY <2>1, <2>2 DEF flushed, Persistence
    <2>4. disk' \in Seq(Nat) /\ disk' = [i \in 1 .. Len(disk') |-> disk'[i]]
      BY <2>2, <2>3
    <2>5. Len(disk') = emitted + 1 /\ \A i \in 1 .. emitted + 1 : disk'[i] = i - 1
      BY <2>2, <2>3 DEF Numbered
    <2> QED
      BY <2>4, <2>5
  <1>5. ticks = [i \in DOMAIN input.rows |-> parsed(input.rows[i])]
    <2>1. ticks \in Seq({parsed(row) : row \in Seq(Field)})
      BY DEF MainInv, ReadInv
    <2>2. Len(ticks) = Len(input.rows) /\ DOMAIN input.rows = 1 .. Len(input.rows)
      BY <1>3 DEF Accepted
    <2>3. \A i \in 1 .. Len(input.rows) : ticks[i] = parsed(input.rows[i])
      BY <1>3 DEF Accepted, Tick
    <2>4. ticks = [i \in 1 .. Len(ticks) |-> ticks[i]]
      BY <2>1
    <2> QED
      BY <2>2, <2>3, <2>4
  <1>6. SuccessMeansCompleteJournal' /\ BadInputKeepsOldJournal'
    BY <1>1, <1>3, <1>4, <1>5
       DEF SuccessMeansCompleteJournal, BadInputKeepsOldJournal
  <1>7. JournalInv'
    BY <1>1, <1>3, <1>6 DEF JournalInv
  <1> QED
    BY <1>2, <1>7 DEF MainInv

\* Every step of main keeps the invariant.
LEMMA MainStepInv ==
  ASSUME MainInv, [MainNext]_mainVars
  PROVE  MainInv'
  <1>1. CASE ParseConfig
    <2>1. ReadInv'
      BY <1>1, NothingReadInv DEF ParseConfig, Exit
    <2>2. exit = "running"
      BY <1>1 DEF MainInv, JournalInv, ParseConfig
    <2>3. JournalInv'
      BY <1>1, <2>2, FileKeptInv DEF ParseConfig, Exit
    <2> QED
      BY <2>1, <2>3 DEF MainInv
  <1>2. CASE ReadHeader
    <2>1. exit = "running"
      BY <1>2 DEF MainInv, JournalInv, ReadHeader
    <2>2. JournalInv'
      BY <1>2, <2>1, FileKeptInv DEF ReadHeader, Refuse, Exit
    <2> QED
      BY <1>2, <2>2, ReadHeaderInv DEF MainInv
  <1>3. CASE ReadRow
    <2>1. exit = "running"
      BY <1>3 DEF MainInv, JournalInv, ReadRow
    <2>2. JournalInv'
      BY <1>3, <2>1, FileKeptInv DEF ReadRow, Refuse, Exit
    <2> QED
      BY <1>3, <2>2, ReadRowInv DEF MainInv
  <1>4. CASE EndOfRows
    <2>1. exit = "running"
      BY <1>4 DEF MainInv, JournalInv, EndOfRows
    <2>2. JournalInv'
      BY <1>4, <2>1, FileKeptInv DEF EndOfRows, Refuse, Exit
    <2> QED
      BY <1>4, <2>2, EndOfRowsInv DEF MainInv
  <1>5. CASE UNCHANGED mainVars
    BY <1>5, NothingReadInv, FileKeptInv DEF mainVars, MainInv
  <1> QED
    BY <1>1, <1>2, <1>3, <1>4, <1>5, OpenInv, ConsumeInv, DropInv,
       ReplayReturnsInv, FinishInv DEF MainNext, Exited

-----------------------------------------------------------------------------

\* The inductive invariant of main.
THEOREM MainInvariant == MainSpec => []MainInv
  <1>1. MainInit => MainInv
    <2> SUFFICES ASSUME MainInit PROVE MainInv
      OBVIOUS
    <2> USE DEF MainInit
    <2>1. FirstErrorReported
      BY DEF FirstErrorReported, NoError
    <2>2. ReadInv
      BY <2>1, EmptySeq DEF ReadInv
    <2>3. JournalInv
      BY DEF JournalInv, SuccessMeansCompleteJournal, BadInputKeepsOldJournal
    <2> QED
      BY <2>2, <2>3 DEF MainInv
  <1>2. MainInv /\ [MainNext]_mainVars => MainInv'
    BY MainStepInv
  <1> QED
    BY <1>1, <1>2, PTL DEF MainSpec

\* Exit status 0 means that every row was replayed and every event is on the
\* disk, in order, for every input and every number of events.
THEOREM SuccessIsComplete == MainSpec => []SuccessMeansCompleteJournal
  <1>1. MainInv => SuccessMeansCompleteJournal
    BY DEF MainInv, JournalInv
  <1> QED
    BY <1>1, MainInvariant, PTL

\* read_all names the first row that does not belong into the file, although
\* it compares a row only with its predecessor and with the first row.
THEOREM ReaderFailsFast == MainSpec => []FirstErrorReported
  <1>1. MainInv => FirstErrorReported
    BY DEF MainInv, ReadInv
  <1> QED
    BY <1>1, MainInvariant, PTL

\* A refused run leaves the previous journal alone.
THEOREM OldJournalIsKept == MainSpec => []BadInputKeepsOldJournal
  <1>1. MainInv => BadInputKeepsOldJournal
    BY DEF MainInv, JournalInv
  <1> QED
    BY <1>1, MainInvariant, PTL
=============================================================================
