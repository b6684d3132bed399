--------------------------- MODULE PriceJobsProofs ---------------------------
(***************************************************************************)
(* Proofs about PriceJobs, for any jobs, workers, channel, pages, records, *)
(* keys and batches.                                                       *)
(***************************************************************************)
EXTENDS PriceJobs, SequenceTheorems, WellFoundedInduction, TLAPS

(***************************************************************************)
(* Numbers.                                                                *)
(***************************************************************************)

\* Induction, with a set in the place of a predicate.
LEMMA SetInduction ==
    ASSUME NEW S, 0 \in S, \A n \in Nat : n \in S => n + 1 \in S
    PROVE  \A n \in Nat : n \in S
<1> DEFINE bad == Nat \ S
<1>1. SUFFICES ASSUME bad # {} PROVE FALSE
  OBVIOUS
<1>2. PICK x \in bad : \A y \in bad : ~(<<y, x>> \in OpToRel(<, Nat))
  BY <1>1, NatLessThanWellFounded, WFMin
<1>3. x \in Nat /\ x # 0 /\ x \notin S
  OBVIOUS
<1>4. x - 1 \in Nat /\ x - 1 < x
  BY <1>3
<1>5. x - 1 \in S
  BY <1>2, <1>4 DEF OpToRel
<1> QED BY <1>3, <1>4, <1>5

LEMMA MinMaxOK ==
    ASSUME NEW a \in Nat, NEW b \in Nat
    PROVE  /\ Min({a, b}) = IF a <= b THEN a ELSE b
           /\ Max({a, b}) = IF a <= b THEN b ELSE a
<1>1. Min({a, b}) = IF a <= b THEN a ELSE b
  BY DEF Min
<1>2. Max({a, b}) = IF a <= b THEN b ELSE a
  BY DEF Max
<1> QED BY <1>1, <1>2

LEMMA CountOK == Count \in Nat /\ Wanted \in Nat /\ Wanted <= Count /\ Wanted <= MaxRecords
<1>1. Count \in Nat
  BY PriceAssumption DEF Count
<1> QED BY <1>1, MinMaxOK, PriceAssumption DEF Wanted

\* A page ends with the last record, or before it.
LEMMA PageEndsOK ==
    ASSUME NEW n \in Nat, n <= Count, n % PageRecords # 0, n >= 1
    PROVE  n + 1 <= Count
<1>1. Pages \in Nat /\ PageRecords \in Nat
  BY PriceAssumption
<1>2. PageRecords # 0
  BY <1>1 DEF Count
<1>3. (Pages * PageRecords) % PageRecords = 0
  BY <1>1, <1>2
<1>4. n # Count
  BY <1>3 DEF Count
<1> QED BY <1>4, CountOK

\* All rows are in a batch.
LEMMA BatchesCover ==
    ASSUME NEW n \in Nat
    PROVE  /\ (n + Batch - 1) \div Batch \in Nat
           /\ ((n + Batch - 1) \div Batch) * Batch >= n
<1>1. Batch \in Nat /\ Batch >= 1
  BY PriceAssumption
<1> QED BY <1>1

(***************************************************************************)
(* Files.                                                                  *)
(***************************************************************************)

Text == Line \cup {Header, Hole}

Rec(gen, n) == [gen |-> gen, n |-> n, torn |-> FALSE]

LEMMA LinesOK ==
    ASSUME NEW gen \in 1 .. MaxFetches, NEW n \in Records
    PROVE  /\ \A cut \in BOOLEAN : [gen |-> gen, n |-> n, torn |-> cut] \in Line
           /\ Rec(gen, n) \in Line /\ Header # Rec(gen, n) /\ Hole # Rec(gen, n)
           /\ ~Rec(gen, n).torn /\ Rec(gen, n).n = n
           /\ [Rec(gen, n) EXCEPT !.torn = FALSE] = Rec(gen, n)
<1> DEFINE r == Rec(gen, n)
<1>1. MaxFetches \in Nat /\ gen # 0
  BY PriceAssumption
<1>2. \A cut \in BOOLEAN : [gen |-> gen, n |-> n, torn |-> cut] \in Line
  BY DEF Line
<1>3. r.gen = gen /\ r.n = n /\ r.torn = FALSE
  BY DEF Rec
<1>4. Header.gen = 0 /\ Hole.gen = 0
  BY DEF Header, Hole
<1>6. r \in Line
  BY <1>2 DEF Rec
<1>5. [r EXCEPT !.torn = FALSE] = r
  <2> DEFINE e == [r EXCEPT !.torn = FALSE]
  <2>1. e.gen = gen /\ e.n = n /\ e.torn = FALSE
    BY DEF Rec
  <2>2. e \in Line
    BY <1>6 DEF Line
  <2> HIDE DEF e, r
  <2> QED BY <1>3, <1>6, <2>1, <2>2 DEF Line
<1> HIDE DEF r
<1>7. Header # r /\ Hole # r
  BY <1>1, <1>3, <1>4
<1> QED BY <1>2, <1>3, <1>5, <1>6, <1>7 DEF r

\* What is written at a place of a file that ends no earlier is what the file has there.
LEMMA PutOK ==
    ASSUME NEW lines \in Seq(Text), NEW at \in Nat, NEW f \in Seq(Text)
    PROVE  /\ Put(lines, at, f) \in Seq(Text)
           /\ at <= Len(f) /\ Len(f) <= at + Len(lines) =>
                 Len(Put(lines, at, f)) = at + Len(lines)
           /\ Len(Put(lines, at, f)) >= at + Len(lines)
           /\ at <= Len(f) => \A i \in 1 .. at : Put(lines, at, f)[i] = f[i]
           /\ \A i \in at + 1 .. at + Len(lines) : Put(lines, at, f)[i] = lines[i - at]
<1> DEFINE n == Max({Len(f), at + Len(lines)})
           line(i) == IF i > at /\ i <= at + Len(lines) THEN lines[i - at]
                      ELSE IF i <= Len(f) THEN f[i] ELSE Hole
<1>1. Len(f) \in Nat /\ Len(lines) \in Nat /\ at + Len(lines) \in Nat
  OBVIOUS
<1>2. n = IF Len(f) <= at + Len(lines) THEN at + Len(lines) ELSE Len(f)
  BY <1>1, MinMaxOK
<1>3. n \in Nat /\ n >= at + Len(lines) /\ n >= Len(f)
  BY <1>1, <1>2
<1>4. \A i \in 1 .. n : line(i) \in Text
  <2> TAKE i \in 1 .. n
  <2>1. Hole \in Text
    BY DEF Text
  <2>2. i > at /\ i <= at + Len(lines) => i - at \in 1 .. Len(lines)
    BY <1>1, <1>3
  <2>3. i <= Len(f) => i \in 1 .. Len(f)
    BY <1>1, <1>3
  <2>4. (\A k \in 1 .. Len(f) : f[k] \in Text) /\ (\A k \in 1 .. Len(lines) : lines[k] \in Text)
    OBVIOUS
  <2> QED BY <2>1, <2>2, <2>3, <2>4
<1>5. Put(lines, at, f) = [i \in 1 .. n |-> line(i)]
  BY DEF Put
<1> HIDE DEF n, line
<1>6. Put(lines, at, f) \in Seq(Text) /\ Len(Put(lines, at, f)) = n
  BY <1>3, <1>4, <1>5
<1>7. \A i \in 1 .. n : Put(lines, at, f)[i] = line(i)
  BY <1>5
<1>8. at <= Len(f) => \A i \in 1 .. at : i \in 1 .. n /\ line(i) = f[i]
  BY <1>1, <1>3 DEF line
<1>9. \A i \in at + 1 .. at + Len(lines) : i \in 1 .. n /\ line(i) = lines[i - at]
  BY <1>1, <1>3 DEF line
<1> QED BY <1>1, <1>2, <1>3, <1>6, <1>7, <1>8, <1>9

(***************************************************************************)
(* The rows of an import.                                                  *)
(***************************************************************************)

Ascending(rows) == \A i, k \in 1 .. Len(rows) : i < k => rows[i].n < rows[k].n

\* The recursion of Priced is a definition: there is a function that solves it.
LEMMA PricedRecursion ==
    ASSUME NEW rows \in Seq(Line)
    PROVE  \E kept :
             /\ Priced(rows) = kept[Len(rows)]
             /\ kept[0] = <<>>
             /\ \A i \in 1 .. Len(rows) :
                  kept[i] = IF rows[i].n \in ZeroPrice THEN kept[i - 1] ELSE Append(kept[i - 1], rows[i])
<1> DEFINE next(f, i) == IF rows[i].n \in ZeroPrice THEN f[i - 1] ELSE Append(f[i - 1], rows[i])
           Solves(f, m) == f = [i \in 0 .. m |-> IF i = 0 THEN <<>> ELSE next(f, i)]
           S == {m \in Nat : \E f : Solves(f, m)}
<1>1. 0 \in S
  <2> DEFINE f == [i \in 0 .. 0 |-> <<>>]
  <2>1. Solves(f, 0)
    OBVIOUS
  <2> QED BY <2>1
<1>2. \A m \in Nat : m \in S => m + 1 \in S
  <2> SUFFICES ASSUME NEW m \in Nat, m \in S PROVE m + 1 \in S
    OBVIOUS
  <2>1. PICK f : Solves(f, m)
    OBVIOUS
  <2> DEFINE g == [i \in 0 .. m + 1 |-> IF i = 0 THEN <<>> ELSE next(f, i)]
  <2>2. \A i \in 0 .. m : g[i] = f[i]
    <3> HIDE DEF next
    <3>1. \A i \in 0 .. m : f[i] = IF i = 0 THEN <<>> ELSE next(f, i)
      BY <2>1
    <3>2. \A i \in 0 .. m : i \in 0 .. m + 1
      OBVIOUS
    <3> QED BY <3>1, <3>2
  <2>3. \A i \in 1 .. m + 1 : i - 1 \in 0 .. m
    OBVIOUS
  <2>4. \A i \in 1 .. m + 1 : next(g, i) = next(f, i)
    <3> HIDE DEF g
    <3> QED BY <2>2, <2>3
  <2>5. \A i \in 0 .. m + 1 : i = 0 \/ i \in 1 .. m + 1
    OBVIOUS
  <2>6. Solves(g, m + 1)
    <3> HIDE DEF next
    <3> QED BY <2>4, <2>5
  <2> HIDE DEF g, Solves
  <2> QED BY <2>6
<1> DEFINE kept == CHOOSE f : Solves(f, Len(rows))
<1>3. Solves(kept, Len(rows))
  <2>1. Len(rows) \in S
    <3> HIDE DEF S
    <3>1. Len(rows) \in Nat
      OBVIOUS
    <3> QED BY <1>1, <1>2, <3>1, SetInduction
  <2> HIDE DEF next
  <2> QED BY <2>1
<1>4. Priced(rows) = kept[Len(rows)]
  BY DEF Priced
<1> HIDE DEF kept
<1>5. kept[0] = <<>>
  <2>1. 0 \in 0 .. Len(rows)
    OBVIOUS
  <2> QED BY <1>3, <2>1
<1>6. \A i \in 1 .. Len(rows) : kept[i] = next(kept, i)
  <2>1. \A i \in 1 .. Len(rows) : i \in 0 .. Len(rows) /\ i # 0
    OBVIOUS
  <2> HIDE DEF next
  <2> QED BY <1>3, <2>1
<1> QED BY <1>4, <1>5, <1>6

\* Rows with a price are kept, in their order.
LEMMA PricedOK ==
    ASSUME NEW rows \in Seq(Line)
    PROVE  /\ Priced(rows) \in Seq(Line)
           /\ Range(Priced(rows)) = {r \in Range(rows) : r.n \notin ZeroPrice}
           /\ Ascending(rows) => Ascending(Priced(rows))
<1>1. PICK kept :
        /\ Priced(rows) = kept[Len(rows)]
        /\ kept[0] = <<>>
        /\ \A i \in 1 .. Len(rows) :
             kept[i] = IF rows[i].n \in ZeroPrice THEN kept[i - 1] ELSE Append(kept[i - 1], rows[i])
  BY PricedRecursion
<1> DEFINE Values(s) == {s[i] : i \in 1 .. Len(s)}
           Good(m) == /\ kept[m] \in Seq(Line)
                      /\ \A r : r \in Values(kept[m]) <=>
                            \E i \in 1 .. m : r = rows[i] /\ r.n \notin ZeroPrice
                      /\ Ascending(rows) => Ascending(kept[m])
           S == {m \in Nat : m <= Len(rows) => Good(m)}
<1>2. 0 \in S
  <2>1. Good(0)
    BY <1>1 DEF Ascending
  <2> QED BY <2>1
<1>3. \A m \in Nat : m \in S => m + 1 \in S
  <2> HIDE DEF Good
  <2> SUFFICES ASSUME NEW m \in Nat, m \in S, m + 1 <= Len(rows) PROVE Good(m + 1)
    OBVIOUS
  <2> USE DEF Good
  <2>1. Good(m) /\ m + 1 \in 1 .. Len(rows) /\ (m + 1) - 1 = m
    <3>1. m <= Len(rows) /\ m + 1 \in 1 .. Len(rows) /\ (m + 1) - 1 = m
      OBVIOUS
    <3> HIDE DEF Good
    <3> QED BY <3>1
  <2> DEFINE row == rows[m + 1]
             old == kept[m]
  <2>2. row \in Line
    BY <2>1
  <2>3. kept[m + 1] = IF row.n \in ZeroPrice THEN old ELSE Append(old, row)
    BY <1>1, <2>1
  <2>4. \A i \in 1 .. m + 1 : i \in 1 .. m \/ i = m + 1
    OBVIOUS
  <2>5. \A i \in 1 .. m : i \in 1 .. m + 1 /\ i \in 1 .. Len(rows) /\ i < m + 1
    BY <2>1
  <2>6. CASE row.n \in ZeroPrice
    <3>1. \A r : (\E i \in 1 .. m : r = rows[i] /\ r.n \notin ZeroPrice)
                   <=> (\E i \in 1 .. m + 1 : r = rows[i] /\ r.n \notin ZeroPrice)
      BY <2>4, <2>5, <2>6
    <3>2. kept[m + 1] = old
      BY <2>3, <2>6
    <3> QED BY <2>1, <3>1, <3>2
  <2>7. CASE row.n \notin ZeroPrice
    <3> DEFINE new == Append(old, row)
    <3>1. old \in Seq(Line)
      BY <2>1
    <3>2. /\ new \in Seq(Line) /\ Len(new) = Len(old) + 1 /\ Len(old) \in Nat
          /\ new[Len(old) + 1] = row /\ \A i \in 1 .. Len(old) : new[i] = old[i]
      BY <2>2, <3>1
    <3>3. kept[m + 1] = new
      BY <2>3, <2>7
    <3> HIDE DEF new, old
    <3>4. \A i \in 1 .. Len(new) : i \in 1 .. Len(old) \/ i = Len(old) + 1
      BY <3>2
    <3>5. \A i \in 1 .. Len(old) : i \in 1 .. Len(new)
      BY <3>2
    <3>6. Len(old) + 1 \in 1 .. Len(new)
      BY <3>2
    <3>7. \A r : r \in Values(new) <=> r \in Values(old) \/ r = row
      BY <3>2, <3>4, <3>5, <3>6
    <3>8. \A r : r \in Values(old) <=> \E i \in 1 .. m : r = rows[i] /\ r.n \notin ZeroPrice
      BY <2>1 DEF old
    <3>9. \A r : r \in Values(new) <=>
             \E i \in 1 .. m + 1 : r = rows[i] /\ r.n \notin ZeroPrice
      <4> HIDE DEF Values
      <4> QED BY <2>4, <2>5, <2>7, <3>7, <3>8, <2>1
    <3>10. ASSUME Ascending(rows) PROVE Ascending(new)
      <4>1. Ascending(old)
        BY <2>1, <3>10 DEF old
      <4>2. \A i \in 1 .. Len(old) : old[i].n < row.n
        <5> TAKE i \in 1 .. Len(old)
        <5>1. PICK k \in 1 .. m : old[i] = rows[k]
          BY <3>8
        <5> QED BY <5>1, <2>5, <2>1, <3>10 DEF Ascending
      <4> SUFFICES ASSUME NEW i \in 1 .. Len(new), NEW k \in 1 .. Len(new), i < k
                   PROVE  new[i].n < new[k].n
        BY DEF Ascending
      <4>3. i \in 1 .. Len(old)
        BY <3>2
      <4>4. CASE k \in 1 .. Len(old)
        BY <4>1, <4>3, <4>4, <3>2 DEF Ascending
      <4>5. CASE k = Len(old) + 1
        BY <4>2, <4>3, <4>5, <3>2
      <4> QED BY <4>4, <4>5, <3>4
    <3> HIDE DEF Values
    <3> QED BY <3>2, <3>3, <3>9, <3>10
  <2> QED BY <2>6, <2>7
<1>4. Good(Len(rows))
  <2>1. Len(rows) \in Nat /\ Len(rows) <= Len(rows)
    OBVIOUS
  <2>2. Len(rows) \in S
    <3> HIDE DEF S
    <3> QED BY <1>2, <1>3, <2>1, SetInduction
  <2> HIDE DEF Good
  <2> QED BY <2>1, <2>2
<1>5. \A s \in Seq(Line) : Range(s) = Values(s)
  BY DEF Range
<1>6. Range(Priced(rows)) = {r \in Range(rows) : r.n \notin ZeroPrice}
  <2>1. Range(Priced(rows)) = Values(kept[Len(rows)])
    BY <1>1, <1>4, <1>5
  <2>2. \A r : r \in Range(rows) <=> \E i \in 1 .. Len(rows) : r = rows[i]
    BY <1>5
  <2>3. \A r : r \in Values(kept[Len(rows)]) <=>
           \E i \in 1 .. Len(rows) : r = rows[i] /\ r.n \notin ZeroPrice
    BY <1>4
  <2> HIDE DEF Values
  <2> QED BY <2>1, <2>2, <2>3
<1> QED BY <1>1, <1>4, <1>6

(***************************************************************************)
(* Batches and the table.                                                  *)
(***************************************************************************)

LEMMA UpsertedRecursion ==
    ASSUME NEW t, NEW p, NEW rows \in Seq(Line)
    PROVE  \E after :
             /\ Upserted(t, p, rows) = after[BatchesOf(rows)]
             /\ after[0] = t
             /\ \A b \in 1 .. BatchesOf(rows) :
                  after[b] = Upsert(after[b - 1], p, rows, Flushed(p, rows, b))
<1> DEFINE next(f, b) == Upsert(f[b - 1], p, rows, Flushed(p, rows, b))
           Solves(f, m) == f = [b \in 0 .. m |-> IF b = 0 THEN t ELSE next(f, b)]
           S == {m \in Nat : \E f : Solves(f, m)}
           last == BatchesOf(rows)
<1>1. 0 \in S
  <2> DEFINE f == [b \in 0 .. 0 |-> t]
  <2>1. Solves(f, 0)
    OBVIOUS
  <2> QED BY <2>1
<1>2. \A m \in Nat : m \in S => m + 1 \in S
  <2> SUFFICES ASSUME NEW m \in Nat, m \in S PROVE m + 1 \in S
    OBVIOUS
  <2>1. PICK f : Solves(f, m)
    OBVIOUS
  <2> DEFINE g == [b \in 0 .. m + 1 |-> IF b = 0 THEN t ELSE next(f, b)]
  <2>2. \A b \in 0 .. m : g[b] = f[b]
    <3> HIDE DEF next
    <3>1. \A b \in 0 .. m : f[b] = IF b = 0 THEN t ELSE next(f, b)
      BY <2>1
    <3>2. \A b \in 0 .. m : b \in 0 .. m + 1
      OBVIOUS
    <3> QED BY <3>1, <3>2
  <2>3. \A b \in 1 .. m + 1 : b - 1 \in 0 .. m
    OBVIOUS
  <2>4. \A b \in 1 .. m + 1 : next(g, b) = next(f, b)
    <3> HIDE DEF g
    <3> QED BY <2>2, <2>3
  <2>5. \A b \in 0 .. m + 1 : b = 0 \/ b \in 1 .. m + 1
    OBVIOUS
  <2>6. Solves(g, m + 1)
    <3> HIDE DEF next
    <3> QED BY <2>4, <2>5
  <2> HIDE DEF g, Solves
  <2> QED BY <2>6
<1>3. last \in Nat
  <2>1. Len(rows) \in Nat
    OBVIOUS
  <2> QED BY <2>1, BatchesCover DEF BatchesOf
<1> DEFINE after == CHOOSE f : Solves(f, last)
<1>4. Solves(after, last)
  <2>1. last \in S
    <3> HIDE DEF S
    <3> QED BY <1>1, <1>2, <1>3, SetInduction
  <2> HIDE DEF next
  <2> QED BY <2>1
<1>5. Upserted(t, p, rows) = after[last]
  BY DEF Upserted
<1> HIDE DEF after, last
<1>6. after[0] = t
  <2>1. 0 \in 0 .. last
    BY <1>3
  <2> HIDE DEF next
  <2> QED BY <1>4, <2>1
<1>7. \A b \in 1 .. last : after[b] = next(after, b)
  <2>1. \A b \in 1 .. last : b \in 0 .. last /\ b # 0
    BY <1>3
  <2> HIDE DEF next
  <2> QED BY <1>4, <2>1
<1> QED BY <1>5, <1>6, <1>7 DEF last

LEMMA GreatestOK ==
    ASSUME NEW n \in Nat, NEW S \in SUBSET (1 .. n), S # {}
    PROVE  \E x \in S : \A y \in S : y <= x
<1> DEFINE Greatest(R) == \E x \in R : \A y \in R : y <= x
           T == {m \in Nat : \A R \in SUBSET (1 .. m) : R # {} => Greatest(R)}
<1>1. 0 \in T
  <2>1. \A R \in SUBSET (1 .. 0) : R = {}
    OBVIOUS
  <2> HIDE DEF Greatest
  <2> QED BY <2>1
<1>2. \A m \in Nat : m \in T => m + 1 \in T
  <2> SUFFICES ASSUME NEW m \in Nat, m \in T, NEW R \in SUBSET (1 .. m + 1), R # {}
               PROVE  Greatest(R)
    <3> HIDE DEF Greatest
    <3> QED OBVIOUS
  <2>1. CASE m + 1 \in R
    BY <2>1
  <2>2. CASE m + 1 \notin R
    <3>1. R \in SUBSET (1 .. m)
      BY <2>2
    <3> HIDE DEF Greatest
    <3> QED BY <3>1
  <2> QED BY <2>1, <2>2
<1>3. n \in T
  <2> HIDE DEF T
  <2> QED BY <1>1, <1>2, SetInduction
<1> HIDE DEF Greatest
<1>4. Greatest(S)
  BY <1>3
<1> QED BY <1>4 DEF Greatest

\* A batch without the rows that a later one with the same key replaces.
LEMMA FlushedOK ==
    ASSUME NEW p, NEW rows \in Seq(Line), NEW b \in Nat \ {0}
    PROVE  /\ Flushed(p, rows, b) \subseteq 1 .. Len(rows)
           /\ \A i \in Flushed(p, rows, b) : (b - 1) * Batch < i /\ i <= b * Batch
           /\ \A i \in Flushed(p, rows, b), k \in 1 .. Len(rows) :
                 k <= b * Batch /\ Key(p, rows[k].n) = Key(p, rows[i].n) => k <= i
           /\ \A i \in 1 .. Len(rows) :
                 (b - 1) * Batch < i /\ i <= b * Batch =>
                   \E k \in Flushed(p, rows, b) : Key(p, rows[k].n) = Key(p, rows[i].n)
<1> DEFINE first == (b - 1) * Batch
           end == b * Batch
           batch == first + 1 .. Min({end, Len(rows)})
           n == Len(rows)
<1>1. n \in Nat /\ first \in Nat /\ end \in Nat
  BY PriceAssumption
<1>2. Flushed(p, rows, b) = Deduplicated(p, rows, batch)
  BY DEF Flushed
<1>3. Min({end, n}) = IF end <= n THEN end ELSE n
  BY <1>1, MinMaxOK
<1> HIDE DEF first, end, n
<1>4. \A i : i \in batch <=> i \in 1 .. n /\ first < i /\ i <= end
  BY <1>1, <1>3 DEF n
<1> HIDE DEF batch
<1>5. \A i : i \in Flushed(p, rows, b) <=>
          /\ i \in batch
          /\ \A k \in batch : Key(p, rows[k].n) = Key(p, rows[i].n) => k <= i
  BY <1>2 DEF Deduplicated
<1>6. \A i \in Flushed(p, rows, b), k \in 1 .. n :
          k <= end /\ Key(p, rows[k].n) = Key(p, rows[i].n) => k <= i
  <2> TAKE i \in Flushed(p, rows, b), k \in 1 .. n
  <2>1. CASE k \in batch
    BY <1>5, <2>1
  <2>2. CASE k <= end /\ k \notin batch
    BY <1>1, <1>4, <1>5, <2>2
  <2> QED BY <2>1, <2>2
<1>7. \A i \in batch : \E k \in Flushed(p, rows, b) : Key(p, rows[k].n) = Key(p, rows[i].n)
  <2> TAKE i \in batch
  <2> DEFINE like == {k \in batch : Key(p, rows[k].n) = Key(p, rows[i].n)}
  <2>1. like \in SUBSET (1 .. n) /\ like # {}
    BY <1>4
  <2>2. PICK k \in like : \A y \in like : y <= k
    BY <1>1, <2>1, GreatestOK
  <2>3. k \in Flushed(p, rows, b)
    BY <1>5, <2>2
  <2> QED BY <2>3
<1> QED BY <1>4, <1>5, <1>6, <1>7 DEF n, first, end

LEMMA UpsertOK ==
    ASSUME NEW t, NEW p, NEW rows, NEW batch
    PROVE  LET u == Upsert(t, p, rows, batch)
           IN  /\ \A key : key \in DOMAIN u <=>
                     key \in DOMAIN t \/ \E i \in batch : key = Key(p, rows[i].n)
               /\ \A i \in batch : \E k \in batch :
                     /\ Key(p, rows[k].n) = Key(p, rows[i].n)
                     /\ u[Key(p, rows[i].n)] = rows[k]
               /\ \A key \in DOMAIN t :
                     (\A i \in batch : Key(p, rows[i].n) # key) => u[key] = t[key]
BY DEF Upsert

\* A table of complete rows, the last of those with one key.
LEMMA UpsertedOK ==
    ASSUME NEW t, NEW p, NEW rows \in Seq(Line), \A key \in DOMAIN t : t[key] \in Line
    PROVE  LET u == Upserted(t, p, rows)
           IN  /\ \A key \in DOMAIN u : u[key] \in Line
               /\ \A i \in 1 .. Len(rows) :
                    (\A k \in 1 .. Len(rows) : Key(p, rows[k].n) = Key(p, rows[i].n) => k <= i)
                      => u[Key(p, rows[i].n)] = rows[i]
<1> DEFINE n == Len(rows)
           last == BatchesOf(rows)
           key(i) == Key(p, rows[i].n)
<1>1. PICK after :
        /\ Upserted(t, p, rows) = after[last]
        /\ after[0] = t
        /\ \A b \in 1 .. last : after[b] = Upsert(after[b - 1], p, rows, Flushed(p, rows, b))
  BY UpsertedRecursion
<1>2. n \in Nat /\ last \in Nat /\ last * Batch >= n /\ Batch \in Nat
  BY BatchesCover, PriceAssumption DEF BatchesOf
<1>3. \A i \in 1 .. n : rows[i] \in Line
  OBVIOUS
<1> DEFINE Typed(u) == \A k \in DOMAIN u : u[k] \in Line
           LastTo(i, end) == i <= end /\ \A k \in 1 .. n : k <= end /\ key(k) = key(i) => k <= i
           Newest(u, end) ==
             \A i \in 1 .. n : LastTo(i, end) => key(i) \in DOMAIN u /\ u[key(i)] = rows[i]
           Good(b) == Typed(after[b]) /\ Newest(after[b], b * Batch)
           S == {b \in Nat : b <= last => Good(b)}
<1>4. 0 \in S
  <2>1. 0 * Batch = 0
    BY <1>2
  <2>2. Typed(after[0])
    BY <1>1
  <2>3. Newest(after[0], 0 * Batch)
    BY <1>2, <2>1
  <2> HIDE DEF Typed, Newest
  <2> QED BY <2>2, <2>3
<1>5. \A b \in Nat : b \in S => b + 1 \in S
  <2> HIDE DEF Good
  <2> SUFFICES ASSUME NEW b \in Nat, b \in S, b + 1 <= last PROVE Good(b + 1)
    OBVIOUS
  <2> DEFINE old == after[b]
             new == after[b + 1]
             batch == Flushed(p, rows, b + 1)
             from == b * Batch
             end == (b + 1) * Batch
  <2>1. Good(b)
    BY <1>2
  <2>2. new = Upsert(old, p, rows, batch)
    <3>1. b + 1 \in 1 .. last /\ (b + 1) - 1 = b
      BY <1>2
    <3> QED BY <1>1, <3>1
  <2>3. from \in Nat /\ end \in Nat /\ from <= end
    BY <1>2
  <2>4. /\ batch \subseteq 1 .. n
        /\ \A i \in batch : from < i /\ i <= end
        /\ \A i \in batch, k \in 1 .. n : k <= end /\ key(k) = key(i) => k <= i
        /\ \A i \in 1 .. n : from < i /\ i <= end => \E k \in batch : key(k) = key(i)
    <3>1. b + 1 \in Nat \ {0} /\ (b + 1) - 1 = b
      OBVIOUS
    <3> QED BY <3>1, FlushedOK, ZenonT(30)
  <2>5. /\ \A c : c \in DOMAIN new <=> c \in DOMAIN old \/ \E i \in batch : c = key(i)
        /\ \A i \in batch : \E k \in batch : key(k) = key(i) /\ new[key(i)] = rows[k]
        /\ \A c \in DOMAIN old : (\A i \in batch : key(i) # c) => new[c] = old[c]
    <3> HIDE DEF old, new, batch
    <3> QED BY <2>2, UpsertOK
  <2>6. Typed(old) /\ Newest(old, from)
    <3> HIDE DEF Typed, Newest
    <3> QED BY <2>1 DEF Good
  <2> HIDE DEF old, new, batch, from, end
  <2>7. Typed(new)
    <3> SUFFICES ASSUME NEW c \in DOMAIN new PROVE new[c] \in Line
      OBVIOUS
    <3> HIDE DEF key
    <3>1. CASE \E i \in batch : key(i) = c
      BY <1>3, <2>4, <2>5, <3>1
    <3>2. CASE ~(\E i \in batch : key(i) = c)
      <4>1. c \in DOMAIN old /\ new[c] = old[c]
        BY <2>5, <3>2
      <4> QED BY <2>6, <4>1
    <3> QED BY <3>1, <3>2
  <2>8. Newest(new, end)
    <3> SUFFICES ASSUME NEW i \in 1 .. n, LastTo(i, end)
                 PROVE  key(i) \in DOMAIN new /\ new[key(i)] = rows[i]
      OBVIOUS
    <3> HIDE DEF key
    <3>1. CASE \E x \in batch : key(x) = key(i)
      <4>1. PICK x \in batch : key(x) = key(i)
        BY <3>1
      <4>2. PICK c \in batch : key(c) = key(x) /\ new[key(x)] = rows[c]
        BY <2>5
      <4>3. c \in 1 .. n /\ i <= c
        BY <2>4, <4>1, <4>2
      <4>4. c <= end
        BY <2>4
      <4>5. c <= i
        BY <4>1, <4>2, <4>3, <4>4
      <4>6. c = i
        BY <4>3, <4>5
      <4> QED BY <2>5, <4>1, <4>2, <4>6
    <3>2. CASE ~(\E x \in batch : key(x) = key(i))
      <4>1. i <= from
        BY <2>3, <2>4, <3>2
      <4>2. LastTo(i, from)
        BY <1>2, <2>3, <4>1
      <4>3. key(i) \in DOMAIN old /\ old[key(i)] = rows[i]
        BY <2>6, <4>2
      <4> QED BY <2>5, <3>2, <4>3
    <3> QED BY <3>1, <3>2
  <2> HIDE DEF Typed, Newest
  <2> QED BY <2>7, <2>8 DEF Good, new, end
<1>6. Good(last)
  <2>1. last \in S
    <3> HIDE DEF S
    <3> QED BY <1>2, <1>4, <1>5, SetInduction
  <2> HIDE DEF Good
  <2> QED BY <1>2, <2>1
<1>7. ASSUME NEW i \in 1 .. n, \A k \in 1 .. n : key(k) = key(i) => k <= i
      PROVE  after[last][key(i)] = rows[i]
  <2>1. Newest(after[last], last * Batch)
    <3> HIDE DEF Newest, Typed
    <3> QED BY <1>6
  <2>2. LastTo(i, last * Batch)
    BY <1>2, <1>7
  <2> HIDE DEF LastTo
  <2> QED BY <2>1, <2>2
<1>8. Typed(after[last])
  <2> HIDE DEF Newest, Typed
  <2> QED BY <1>6
<1> QED BY <1>1, <1>7, <1>8

(***************************************************************************)
(* Types.                                                                  *)
(***************************************************************************)

\* A fetcher sends no record beyond those wanted, and has sent all when it closes.
FetchState ==
    {f \in [pc : {"none", "create", "page", "send", "close", "ok", "error"},
            next : 1 .. Count + 1, chan : Seq(Records), pending : Seq(Text), at : Nat,
            broken : BOOLEAN, told : BOOLEAN] :
        /\ f.pc = "create" => f.next = 1
        /\ f.pc = "send" => f.next <= Wanted
        /\ f.pc = "page" => f.next <= Wanted + 1
        /\ f.pc = "close" => f.next = Wanted + 1
        /\ Len(f.chan) <= Buffer}

JobState == [kind : Kinds \cup {"none"}, gen : 0 .. MaxFetches, pc : {"idle", "fetch", "import"}]

ImportState == [pc : {"none", "read", "commit"}, from : Providers, at : Nat, rows : Seq(Line)]

TypeInv ==
    /\ up \in BOOLEAN /\ fetches \in 0 .. MaxFetches
    /\ file \in [Providers -> Seq(Text)]
    /\ table = [p \in Providers |-> table[p]]
    /\ \A p \in Providers : \A k \in DOMAIN table[p] : table[p][k] \in Line
    /\ job \in [Jobs -> JobState]
    /\ fetch \in [Jobs -> [Providers -> FetchState]]
    /\ worker \in [Jobs -> [Workers -> Records \cup {Idle, Gone}]]
    /\ import \in [Jobs -> ImportState]
    /\ \A j \in Jobs : job[j].pc = "fetch" => job[j].gen # 0

LEMMA FieldsOK ==
    ASSUME NEW f \in FetchState
    PROVE  /\ f.next \in Nat /\ 1 <= f.next /\ f.next <= Count + 1
           /\ f.chan \in Seq(Records) /\ Len(f.chan) \in Nat /\ Len(f.chan) <= Buffer
           /\ f.pending \in Seq(Text) /\ Len(f.pending) \in Nat /\ f.at \in Nat
           /\ f.pc = "create" => f.next = 1
           /\ f.pc = "send" => f.next <= Wanted
           /\ f.pc = "page" => f.next <= Wanted + 1
           /\ f.pc = "close" => f.next = Wanted + 1
<1>1. /\ f.next \in 1 .. Count + 1 /\ f.chan \in Seq(Records) /\ Len(f.chan) <= Buffer
      /\ f.pending \in Seq(Text) /\ f.at \in Nat
      /\ f.pc = "create" => f.next = 1
      /\ f.pc = "send" => f.next <= Wanted
      /\ f.pc = "page" => f.next <= Wanted + 1
      /\ f.pc = "close" => f.next = Wanted + 1
  BY DEF FetchState
<1> QED BY <1>1, CountOK

LEMMA SetPcOK ==
    ASSUME NEW f \in FetchState, NEW pc \in {"page", "send", "close"},
           pc = "send" => f.next <= Wanted, pc = "page" => f.next <= Wanted + 1,
           pc = "close" => f.next = Wanted + 1
    PROVE  LET g == [f EXCEPT !.pc = pc]
           IN  /\ g \in FetchState /\ g.pc = pc /\ g.next = f.next /\ g.chan = f.chan
               /\ g.pending = f.pending /\ g.at = f.at /\ g.broken = f.broken
<1> DEFINE g == [f EXCEPT !.pc = pc]
<1>1. /\ g.pc = pc /\ g.next = f.next /\ g.chan = f.chan
      /\ g.pending = f.pending /\ g.at = f.at /\ g.broken = f.broken
  BY DEF FetchState
<1>2. g \in FetchState
  BY DEF FetchState
<1> QED BY <1>1, <1>2

LEMMA SetChanOK ==
    ASSUME NEW f \in FetchState, NEW chan \in Seq(Records), Len(chan) <= Buffer
    PROVE  LET g == [f EXCEPT !.chan = chan]
           IN  /\ g \in FetchState /\ g.pc = f.pc /\ g.next = f.next /\ g.chan = chan
               /\ g.pending = f.pending /\ g.at = f.at /\ g.broken = f.broken
<1> DEFINE g == [f EXCEPT !.chan = chan]
<1>1. /\ g.pc = f.pc /\ g.next = f.next /\ g.chan = chan
      /\ g.pending = f.pending /\ g.at = f.at /\ g.broken = f.broken
  BY DEF FetchState
<1>2. g \in FetchState
  BY DEF FetchState
<1> QED BY <1>1, <1>2

LEMMA SetBrokenOK ==
    ASSUME NEW f \in FetchState
    PROVE  LET g == [f EXCEPT !.broken = TRUE, !.told = TRUE]
           IN  /\ g \in FetchState /\ g.pc = f.pc /\ g.next = f.next /\ g.chan = f.chan
               /\ g.pending = f.pending /\ g.at = f.at /\ g.broken
<1> DEFINE State == [pc : {"none", "create", "page", "send", "close", "ok", "error"},
                     next : 1 .. Count + 1, chan : Seq(Records), pending : Seq(Text), at : Nat,
                     broken : BOOLEAN, told : BOOLEAN]
           g == [f EXCEPT !.broken = TRUE, !.told = TRUE]
<1>1. f \in State
  BY DEF FetchState
<1>2. /\ g \in State /\ g.pc = f.pc /\ g.next = f.next /\ g.chan = f.chan
      /\ g.pending = f.pending /\ g.at = f.at /\ g.broken
  BY <1>1
<1> HIDE DEF g
<1>3. g \in FetchState
  BY <1>2, FieldsOK DEF FetchState
<1> QED BY <1>2, <1>3 DEF g

LEMMA NothingOK ==
    /\ "azure" \in Providers /\ "aws" \in Providers
    /\ NoJob \in JobState /\ NoJob.gen = 0 /\ NoJob.pc = "idle" /\ NoJob.kind = "none"
    /\ NoImport \in ImportState
    /\ NoFetch \in FetchState
    /\ \A pc \in {"create", "ok", "error"} : [NoFetch EXCEPT !.pc = pc] \in FetchState
    /\ [NoImport EXCEPT !.pc = "read"] \in ImportState
<1>1. MaxFetches \in Nat /\ Buffer \in Nat /\ Count \in Nat
  BY PriceAssumption, CountOK
<1>2. Header \in Text
  BY DEF Text
<1>3. NoJob \in JobState /\ NoJob.gen = 0 /\ NoJob.pc = "idle" /\ NoJob.kind = "none"
  BY <1>1 DEF NoJob, JobState
<1>4. NoImport \in ImportState /\ [NoImport EXCEPT !.pc = "read"] \in ImportState
  <2>1. <<>> \in Seq(Line)
    OBVIOUS
  <2> QED BY <2>1 DEF NoImport, ImportState, Providers
<1>5. <<Header>> \in Seq(Text) /\ <<>> \in Seq(Records) /\ Len(<<>>) = 0 /\ 1 \in 1 .. Count + 1
  BY <1>1, <1>2
<1>6. NoFetch \in FetchState
  BY <1>1, <1>5 DEF NoFetch, FetchState
<1>7. \A pc \in {"create", "ok", "error"} : [NoFetch EXCEPT !.pc = pc] \in FetchState
  <2>1. NoFetch.next = 1
    BY DEF NoFetch
  <2> QED BY <1>6, <2>1 DEF FetchState
<1> QED BY <1>3, <1>4, <1>6, <1>7 DEF Providers

LEMMA TypeInit == Init => TypeInv
<1> SUFFICES ASSUME Init PROVE TypeInv
  OBVIOUS
<1>1. MaxFetches \in Nat
  BY PriceAssumption
<1>2. file \in [Providers -> Seq(Text)]
  BY DEF Init
<1>3. table = [p \in Providers |-> table[p]] /\ \A p \in Providers : DOMAIN table[p] = {}
  BY DEF Init
<1>4. job \in [Jobs -> JobState] /\ \A j \in Jobs : job[j].pc # "fetch"
  BY NothingOK DEF Init
<1>5. fetch \in [Jobs -> [Providers -> FetchState]]
  BY NothingOK DEF Init
<1>6. worker \in [Jobs -> [Workers -> Records \cup {Idle, Gone}]]
  BY DEF Init
<1>7. import \in [Jobs -> ImportState]
  BY NothingOK DEF Init
<1>8. up \in BOOLEAN /\ fetches \in 0 .. MaxFetches
  BY <1>1 DEF Init
<1> QED BY <1>2, <1>3, <1>4, <1>5, <1>6, <1>7, <1>8 DEF TypeInv

LEMMA TurnOK ==
    ASSUME fetch \in [Jobs -> [Providers -> FetchState]],
           NEW j \in Jobs, NEW p \in Providers, NEW f \in FetchState, Turn(j, p, f)
    PROVE  /\ fetch' \in [Jobs -> [Providers -> FetchState]]
           /\ fetch'[j][p] = f
           /\ \A q \in Providers \ {p} : fetch'[j][q] = fetch[j][q]
           /\ \A k \in Jobs \ {j} : fetch'[k] = fetch[k]
BY DEF Turn

\* A record goes into the buffer; or the buffer goes into the file, with the record, or
\* with a part of it and the whole in the new buffer.
Buffered(p, f, g, rec) ==
    \/ /\ UNCHANGED file
       /\ g.at = f.at /\ g.pending = Append(f.pending, rec)
    \/ \E last \in Text :
         /\ file' = [file EXCEPT ![p] = Put(Append(f.pending, last), f.at, file[p])]
         /\ \/ /\ last = rec
               /\ g.at = f.at + Len(f.pending) + 1 /\ g.pending = <<>>
            \/ /\ g.at = f.at + Len(f.pending)
               /\ g.pending = <<rec>>

LEMMA WriteOK ==
    ASSUME TypeInv, NEW j \in Jobs, NEW p \in Providers, NEW f \in FetchState,
           NEW n \in Records, job[j].gen # 0, Write(j, p, f, n)
    PROVE  \E next \in FetchState :
             /\ Turn(j, p, next)
             /\ next.pc = f.pc /\ next.next = f.next /\ next.chan = f.chan /\ next.broken = f.broken
             /\ Buffered(p, f, next, Rec(job[j].gen, n))
<1> DEFINE gen == job[j].gen
           rec == Rec(gen, n)
           tail(cut) == [rec EXCEPT !.torn = cut]
           next(at, pending) == [f EXCEPT !.at = at, !.pending = pending]
           end == f.at + Len(f.pending)
<1>1. gen \in 1 .. MaxFetches
  BY PriceAssumption DEF TypeInv, JobState
<1> HIDE DEF gen
<1>2. rec \in Text /\ \A cut \in BOOLEAN : tail(cut) \in Text
  <2>1. rec \in Line
    BY <1>1, LinesOK
  <2>2. \A cut \in BOOLEAN : tail(cut) \in Line
    BY <2>1 DEF Line
  <2> QED BY <2>1, <2>2 DEF Text
<1>3. tail(FALSE) = rec
  BY <1>1, LinesOK
<1>4. f.pending \in Seq(Text) /\ f.at \in Nat /\ end \in Nat /\ end + 1 \in Nat
  BY DEF FetchState
<1>5. rec = [gen |-> gen, n |-> n, torn |-> FALSE]
  BY DEF Rec
<1> HIDE DEF rec, tail, end
<1>6. \A at \in Nat, pending \in Seq(Text) :
         LET g == next(at, pending)
         IN  /\ g \in FetchState /\ g.at = at /\ g.pending = pending
             /\ g.pc = f.pc /\ g.next = f.next /\ g.chan = f.chan /\ g.broken = f.broken
  BY DEF FetchState
<1>7. CASE /\ Turn(j, p, [f EXCEPT !.pending = Append(@, rec)])
           /\ UNCHANGED file
  <2> DEFINE pending == Append(f.pending, rec)
  <2>1. pending \in Seq(Text)
    BY <1>2, <1>4
  <2>2. [f EXCEPT !.pending = pending] = next(f.at, pending)
    BY DEF FetchState
  <2>3. Turn(j, p, next(f.at, pending))
    BY <1>7, <2>2
  <2> HIDE DEF next, pending
  <2>4. Buffered(p, f, next(f.at, pending), rec)
    BY <1>4, <1>6, <1>7, <2>1 DEF Buffered, pending
  <2> QED BY <1>4, <1>6, <2>1, <2>3, <2>4 DEF rec, gen
<1>8. ASSUME NEW cut \in BOOLEAN,
             file' = [file EXCEPT ![p] = Put(Append(f.pending, tail(cut)), f.at, file[p])],
             Turn(j, p, [f EXCEPT !.at = @ + Len(f.pending) + (IF cut THEN 0 ELSE 1),
                                  !.pending = IF cut THEN <<rec>> ELSE <<>>])
      PROVE  \E g \in FetchState, last \in Text :
               /\ Turn(j, p, g)
               /\ g.pc = f.pc /\ g.next = f.next /\ g.chan = f.chan /\ g.broken = f.broken
               /\ file' = [file EXCEPT ![p] = Put(Append(f.pending, last), f.at, file[p])]
               /\ \/ last = rec /\ g.at = end + 1 /\ g.pending = <<>>
                  \/ g.at = end /\ g.pending = <<rec>>
  <2>1. CASE cut
    <3>1. Turn(j, p, next(end, <<rec>>))
      <4> DEFINE at == f.at + Len(f.pending) + (IF cut THEN 0 ELSE 1)
                 pending == IF cut THEN <<rec>> ELSE <<>>
      <4>1. at = end /\ pending = <<rec>>
        BY <1>4, <2>1 DEF end
      <4>2. Turn(j, p, next(at, pending))
        BY <1>8
      <4> HIDE DEF at, pending
      <4> QED BY <4>1, <4>2
    <3>2. <<rec>> \in Seq(Text)
      BY <1>2
    <3> HIDE DEF next
    <3> QED BY <1>2, <1>4, <1>6, <1>8, <3>1, <3>2
  <2>2. CASE ~cut
    <3>1. Turn(j, p, next(end + 1, <<>>))
      BY <1>4, <1>8, <2>2 DEF end
    <3>2. <<>> \in Seq(Text)
      OBVIOUS
    <3>3. tail(cut) = rec
      BY <1>3, <2>2
    <3> HIDE DEF next
    <3> QED BY <1>2, <1>4, <1>6, <1>8, <3>1, <3>2, <3>3
  <2> QED BY <2>1, <2>2
<1>9. \/ Turn(j, p, [f EXCEPT !.pending = Append(@, rec)]) /\ UNCHANGED file
      \/ \E cut \in BOOLEAN :
           /\ file' = [file EXCEPT ![p] = Put(Append(f.pending, tail(cut)), f.at, file[p])]
           /\ Turn(j, p, [f EXCEPT !.at = @ + Len(f.pending) + (IF cut THEN 0 ELSE 1),
                                  !.pending = IF cut THEN <<rec>> ELSE <<>>])
  BY <1>5 DEF Write, gen, tail
<1>10. CASE \E cut \in BOOLEAN :
              /\ file' = [file EXCEPT ![p] = Put(Append(f.pending, tail(cut)), f.at, file[p])]
              /\ Turn(j, p, [f EXCEPT !.at = @ + Len(f.pending) + (IF cut THEN 0 ELSE 1),
                                     !.pending = IF cut THEN <<rec>> ELSE <<>>])
  <2>1. PICK g \in FetchState, last \in Text :
               /\ Turn(j, p, g)
               /\ g.pc = f.pc /\ g.next = f.next /\ g.chan = f.chan /\ g.broken = f.broken
               /\ file' = [file EXCEPT ![p] = Put(Append(f.pending, last), f.at, file[p])]
               /\ \/ last = rec /\ g.at = end + 1 /\ g.pending = <<>>
                  \/ g.at = end /\ g.pending = <<rec>>
    BY <1>8, <1>10
  <2>2. Buffered(p, f, g, rec)
    BY <2>1 DEF Buffered, end
  <2> QED BY <2>1, <2>2 DEF rec, gen
<1> QED BY <1>7, <1>9, <1>10

\* A record of a page is one of those wanted, and so is the one after it on this page.
LEMMA SendNextOK ==
    ASSUME NEW f \in FetchState, f.pc = "send"
    PROVE  LET ends == f.next % PageRecords = 0 \/ f.next >= MaxRecords
               g == [f EXCEPT !.next = @ + 1, !.pc = IF ends THEN "page" ELSE "send"]
           IN  /\ f.next \in Records /\ g \in FetchState
               /\ g.next = f.next + 1 /\ g.pc \in {"page", "send"}
               /\ g.chan = f.chan /\ g.pending = f.pending /\ g.at = f.at /\ g.broken = f.broken
<1> DEFINE ends == f.next % PageRecords = 0 \/ f.next >= MaxRecords
           pc == IF ends THEN "page" ELSE "send"
           n == f.next + 1
<1>1. f.next \in Nat /\ f.next >= 1 /\ f.next <= Wanted
  BY CountOK DEF FetchState
<1>2. f.next <= Count /\ n \in 1 .. Count + 1 /\ n <= Wanted + 1
  BY <1>1, CountOK
<1>3. ASSUME ~ends PROVE n <= Wanted
  <2>1. n <= Count
    BY <1>1, <1>2, <1>3, PageEndsOK
  <2>2. n <= MaxRecords
    BY <1>1, <1>3, PriceAssumption
  <2> QED BY <1>1, <2>1, <2>2, MinMaxOK, CountOK, PriceAssumption DEF Wanted
<1>4. pc \in {"page", "send"} /\ (pc = "send" => n <= Wanted)
  BY <1>3
<1>5. f.next \in Records
  BY <1>1, <1>2, CountOK DEF Records
<1> HIDE DEF pc, n
<1>6. [f EXCEPT !.next = n, !.pc = pc] \in FetchState
  BY <1>2, <1>4 DEF FetchState
<1>7. LET g == [f EXCEPT !.next = n, !.pc = pc]
      IN  /\ g.next = n /\ g.pc = pc
          /\ g.chan = f.chan /\ g.pending = f.pending /\ g.at = f.at /\ g.broken = f.broken
  BY <1>4 DEF FetchState
<1> QED BY <1>4, <1>5, <1>6, <1>7 DEF pc, n

\* What a step of a fetcher or a worker leaves typed.
LEMMA FetchStepType ==
    ASSUME TypeInv, NEW j \in Jobs,
           \/ \E p \in Providers : CreateFile(j, p)
           \/ AzurePage(j) \/ AzureRecord(j) \/ AwsPage(j) \/ AwsSend(j) \/ AwsClose(j)
           \/ \E w \in Workers : WorkerReceive(j, w) \/ WorkerWrite(j, w)
    PROVE  TypeInv'
<1> DEFINE FileT == file' \in [Providers -> Seq(Text)]
           FetchT == fetch' \in [Jobs -> [Providers -> FetchState]]
           WorkerT == worker' \in [Jobs -> [Workers -> Records \cup {Idle, Gone}]]
<1>1. SUFFICES /\ FileT /\ FetchT /\ WorkerT
               /\ UNCHANGED <<up, fetches, table, job, import>>
  BY DEF TypeInv
<1> HIDE DEF FileT, FetchT, WorkerT
<1> USE NothingOK
<1>2. /\ \A k \in Jobs, p \in Providers : fetch[k][p] \in FetchState /\ file[p] \in Seq(Text)
      /\ \A k \in Jobs : job[k].pc = "fetch" => job[k].gen # 0
  BY DEF TypeInv
<1>3. ASSUME NEW p \in Providers, NEW f \in FetchState, Turn(j, p, f) PROVE FetchT
  BY <1>3, TurnOK DEF TypeInv, FetchT
<1>4. ASSUME UNCHANGED file PROVE FileT
  BY <1>4 DEF TypeInv, FileT
<1>5. ASSUME UNCHANGED worker PROVE WorkerT
  BY <1>5 DEF TypeInv, WorkerT
<1>6. ASSUME NEW p \in Providers, Fail(j, p) PROVE FetchT /\ FileT
  BY <1>3, <1>4, <1>6 DEF Fail
<1>7. ASSUME NEW p \in Providers, Flush(j, p) PROVE FetchT /\ FileT
  <2>1. FetchT
    BY <1>3, <1>7 DEF Flush
  <2> DEFINE text == Put(fetch[j][p].pending, fetch[j][p].at, file[p])
  <2>2. text \in Seq(Text)
    BY <1>2, PutOK DEF FetchState
  <2>3. file' = [file EXCEPT ![p] = text]
    BY <1>7 DEF Flush
  <2> HIDE DEF text
  <2>4. FileT
    BY <2>2, <2>3 DEF TypeInv, FileT
  <2> QED BY <2>1, <2>4
<1>8. ASSUME NEW p \in Providers, NEW f \in FetchState, NEW n \in Records,
             job[j].pc = "fetch", Write(j, p, f, n)
      PROVE  FetchT /\ FileT
  <2>1. job[j].gen # 0
    BY <1>2, <1>8
  <2>0. PICK next \in FetchState : Turn(j, p, next) /\ Buffered(p, f, next, Rec(job[j].gen, n))
    BY <1>8, <2>1, WriteOK
  <2>2. /\ Turn(j, p, next)
        /\ \/ UNCHANGED file
           \/ \E last \in Text :
                file' = [file EXCEPT ![p] = Put(Append(f.pending, last), f.at, file[p])]
    BY <2>0 DEF Buffered
  <2>3. CASE UNCHANGED file
    BY <1>3, <1>4, <2>2, <2>3
  <2>4. CASE \E last \in Text :
               file' = [file EXCEPT ![p] = Put(Append(f.pending, last), f.at, file[p])]
    <3>1. PICK last \in Text :
            file' = [file EXCEPT ![p] = Put(Append(f.pending, last), f.at, file[p])]
      BY <2>4
    <3>2. f.at \in Nat /\ file[p] \in Seq(Text) /\ Append(f.pending, last) \in Seq(Text)
      BY <1>2 DEF FetchState
    <3> DEFINE text == Put(Append(f.pending, last), f.at, file[p])
    <3>3. text \in Seq(Text)
      BY <3>2, PutOK
    <3>4. file' = [file EXCEPT ![p] = text]
      BY <3>1
    <3> HIDE DEF text
    <3>5. FileT
      BY <3>3, <3>4 DEF TypeInv, FileT
    <3> QED BY <1>3, <2>2, <3>5
  <2> QED BY <2>2, <2>3, <2>4
<1>9. ASSUME NEW p \in Providers, CreateFile(j, p)
      PROVE  FileT /\ FetchT /\ WorkerT /\ UNCHANGED <<up, fetches, table, job, import>>
  <2>1. CASE Fail(j, p) /\ UNCHANGED worker
    BY <1>5, <1>6, <1>9, <2>1 DEF CreateFile
  <2>2. CASE /\ file' = [file EXCEPT ![p] = <<>>]
             /\ Turn(j, p, [fetch[j][p] EXCEPT !.pc = "page"])
             /\ worker' = IF p = "aws" THEN [worker EXCEPT ![j] = [w \in Workers |-> Idle]] ELSE worker
    <3>1. FileT
      <4>1. <<>> \in Seq(Text)
        OBVIOUS
      <4> QED BY <2>2, <4>1 DEF TypeInv, FileT
    <3>2. WorkerT
      BY <2>2 DEF TypeInv, WorkerT
    <3>3. [fetch[j][p] EXCEPT !.pc = "page"] \in FetchState
      <4> DEFINE f == fetch[j][p]
      <4>1. f \in FetchState /\ f.pc = "create"
        BY <1>2, <1>9 DEF CreateFile, Fetching
      <4> HIDE DEF f
      <4>2. f.next = 1 /\ 1 <= Wanted + 1
        BY <4>1, CountOK, FieldsOK
      <4>3. [f EXCEPT !.pc = "page"] \in FetchState
        BY <4>1, <4>2, SetPcOK
      <4> QED BY <4>3 DEF f
    <3> QED BY <1>3, <1>9, <2>2, <3>1, <3>2, <3>3 DEF CreateFile
  <2> QED BY <1>9, <2>1, <2>2 DEF CreateFile
<1>10. ASSUME AzurePage(j) PROVE FileT /\ FetchT
  <2> DEFINE f == fetch[j]["azure"]
  <2>1. f \in FetchState /\ f.pc = "page"
    BY <1>2, <1>10 DEF AzurePage, Fetching
  <2>2. CASE Sent(f) < Wanted /\ Turn(j, "azure", [f EXCEPT !.pc = "send"]) /\ UNCHANGED file
    <3>1. f.next - 1 < Wanted
      BY <2>2 DEF Sent
    <3> HIDE DEF f
    <3>2. f.next <= Wanted
      BY <2>1, <3>1, FieldsOK, CountOK
    <3>3. [f EXCEPT !.pc = "send"] \in FetchState
      BY <2>1, <3>2, SetPcOK
    <3> QED BY <1>3, <1>4, <2>2, <3>3
  <2>3. CASE Flush(j, "azure") \/ Fail(j, "azure")
    BY <1>6, <1>7, <2>3
  <2> QED BY <1>10, <2>2, <2>3 DEF AzurePage
<1>11. ASSUME AzureRecord(j) PROVE FileT /\ FetchT
  <2> DEFINE f == fetch[j]["azure"]
             ends == f.next % PageRecords = 0 \/ f.next >= MaxRecords
             g == [f EXCEPT !.next = @ + 1, !.pc = IF ends THEN "page" ELSE "send"]
  <2>1. f \in FetchState /\ f.pc = "send"
    BY <1>2, <1>11 DEF AzureRecord, Fetching
  <2>2. f.next \in Records /\ g \in FetchState
    BY <2>1, SendNextOK
  <2>3. CASE Write(j, "azure", g, f.next)
    <3>1. job[j].pc = "fetch"
      BY <1>11 DEF AzureRecord, Fetching
    <3> HIDE DEF g, f
    <3> QED BY <1>8, <2>2, <2>3, <3>1
  <2>4. CASE Fail(j, "azure")
    BY <1>6, <2>4
  <2> QED BY <1>11, <2>3, <2>4 DEF AzureRecord
<1>12. ASSUME AwsPage(j) PROVE FileT /\ FetchT /\ WorkerT
  <2> DEFINE f == fetch[j]["aws"]
             pc == IF Sent(f) < Wanted THEN "send" ELSE "close"
  <2>1. f \in FetchState /\ f.pc = "page"
    BY <1>2, <1>12 DEF AwsPage, Fetching
  <2>2. CASE Turn(j, "aws", [f EXCEPT !.pc = pc]) /\ UNCHANGED <<file, worker>>
    <3>1. f.next \in Nat /\ (pc = "send" => f.next <= Wanted) /\ (pc = "close" => f.next = Wanted + 1)
          /\ pc \in {"send", "close"}
      <4> HIDE DEF f
      <4> QED BY <2>1, FieldsOK, CountOK DEF Sent
    <3> HIDE DEF f, pc
    <3>2. [f EXCEPT !.pc = pc] \in FetchState
      BY <2>1, <3>1, SetPcOK, CountOK
    <3> QED BY <1>3, <1>4, <1>5, <2>2, <3>2
  <2>3. CASE Fail(j, "aws") /\ worker' = [worker EXCEPT ![j] = [w \in Workers |-> Gone]]
    <3>1. WorkerT
      BY <2>3 DEF TypeInv, WorkerT
    <3> QED BY <1>6, <2>3, <3>1
  <2> QED BY <1>12, <2>2, <2>3 DEF AwsPage
<1>13. ASSUME AwsSend(j) PROVE FileT /\ FetchT
  <2> DEFINE f == fetch[j]["aws"]
             ends == f.next % PageRecords = 0 \/ f.next >= MaxRecords
             pc == IF ends THEN "page" ELSE "send"
             chan == Append(f.chan, f.next)
             g == [f EXCEPT !.next = @ + 1, !.pc = pc]
  <2>1. f \in FetchState /\ f.pc = "send" /\ Len(f.chan) < Buffer
    BY <1>2, <1>13 DEF AwsSend, Fetching, Room
  <2>2. f.next \in Records /\ g \in FetchState /\ g.chan = f.chan
    <3> HIDE DEF f
    <3>1. f.next \in Records /\ g \in FetchState
      BY <2>1, SendNextOK
    <3>2. g.chan = f.chan
      BY <2>1 DEF FetchState
    <3> QED BY <3>1, <3>2
  <2>3. chan \in Seq(Records) /\ Len(chan) <= Buffer
    <3>1. f.chan \in Seq(Records) /\ Buffer \in Nat
      BY <2>1, PriceAssumption DEF FetchState
    <3> QED BY <2>1, <2>2, <3>1
  <2>4. Turn(j, "aws", [g EXCEPT !.chan = chan]) /\ UNCHANGED file
    BY <1>13, <2>1 DEF AwsSend, FetchState
  <2> HIDE DEF g, chan
  <2>5. [g EXCEPT !.chan = chan] \in FetchState
    BY <2>2, <2>3, SetChanOK
  <2> QED BY <1>3, <1>4, <2>4, <2>5
<1>14. ASSUME AwsClose(j) PROVE FileT /\ FetchT
  BY <1>6, <1>7, <1>14 DEF AwsClose
<1>15. ASSUME NEW w \in Workers, WorkerReceive(j, w) PROVE FileT /\ FetchT /\ WorkerT
  <2> DEFINE f == fetch[j]["aws"]
  <2>1. f \in FetchState
    BY <1>2
  <2>2. CASE /\ f.chan # <<>>
             /\ worker' = [worker EXCEPT ![j][w] = Head(f.chan)]
             /\ Turn(j, "aws", [f EXCEPT !.chan = Tail(@)])
    <3>1. f.chan \in Seq(Records) /\ Len(f.chan) \in Nat /\ Len(f.chan) <= Buffer
      BY <2>1, FieldsOK
    <3>2. Head(f.chan) \in Records /\ Tail(f.chan) \in Seq(Records) /\ Len(Tail(f.chan)) <= Buffer
      <4> HIDE DEF f
      <4>1. f.chan # <<>>
        BY <2>2 DEF f
      <4>2. Len(Tail(f.chan)) = Len(f.chan) - 1 /\ Buffer \in Nat
        BY <3>1, <4>1, PriceAssumption
      <4> QED BY <3>1, <4>1, <4>2
    <3>3. WorkerT
      BY <2>2, <3>2 DEF TypeInv, WorkerT
    <3> DEFINE chan == Tail(f.chan)
    <3>5. Turn(j, "aws", [f EXCEPT !.chan = chan])
      BY <2>2
    <3> HIDE DEF f, chan
    <3>6. [f EXCEPT !.chan = chan] \in FetchState
      BY <2>1, <3>2, SetChanOK DEF chan
    <3>7. UNCHANGED file
      BY <1>15 DEF WorkerReceive
    <3> QED BY <1>3, <1>4, <3>3, <3>5, <3>6, <3>7
  <2>3. CASE worker' = [worker EXCEPT ![j][w] = Gone] /\ UNCHANGED fetch
    <3>1. WorkerT
      BY <2>3 DEF TypeInv, WorkerT
    <3>2. FetchT
      BY <2>3 DEF TypeInv, FetchT
    <3>3. UNCHANGED file
      BY <1>15 DEF WorkerReceive
    <3> QED BY <1>4, <3>1, <3>2, <3>3
  <2> QED BY <1>15, <2>2, <2>3 DEF WorkerReceive
<1>16. ASSUME NEW w \in Workers, WorkerWrite(j, w) PROVE FileT /\ FetchT /\ WorkerT
  <2> DEFINE f == fetch[j]["aws"]
  <2>1. f \in FetchState
    BY <1>2
  <2>2. CASE Write(j, "aws", f, worker[j][w]) /\ worker' = [worker EXCEPT ![j][w] = Idle]
    <3>1. job[j].pc = "fetch" /\ worker[j][w] \in Records
      BY <1>16 DEF WorkerWrite
    <3>2. WorkerT
      BY <2>2 DEF TypeInv, WorkerT
    <3> QED BY <1>8, <2>1, <2>2, <3>1, <3>2
  <2>3. CASE /\ worker' = [worker EXCEPT ![j][w] = Gone]
             /\ Turn(j, "aws", [f EXCEPT !.broken = TRUE, !.told = TRUE])
             /\ UNCHANGED file
    <3>1. WorkerT
      BY <2>3 DEF TypeInv, WorkerT
    <3> HIDE DEF f
    <3>2. [f EXCEPT !.broken = TRUE, !.told = TRUE] \in FetchState
      BY <2>1, SetBrokenOK
    <3> QED BY <1>3, <1>4, <2>3, <3>1, <3>2
  <2> QED BY <1>16, <2>2, <2>3 DEF WorkerWrite
<1>17. CASE AzurePage(j) \/ AzureRecord(j)
  BY <1>1, <1>5, <1>10, <1>11, <1>17 DEF AzurePage, AzureRecord
<1>18. CASE AwsPage(j) \/ AwsSend(j) \/ AwsClose(j)
  BY <1>1, <1>5, <1>12, <1>13, <1>14, <1>18 DEF AwsPage, AwsSend, AwsClose
<1>19. CASE \E w \in Workers : WorkerReceive(j, w) \/ WorkerWrite(j, w)
  BY <1>1, <1>15, <1>16, <1>19 DEF WorkerReceive, WorkerWrite
<1> QED BY <1>1, <1>9, <1>17, <1>18, <1>19

\* Rows without the last one.
LEMMA FrontOK ==
    ASSUME NEW rows \in Seq(Line), rows # <<>>
    PROVE  /\ Front(rows) \in Seq(Line) /\ Len(Front(rows)) = Len(rows) - 1
           /\ \A i \in 1 .. Len(rows) - 1 : Front(rows)[i] = rows[i]
<1> DEFINE n == Len(rows)
<1>1. n \in Nat /\ n # 0 /\ \A i \in 1 .. n : rows[i] \in Line
  BY EmptySeq
<1>2. Front(rows) = SubSeq(rows, 1, n - 1)
  BY DEF Front
<1> HIDE DEF n
<1>3. n - 1 \in Int /\ 1 \in Int /\ \A i \in 1 .. n - 1 : rows[i] \in Line
  BY <1>1
<1>4. /\ SubSeq(rows, 1, n - 1) \in Seq(Line)
      /\ Len(SubSeq(rows, 1, n - 1)) = IF 1 <= n - 1 THEN (n - 1) - 1 + 1 ELSE 0
      /\ \A i \in 1 .. (n - 1) - 1 + 1 : SubSeq(rows, 1, n - 1)[i] = rows[1 + i - 1]
  BY <1>3, SubSeqProperties
<1>5. Len(SubSeq(rows, 1, n - 1)) = n - 1
  BY <1>1, <1>4
<1>6. \A i \in 1 .. n - 1 : i \in 1 .. (n - 1) - 1 + 1 /\ 1 + i - 1 = i
  BY <1>1
<1>7. \A i \in 1 .. n - 1 : SubSeq(rows, 1, n - 1)[i] = rows[i]
  BY <1>4, <1>6
<1> QED BY <1>2, <1>4, <1>5, <1>7 DEF n

LEMMA ImportStepType ==
    ASSUME TypeInv, NEW j \in Jobs, ReadHeader(j) \/ ReadLine(j) \/ Commit(j)
    PROVE  TypeInv'
<1> DEFINE JobT == /\ job' \in [Jobs -> JobState]
                   /\ \A k \in Jobs : job'[k].pc = "fetch" => job'[k].gen # 0
           ImportT == import' \in [Jobs -> ImportState]
           TableT == /\ table' = [p \in Providers |-> table'[p]]
                     /\ \A p \in Providers : \A k \in DOMAIN table'[p] : table'[p][k] \in Line
<1>1. ASSUME JobT, ImportT, TableT, UNCHANGED <<up, fetches, file, fetch, worker>> PROVE TypeInv'
  BY <1>1 DEF TypeInv
<1> HIDE DEF JobT, ImportT, TableT
<1> USE NothingOK
<1> DEFINE i == import[j]
<1>2. i \in ImportState /\ import \in [Jobs -> ImportState] /\ file \in [Providers -> Seq(Text)]
  BY DEF TypeInv
<1>3. /\ i.at \in Nat /\ i.rows \in Seq(Line) /\ file[i.from] \in Seq(Text) /\ i.from \in Providers
  BY <1>2 DEF ImportState
<1>4. ASSUME EndImport(j) PROVE JobT /\ ImportT
  BY <1>4 DEF EndImport, TypeInv, JobT, ImportT
<1>5. ASSUME UNCHANGED job PROVE JobT
  BY <1>5 DEF TypeInv, JobT
<1>6. ASSUME UNCHANGED table PROVE TableT
  BY <1>6 DEF TypeInv, TableT
<1>7. ASSUME NEW v \in ImportState, import' = [import EXCEPT ![j] = v] PROVE ImportT
  BY <1>2, <1>7 DEF ImportT
<1>8. CASE ReadHeader(j)
  <2> DEFINE lines == file[i.from]
  <2>1. CASE /\ lines = <<>> /\ EndImport(j)
             /\ UNCHANGED <<up, fetches, file, table, fetch, worker>>
    BY <1>1, <1>4, <1>6, <2>1
  <2>2. CASE /\ import' = [import EXCEPT ![j].at = 1]
             /\ UNCHANGED <<up, fetches, file, table, job, fetch, worker>>
    <3>1. [i EXCEPT !.at = 1] \in ImportState
      BY <1>2 DEF ImportState
    <3>2. import' = [import EXCEPT ![j] = [i EXCEPT !.at = 1]]
      BY <2>2
    <3> HIDE DEF i
    <3> QED BY <1>1, <1>5, <1>6, <1>7, <2>2, <3>1, <3>2
  <2>3. CASE up' = FALSE /\ Lose
    <3>1. JobT /\ ImportT
      BY <2>3 DEF Lose, JobT, ImportT
    <3>2. fetch' \in [Jobs -> [Providers -> FetchState]]
      BY <2>3 DEF Lose
    <3>3. worker' \in [Jobs -> [Workers -> Records \cup {Idle, Gone}]]
      BY <2>3 DEF Lose
    <3>4. UNCHANGED <<fetches, file, table>> /\ up' \in BOOLEAN
      BY <2>3 DEF Lose
    <3> QED BY <1>6, <3>1, <3>2, <3>3, <3>4 DEF TypeInv, JobT, ImportT, TableT
  <2> QED BY <1>8, <2>1, <2>2, <2>3 DEF ReadHeader
<1>9. CASE ReadLine(j)
  <2> DEFINE lines == file[i.from]
             line == lines[i.at + 1]
             row == [line EXCEPT !.torn = FALSE]
             all == IF i.from = "azure" /\ i.rows # <<>> THEN Front(i.rows) ELSE i.rows
  <2>0. UNCHANGED <<up, fetches, file, table, fetch, worker>>
    BY <1>9 DEF ReadLine
  <2>1. CASE /\ i.at < Len(lines) /\ line \notin {Header, Hole}
             /\ import' = [import EXCEPT ![j].at = @ + 1, ![j].rows = Append(@, row)]
             /\ UNCHANGED job
    <3>1. i.at + 1 \in 1 .. Len(lines)
      BY <1>3, <2>1
    <3>2. line \in Line
      BY <1>3, <2>1, <3>1 DEF Text
    <3> DEFINE at == i.at + 1
               rows == Append(i.rows, row)
    <3>3. row \in Line
      <4> HIDE DEF line
      <4> QED BY <3>2 DEF Line
    <3> HIDE DEF row
    <3>4. at \in Nat /\ rows \in Seq(Line)
      BY <1>3, <3>3
    <3>5. import' = [import EXCEPT ![j] = [i EXCEPT !.at = at, !.rows = rows]]
      BY <1>2, <2>1
    <3> HIDE DEF i, at, rows
    <3>6. [i EXCEPT !.at = at, !.rows = rows] \in ImportState
      BY <1>2, <3>4 DEF ImportState
    <3> QED BY <1>1, <1>5, <1>6, <1>7, <2>0, <2>1, <3>5, <3>6
  <2>2. CASE EndImport(j)
    BY <1>1, <1>4, <1>6, <2>0, <2>2
  <2>3. CASE /\ import' = [import EXCEPT ![j].pc = "commit", ![j].rows = Priced(IF i.from = "azure" /\ @ # <<>> THEN Front(@) ELSE @)]
             /\ UNCHANGED job
    <3> DEFINE rows == Priced(all)
    <3>1. all \in Seq(Line)
      BY <1>3, FrontOK
    <3> HIDE DEF all
    <3>2. rows \in Seq(Line)
      BY <3>1, PricedOK
    <3>3. import' = [import EXCEPT ![j] = [i EXCEPT !.pc = "commit", !.rows = rows]]
      BY <1>2, <2>3 DEF all
    <3> HIDE DEF i, rows
    <3>4. [i EXCEPT !.pc = "commit", !.rows = rows] \in ImportState
      BY <1>2, <3>2 DEF ImportState
    <3> QED BY <1>1, <1>5, <1>6, <1>7, <2>0, <2>3, <3>3, <3>4
  <2> QED BY <1>9, <2>1, <2>2, <2>3 DEF ReadLine
<1>10. CASE Commit(j)
  <2> DEFINE p == i.from
             t == Upserted(table[p], p, i.rows)
  <2>0. UNCHANGED <<up, fetches, file, fetch, worker>>
    BY <1>10 DEF Commit
  <2>1. CASE UNCHANGED table /\ EndImport(j)
    BY <1>1, <1>4, <1>6, <2>0, <2>1
  <2>2. CASE /\ table' = [table EXCEPT ![p] = t]
             /\ \/ /\ import' = [import EXCEPT ![j] = [NoImport EXCEPT !.pc = "read", !.from = "aws"]]
                   /\ UNCHANGED job
                \/ EndImport(j)
    <3>1. \A k \in DOMAIN table[p] : table[p][k] \in Line
      BY <1>3 DEF TypeInv
    <3>2. \A k \in DOMAIN t : t[k] \in Line
      BY <1>3, <3>1, UpsertedOK
    <3> HIDE DEF t
    <3>3. TableT
      BY <2>2, <3>2 DEF TypeInv, TableT
    <3>4. [NoImport EXCEPT !.pc = "read", !.from = "aws"] \in ImportState
      BY DEF ImportState
    <3> QED BY <1>1, <1>4, <1>5, <1>7, <2>0, <2>2, <3>3, <3>4
  <2> QED BY <1>10, <2>1, <2>2 DEF Commit
<1> QED BY <1>8, <1>9, <1>10

LEMMA TypeStep ==
    ASSUME TypeInv, [Next]_vars
    PROVE  TypeInv'
<1> USE NothingOK
<1>1. ASSUME NEW j \in Jobs, NEW kind \in Kinds \ {"import"}, StartFetch(j, kind) PROVE TypeInv'
  <2>1. fetches + 1 \in 0 .. MaxFetches /\ fetches + 1 # 0
    BY <1>1, PriceAssumption DEF TypeInv, StartFetch
  <2> DEFINE new == [kind |-> kind, gen |-> fetches + 1, pc |-> "fetch"]
  <2>2. new \in JobState /\ new.gen # 0
    BY <2>1 DEF JobState
  <2>3. job' = [job EXCEPT ![j] = new]
    BY <1>1 DEF StartFetch
  <2> HIDE DEF new
  <2>4. /\ job' \in [Jobs -> JobState]
        /\ \A k \in Jobs : job'[k].pc = "fetch" => job'[k].gen # 0
    BY <2>2, <2>3 DEF TypeInv
  <2>5. fetch' \in [Jobs -> [Providers -> FetchState]]
    BY <1>1 DEF TypeInv, StartFetch
  <2> QED BY <1>1, <2>1, <2>4, <2>5 DEF TypeInv, StartFetch
<1>2. ASSUME NEW j \in Jobs, "import" \in Kinds, StartImport(j) PROVE TypeInv'
  <2> DEFINE new == [kind |-> "import", gen |-> 0, pc |-> "import"]
  <2>1. new \in JobState /\ new.pc # "fetch"
    BY <1>2, PriceAssumption DEF JobState
  <2>2. job' = [job EXCEPT ![j] = new]
    BY <1>2 DEF StartImport
  <2> HIDE DEF new
  <2>3. /\ job' \in [Jobs -> JobState]
        /\ \A k \in Jobs : job'[k].pc = "fetch" => job'[k].gen # 0
    BY <2>1, <2>2 DEF TypeInv
  <2>4. import' \in [Jobs -> ImportState]
    BY <1>2 DEF TypeInv, StartImport
  <2> QED BY <1>2, <2>3, <2>4 DEF TypeInv, StartImport
<1>3. ASSUME NEW j \in Jobs, EndFetch(j) PROVE TypeInv'
  <2>1. fetch' \in [Jobs -> [Providers -> FetchState]]
    BY <1>3 DEF TypeInv, EndFetch
  <2>2. worker' \in [Jobs -> [Workers -> Records \cup {Idle, Gone}]]
    BY <1>3 DEF TypeInv, EndFetch
  <2>3. import' \in [Jobs -> ImportState]
    BY <1>3 DEF TypeInv, EndFetch
  <2>4. /\ job' \in [Jobs -> JobState]
        /\ \A k \in Jobs : job'[k].pc = "fetch" => job'[k].gen # 0
    <3>1. [job[j] EXCEPT !.pc = "import"] \in JobState /\ [job[j] EXCEPT !.pc = "import"].pc # "fetch"
      BY DEF TypeInv, JobState
    <3>2. \/ job' = [job EXCEPT ![j] = [job[j] EXCEPT !.pc = "import"]]
          \/ job' = [job EXCEPT ![j] = NoJob]
      BY <1>3 DEF EndFetch
    <3> QED BY <3>1, <3>2 DEF TypeInv
  <2> QED BY <1>3, <2>1, <2>2, <2>3, <2>4 DEF TypeInv, EndFetch
<1>4. ASSUME Restart PROVE TypeInv'
  <2>1. CASE up' = FALSE /\ Lose
    <3>1. fetch' \in [Jobs -> [Providers -> FetchState]]
      BY <2>1 DEF Lose
    <3>2. worker' \in [Jobs -> [Workers -> Records \cup {Idle, Gone}]]
      BY <2>1 DEF Lose
    <3>3. /\ job' \in [Jobs -> JobState] /\ import' \in [Jobs -> ImportState]
          /\ \A k \in Jobs : job'[k].pc # "fetch"
      BY <2>1 DEF Lose
    <3> QED BY <2>1, <3>1, <3>2, <3>3 DEF TypeInv, Lose
  <2>2. CASE up' = TRUE /\ UNCHANGED <<fetches, file, table, job, fetch, worker, import>>
    BY <2>2 DEF TypeInv
  <2> QED BY <1>4, <2>1, <2>2 DEF Restart
<1>5. CASE UNCHANGED vars
  BY <1>5 DEF vars, TypeInv
<1>6. ASSUME NEW j \in Jobs, Step(j) PROVE TypeInv'
  <2>1. CASE EndFetch(j)
    BY <1>3, <2>1
  <2>2. CASE ReadHeader(j) \/ ReadLine(j) \/ Commit(j)
    BY <2>2, ImportStepType
  <2> QED BY <1>6, <2>1, <2>2, FetchStepType DEF Step
<1> QED BY <1>1, <1>2, <1>4, <1>5, <1>6 DEF Next

LEMMA TypeInvariant == Spec => []TypeInv
BY TypeInit, TypeStep, PTL DEF Spec

\* Every variable keeps its type: no record, line or row comes out of nothing, the channel
\* holds no more than it has room for, and no fetcher gets past the last record.
THEOREM PricesTypeCorrect == Spec => []TypeOK
<1>1. TypeInv => TypeOK
  <2> SUFFICES ASSUME TypeInv PROVE TypeOK
    OBVIOUS
  <2>1. \A p \in Providers : \A i \in DOMAIN file[p] : file[p][i] \in Line \cup {Header, Hole}
    BY DEF TypeInv, Text
  <2>2. \A j \in Jobs : /\ job[j].kind \in Kinds \cup {"none"} /\ job[j].gen \in 0 .. MaxFetches
                        /\ job[j].pc \in {"idle", "fetch", "import"}
    BY DEF TypeInv, JobState
  <2>3. \A j \in Jobs, p \in Providers :
              /\ fetch[j][p].pc \in {"none", "create", "page", "send", "close", "ok", "error"}
              /\ Len(fetch[j][p].chan) <= Buffer
              /\ fetch[j][p].next \in 1 .. Count + 1
    BY DEF TypeInv, FetchState
  <2>4. \A j \in Jobs : import[j].pc \in {"none", "read", "commit"} /\ import[j].from \in Providers
    BY DEF TypeInv, ImportState
  <2>5. \A j \in Jobs, w \in Workers : worker[j][w] \in Records \cup {Idle, Gone}
    BY DEF TypeInv
  <2> QED BY <2>1, <2>2, <2>3, <2>4, <2>5 DEF TypeInv, TypeOK
<1> QED BY <1>1, TypeInvariant, PTL

(***************************************************************************)
(* What a fetcher has written.                                             *)
(***************************************************************************)

\* The lines written or buffered so far, and one of them.
Upto(f) == f.at + Len(f.pending)
LineAt(f, text, i) == IF i <= f.at THEN text[i] ELSE f.pending[i - f.at]

\* The file ends where the writer is, or in a piece of what it still has.
Placed(f, text) == f.at <= Len(text) /\ Len(text) <= Upto(f)

\* What a write makes of the file.
Wrote(f, g, text, new, rec) ==
    \/ /\ new = text
       /\ g.at = f.at /\ g.pending = Append(f.pending, rec)
    \/ \E last \in Text :
         /\ new = Put(Append(f.pending, last), f.at, text)
         /\ \/ last = rec /\ g.at = Upto(f) + 1 /\ g.pending = <<>>
            \/ g.at = Upto(f) /\ g.pending = <<rec>>

LEMMA WriteLines ==
    ASSUME NEW f \in FetchState, NEW g \in FetchState, NEW text \in Seq(Text), NEW new \in Seq(Text),
           NEW rec \in Text, Placed(f, text), Wrote(f, g, text, new, rec)
    PROVE  /\ Upto(f) \in Nat /\ Upto(g) = Upto(f) + 1 /\ Placed(g, new)
           /\ \A i \in 1 .. Upto(f) : LineAt(g, new, i) = LineAt(f, text, i)
           /\ LineAt(g, new, Upto(f) + 1) = rec
<1> DEFINE m == Len(f.pending)
           u == f.at + m
<1>1. /\ f.pending \in Seq(Text) /\ m \in Nat /\ f.at \in Nat /\ u \in Nat /\ Upto(f) = u
      /\ Len(text) \in Nat /\ f.at <= Len(text) /\ Len(text) <= u
  BY FieldsOK DEF Upto, Placed
<1>2. CASE /\ new = text /\ g.at = f.at /\ g.pending = Append(f.pending, rec)
  <2>1. /\ Len(g.pending) = m + 1 /\ g.pending[m + 1] = rec
        /\ \A i \in 1 .. m : g.pending[i] = f.pending[i]
    BY <1>1, <1>2
  <2>2. Upto(g) = u + 1
    BY <1>1, <1>2, <2>1 DEF Upto
  <2>3. Placed(g, new)
    BY <1>1, <1>2, <2>2 DEF Placed
  <2>4. ~(u + 1 <= f.at) /\ u + 1 - f.at = m + 1
    BY <1>1
  <2>5. \A i \in 1 .. u : i <= f.at \/ i - f.at \in 1 .. m
    BY <1>1
  <2> HIDE DEF m, u
  <2>6. LineAt(g, new, u + 1) = rec
    BY <1>1, <1>2, <2>1, <2>4 DEF LineAt
  <2>7. \A i \in 1 .. u : LineAt(g, new, i) = LineAt(f, text, i)
    BY <1>1, <1>2, <2>1, <2>5 DEF LineAt
  <2> QED BY <1>1, <2>2, <2>3, <2>6, <2>7
<1>3. ASSUME NEW last \in Text, new = Put(Append(f.pending, last), f.at, text),
             \/ last = rec /\ g.at = u + 1 /\ g.pending = <<>>
             \/ g.at = u /\ g.pending = <<rec>>
      PROVE  /\ Upto(g) = u + 1 /\ Placed(g, new)
             /\ \A i \in 1 .. u : LineAt(g, new, i) = LineAt(f, text, i)
             /\ LineAt(g, new, u + 1) = rec
  <2> DEFINE lines == Append(f.pending, last)
  <2>1. /\ lines \in Seq(Text) /\ Len(lines) = m + 1 /\ lines[m + 1] = last
        /\ \A i \in 1 .. m : lines[i] = f.pending[i]
    BY <1>1
  <2> HIDE DEF lines
  <2>2. /\ f.at <= Len(text) /\ Len(text) <= f.at + Len(lines) => Len(new) = f.at + Len(lines)
        /\ f.at <= Len(text) => \A i \in 1 .. f.at : new[i] = text[i]
        /\ \A i \in f.at + 1 .. f.at + Len(lines) : new[i] = lines[i - f.at]
    <3>1. new = Put(lines, f.at, text)
      BY <1>3 DEF lines
    <3>2. lines \in Seq(Text) /\ f.at \in Nat
      BY <1>1, <2>1
    <3> DEFINE put == Put(lines, f.at, text)
    <3>3. /\ f.at <= Len(text) /\ Len(text) <= f.at + Len(lines) => Len(put) = f.at + Len(lines)
          /\ f.at <= Len(text) => \A i \in 1 .. f.at : put[i] = text[i]
          /\ \A i \in f.at + 1 .. f.at + Len(lines) : put[i] = lines[i - f.at]
      BY <3>2, PutOK
    <3> QED BY <3>1, <3>3
  <2>3. Len(new) = u + 1
    <3> HIDE DEF m
    <3>1. Len(lines) = m + 1 /\ m \in Nat /\ f.at \in Nat
      BY <1>1, <2>1
    <3>2. Len(text) <= f.at + Len(lines)
      BY <1>1, <3>1
    <3>3. Len(new) = f.at + Len(lines)
      BY <1>1, <2>2, <3>2
    <3> QED BY <3>1, <3>3
  <2>4. \A i \in 1 .. u : new[i] = LineAt(f, text, i)
    <3> TAKE i \in 1 .. u
    <3>1. CASE i <= f.at
      BY <1>1, <2>2, <3>1 DEF LineAt
    <3>2. CASE ~(i <= f.at)
      <4>1. i \in f.at + 1 .. f.at + Len(lines) /\ i - f.at \in 1 .. m
        <5> HIDE DEF m
        <5> QED BY <1>1, <2>1, <3>2
      <4> QED BY <2>1, <2>2, <3>2, <4>1 DEF LineAt
    <3> QED BY <3>1, <3>2
  <2>5. new[u + 1] = last
    <3> HIDE DEF m
    <3>1. u + 1 \in f.at + 1 .. f.at + Len(lines) /\ (u + 1) - f.at = m + 1
      BY <1>1, <2>1
    <3>2. new[u + 1] = lines[(u + 1) - f.at]
      BY <2>2, <3>1
    <3> QED BY <2>1, <3>1, <3>2
  <2> HIDE DEF u
  <2>6. CASE last = rec /\ g.at = u + 1 /\ g.pending = <<>>
    <3>1. Upto(g) = u + 1
      BY <1>1, <2>6 DEF Upto
    <3>2. \A i \in 1 .. u + 1 : LineAt(g, new, i) = new[i]
      BY <1>1, <2>6 DEF LineAt
    <3>3. Placed(g, new)
      BY <1>1, <2>3, <2>6, <3>1 DEF Placed
    <3>4. u + 1 \in 1 .. u + 1 /\ \A i \in 1 .. u : i \in 1 .. u + 1
      BY <1>1
    <3> QED BY <2>4, <2>5, <2>6, <3>1, <3>2, <3>3, <3>4
  <2>7. CASE g.at = u /\ g.pending = <<rec>>
    <3>1. Upto(g) = u + 1
      BY <1>1, <2>7 DEF Upto
    <3>2. \A i \in 1 .. u : LineAt(g, new, i) = new[i]
      BY <1>1, <2>7 DEF LineAt
    <3>3. LineAt(g, new, u + 1) = rec
      <4>1. ~(u + 1 <= u) /\ u + 1 - u = 1
        BY <1>1
      <4> QED BY <1>1, <2>7, <4>1 DEF LineAt
    <3>4. Placed(g, new)
      BY <1>1, <2>3, <2>7, <3>1 DEF Placed
    <3> QED BY <2>4, <3>1, <3>2, <3>3, <3>4
  <2> QED BY <1>3, <2>6, <2>7
<1> HIDE DEF u
<1> QED BY <1>1, <1>2, <1>3 DEF u, Wrote

LEMMA FlushLines ==
    ASSUME NEW f \in FetchState, NEW text \in Seq(Text), Placed(f, text)
    PROVE  LET new == Put(f.pending, f.at, text)
           IN  /\ new \in Seq(Text) /\ Len(new) = Upto(f) /\ Upto(f) \in Nat
               /\ \A i \in 1 .. Upto(f) : new[i] = LineAt(f, text, i)
<1> DEFINE new == Put(f.pending, f.at, text)
           m == Len(f.pending)
<1>1. /\ f.pending \in Seq(Text) /\ m \in Nat /\ f.at \in Nat /\ Upto(f) = f.at + m
      /\ Len(text) \in Nat /\ f.at <= Len(text) /\ Len(text) <= f.at + m
  BY FieldsOK DEF Upto, Placed
<1>2. /\ new \in Seq(Text) /\ Len(new) = f.at + m
      /\ \A i \in 1 .. f.at : new[i] = text[i]
      /\ \A i \in f.at + 1 .. f.at + m : new[i] = f.pending[i - f.at]
  BY <1>1, PutOK
<1> HIDE DEF new, m
<1>3. \A i \in 1 .. f.at + m : new[i] = LineAt(f, text, i)
  <2> TAKE i \in 1 .. f.at + m
  <2>1. CASE i <= f.at
    BY <1>1, <1>2, <2>1 DEF LineAt
  <2>2. CASE ~(i <= f.at)
    <3>1. i \in f.at + 1 .. f.at + m
      BY <1>1, <2>2
    <3> QED BY <1>2, <2>2, <3>1 DEF LineAt
  <2> QED BY <2>1, <2>2
<1>4. f.at + m \in Nat
  BY <1>1
<1> QED BY <1>1, <1>2, <1>3, <1>4 DEF new

(***************************************************************************)
(* What the nightly job loads.                                             *)
(***************************************************************************)

Writing(f) == f.pc \in {"page", "send", "close"}

HasLine(f, text, rec) == \E i \in 2 .. Upto(f) : LineAt(f, text, i) = rec

\* A file as far as it has been written: the header, then records already sent; those of
\* Azure in their order.
Begun(p, gen, f, text) ==
    /\ Placed(f, text) /\ Upto(f) >= 1
    /\ LineAt(f, text, 1) = Header
    /\ \A i \in 2 .. Upto(f) : \E n \in Records : n < f.next /\ LineAt(f, text, i) = Rec(gen, n)
    /\ p = "azure" => /\ Upto(f) = f.next
                      /\ \A i \in 2 .. Upto(f) : LineAt(f, text, i) = Rec(gen, i - 1)

\* A file with all the records wanted.
Whole(p, gen, text) ==
    /\ Len(text) >= 1 /\ text[1] = Header
    /\ \A i \in 2 .. Len(text) : \E n \in 1 .. Wanted : text[i] = Rec(gen, n)
    /\ \A n \in 1 .. Wanted : \E i \in 2 .. Len(text) : text[i] = Rec(gen, n)
    /\ p = "azure" => /\ Len(text) = Wanted + 1
                      /\ \A i \in 2 .. Len(text) : text[i] = Rec(gen, i - 1)

\* Of a job, a fetcher of it and its file.
FetcherOK(p, jb, f, text) ==
    jb.pc = "fetch" =>
        /\ f.pc = "create" => f.at = 0 /\ f.pending = <<Header>> /\ f.chan = <<>> /\ ~f.broken
        /\ Writing(f) /\ ~f.broken => Begun(p, jb.gen, f, text)
        /\ f.pc = "ok" => Whole(p, jb.gen, text)
        /\ p = "azure" => ~f.broken

\* A record sent is in the channel, with a worker, or a line.
Accounted(gen, f, text, ws) ==
    \A n \in 1 .. f.next - 1 :
        \/ \E i \in 1 .. Len(f.chan) : f.chan[i] = n
        \/ \E w \in Workers : ws[w] = n
        \/ HasLine(f, text, Rec(gen, n))

\* Workers run while the fetcher does.  None ends before the channel is closed and empty,
\* as long as no write has failed, and what they have not written they have.
CrewOK(jb, f, text, ws) ==
    /\ ~(jb.pc = "fetch" /\ Writing(f)) => \A w \in Workers : ws[w] = Gone
    /\ jb.pc = "fetch" /\ Writing(f) /\ ~f.broken =>
         /\ (f.pc # "close" \/ f.chan # <<>>) => \A w \in Workers : ws[w] # Gone
         /\ \A i \in 1 .. Len(f.chan) : f.chan[i] < f.next
         /\ \A w \in Workers : ws[w] \in Records => ws[w] < f.next
         /\ Accounted(jb.gen, f, text, ws)

\* The rows are the lines read so far.
ReadSoFar(i, text) ==
    /\ i.at <= Len(text)
    /\ Len(i.rows) = IF i.at = 0 THEN 0 ELSE i.at - 1
    /\ \A n \in 1 .. Len(i.rows) : i.rows[n] = text[n + 1]

\* Of a job and its importer.
ImportOK(jb, i, files) ==
    /\ i.pc # "none" => jb.pc = "import"
    /\ jb.kind = "nightly" =>
         /\ jb.gen # 0
         /\ jb.pc = "import" => \A p \in Providers : Whole(p, jb.gen, files[p])
         /\ i.pc = "read" => ReadSoFar(i, files[i.from])
         /\ i.pc = "commit" =>
              /\ Range(i.rows) = {r \in Expected(i.from, jb.gen) : r.n \notin ZeroPrice}
              /\ i.from = "azure" => Ascending(i.rows)

WholeInv ==
    \A j \in Jobs :
        /\ \A p \in Providers : FetcherOK(p, job[j], fetch[j][p], file[p])
        /\ CrewOK(job[j], fetch[j]["aws"], file["aws"], worker[j])
        /\ ImportOK(job[j], import[j], file)

\* No two jobs that fetch, or load what they have fetched, at a time.
FetchesApart == \A j, k \in Jobs : job[j].gen # 0 /\ job[k].gen # 0 => j = k

LEMMA WantedOK ==
    ASSUME NEW gen \in 1 .. MaxFetches
    PROVE  /\ \A n \in 1 .. Wanted : n \in Records
           /\ \A n \in Records : Rec(gen, n) \in Line /\ Rec(gen, n) \in Text /\ Rec(gen, n).n = n
<1>1. \A n \in 1 .. Wanted : n \in Records
  BY CountOK DEF Records
<1>2. \A n \in Records : Rec(gen, n) \in Line
  BY LinesOK
<1>3. \A n \in Records : Rec(gen, n).n = n
  BY DEF Rec
<1> QED BY <1>1, <1>2, <1>3 DEF Text

\* A fetcher that has created its file.
LEMMA BegunFirst ==
    ASSUME NEW p, NEW gen, NEW f \in FetchState, f.at = 0, f.pending = <<Header>>, f.next = 1
    PROVE  Begun(p, gen, f, <<>>)
<1>1. Upto(f) = 1 /\ Len(<<>>) = 0
  BY DEF Upto
<1>2. LineAt(f, <<>>, 1) = Header
  BY DEF LineAt
<1>3. Placed(f, <<>>)
  BY <1>1 DEF Placed
<1> QED BY <1>1, <1>2, <1>3 DEF Begun

\* What a fetcher has written does not depend on the rest of its state.
LEMMA BegunSame ==
    ASSUME NEW p, NEW gen, NEW f \in FetchState, NEW g \in FetchState, NEW text,
           Begun(p, gen, f, text), g.at = f.at, g.pending = f.pending, f.next <= g.next,
           p = "azure" => g.next = f.next
    PROVE  /\ Begun(p, gen, g, text)
           /\ \A r : HasLine(f, text, r) => HasLine(g, text, r)
<1>1. Upto(g) = Upto(f)
  BY DEF Upto
<1>2. \A i : LineAt(g, text, i) = LineAt(f, text, i)
  BY DEF LineAt
<1>3. Placed(g, text)
  BY <1>1 DEF Begun, Placed
<1>4. \A n \in Records : n < f.next => n < g.next
  <2>1. \A n \in Records : n \in Nat
    BY CountOK DEF Records
  <2> QED BY <2>1, FieldsOK
<1>5. \A r : HasLine(f, text, r) => HasLine(g, text, r)
  BY <1>1, <1>2 DEF HasLine
<1> QED BY <1>1, <1>2, <1>3, <1>4, <1>5 DEF Begun

\* A record more.
LEMMA BegunWrite ==
    ASSUME NEW p, NEW gen \in 1 .. MaxFetches, NEW n \in Records,
           NEW f \in FetchState, NEW g \in FetchState, NEW text \in Seq(Text), NEW new \in Seq(Text),
           Begun(p, gen, f, text), n < g.next, f.next <= g.next,
           p = "azure" => n = f.next /\ g.next = f.next + 1,
           Wrote(f, g, text, new, Rec(gen, n))
    PROVE  /\ Begun(p, gen, g, new)
           /\ HasLine(g, new, Rec(gen, n))
           /\ \A r : HasLine(f, text, r) => HasLine(g, new, r)
<1> DEFINE u == Upto(f)
<1>0. Rec(gen, n) \in Text
  BY WantedOK
<1>1. /\ u \in Nat /\ Upto(g) = u + 1 /\ Placed(g, new)
      /\ \A i \in 1 .. u : LineAt(g, new, i) = LineAt(f, text, i)
      /\ LineAt(g, new, u + 1) = Rec(gen, n)
  BY <1>0, WriteLines DEF Begun
<1>2. /\ u >= 1 /\ LineAt(f, text, 1) = Header
      /\ \A i \in 2 .. u : \E m \in Records : m < f.next /\ LineAt(f, text, i) = Rec(gen, m)
      /\ p = "azure" => u = f.next /\ \A i \in 2 .. u : LineAt(f, text, i) = Rec(gen, i - 1)
  BY DEF Begun
<1> HIDE DEF u
<1>3. /\ 1 \in 1 .. u /\ u + 1 \in 2 .. u + 1 /\ u + 1 >= 1
      /\ \A i \in 2 .. u : i \in 1 .. u /\ i \in 2 .. u + 1
      /\ \A i \in 2 .. u + 1 : i \in 2 .. u \/ i = u + 1
  BY <1>1, <1>2
<1>4. \A m \in Records : m < f.next => m < g.next
  <2>1. \A m \in Records : m \in Nat
    BY CountOK DEF Records
  <2> QED BY <2>1, FieldsOK
<1>5. \A i \in 2 .. u + 1 : \E m \in Records : m < g.next /\ LineAt(g, new, i) = Rec(gen, m)
  BY <1>1, <1>2, <1>3, <1>4
<1>6. ASSUME p = "azure"
      PROVE  u + 1 = g.next /\ \A i \in 2 .. u + 1 : LineAt(g, new, i) = Rec(gen, i - 1)
  <2>1. u = f.next /\ n = u /\ g.next = u + 1 /\ (u + 1) - 1 = n
    BY <1>1, <1>2, <1>6
  <2>2. \A i \in 2 .. u : LineAt(g, new, i) = Rec(gen, i - 1)
    BY <1>1, <1>2, <1>3, <1>6
  <2> QED BY <1>1, <1>3, <2>1, <2>2
<1>7. Begun(p, gen, g, new)
  BY <1>1, <1>2, <1>3, <1>5, <1>6 DEF Begun
<1>8. HasLine(g, new, Rec(gen, n))
  BY <1>1, <1>3 DEF HasLine
<1>9. \A r : HasLine(f, text, r) => HasLine(g, new, r)
  BY <1>1, <1>3 DEF HasLine, u
<1> QED BY <1>7, <1>8, <1>9

\* The end of a file that has got all records.
LEMMA BegunLast ==
    ASSUME NEW p, NEW gen \in 1 .. MaxFetches, NEW f \in FetchState, NEW text \in Seq(Text),
           Begun(p, gen, f, text), f.next = Wanted + 1,
           p # "azure" => \A n \in 1 .. Wanted :
                            HasLine(f, text, Rec(gen, n))
    PROVE  Whole(p, gen, Put(f.pending, f.at, text))
<1> DEFINE new == Put(f.pending, f.at, text)
           u == Upto(f)
<1>1. /\ u >= 1 /\ LineAt(f, text, 1) = Header
      /\ \A i \in 2 .. u : \E m \in Records : m < f.next /\ LineAt(f, text, i) = Rec(gen, m)
      /\ p = "azure" => u = f.next /\ \A i \in 2 .. u : LineAt(f, text, i) = Rec(gen, i - 1)
  BY DEF Begun
<1>2. /\ u \in Nat /\ Len(new) = u
      /\ \A i \in 1 .. u : new[i] = LineAt(f, text, i)
  BY FlushLines DEF Begun
<1> HIDE DEF u, new
<1>3. 1 \in 1 .. u /\ \A i \in 2 .. u : i \in 1 .. u
  BY <1>1, <1>2
<1>4. \A m \in Records : m < f.next => m \in 1 .. Wanted
  BY CountOK DEF Records
<1>5. \A i \in 2 .. u : \E m \in 1 .. Wanted : new[i] = Rec(gen, m)
  BY <1>1, <1>2, <1>3, <1>4
<1>6. \A n \in 1 .. Wanted : \E i \in 2 .. u : new[i] = Rec(gen, n)
  <2>1. CASE p = "azure"
    <3> TAKE n \in 1 .. Wanted
    <3>1. n + 1 \in 2 .. u /\ (n + 1) - 1 = n
      BY <1>1, <2>1, CountOK
    <3> QED BY <1>1, <1>2, <1>3, <2>1, <3>1
  <2>2. CASE p # "azure"
    BY <1>2, <1>3, <2>2 DEF u, HasLine
  <2> QED BY <2>1, <2>2
<1>7. ASSUME p = "azure"
      PROVE  u = Wanted + 1 /\ \A i \in 2 .. u : new[i] = Rec(gen, i - 1)
  BY <1>1, <1>2, <1>3, <1>7
<1>8. Whole(p, gen, new)
  BY <1>1, <1>2, <1>3, <1>5, <1>6, <1>7 DEF Whole
<1> QED BY <1>8 DEF new

\* A file of all records, read to its end.
LEMMA RowsOK ==
    ASSUME NEW p \in Providers, NEW gen \in 1 .. MaxFetches, NEW text \in Seq(Text),
           NEW i \in ImportState, Whole(p, gen, text), ReadSoFar(i, text), i.at >= Len(text)
    PROVE  LET rows == Priced(IF p = "azure" /\ i.rows # <<>> THEN Front(i.rows) ELSE i.rows)
           IN  /\ Range(rows) = {r \in Expected(p, gen) : r.n \notin ZeroPrice}
               /\ p = "azure" => Ascending(rows)
<1> DEFINE read == i.rows
           all == IF p = "azure" /\ read # <<>> THEN Front(read) ELSE read
<1>1. /\ read \in Seq(Line) /\ Len(text) \in Nat /\ Len(text) >= 1
      /\ Len(read) = Len(text) - 1
      /\ \A n \in 1 .. Len(read) : read[n] = text[n + 1]
  BY DEF ImportState, ReadSoFar, Whole
<1>2. /\ \A k \in 2 .. Len(text) : \E n \in 1 .. Wanted : text[k] = Rec(gen, n)
      /\ \A n \in 1 .. Wanted : \E k \in 2 .. Len(text) : text[k] = Rec(gen, n)
      /\ p = "azure" => /\ Len(text) = Wanted + 1
                        /\ \A k \in 2 .. Len(text) : text[k] = Rec(gen, k - 1)
  BY DEF Whole
<1>3. Wanted \in Nat
  BY CountOK
<1> HIDE DEF read
<1>4. CASE p = "azure"
  <2> DEFINE limit == Wanted - 1
  <2>1. Len(read) = Wanted /\ \A n \in 1 .. Wanted : read[n] = Rec(gen, n)
    <3>1. Len(read) = Wanted
      BY <1>1, <1>2, <1>3, <1>4
    <3>2. \A n \in 1 .. Wanted : n + 1 \in 2 .. Len(text) /\ (n + 1) - 1 = n
      BY <1>2, <1>3, <1>4
    <3> QED BY <1>1, <1>2, <1>4, <3>1, <3>2
  <2>2. /\ all \in Seq(Line) /\ \A n \in 1 .. Len(all) : all[n] = Rec(gen, n)
        /\ 1 .. Len(all) = 1 .. limit /\ Len(all) \in Nat
    <3>1. CASE read = <<>>
      <4>1. Len(read) = 0 /\ all = read
        BY <3>1
      <4>2. Wanted = 0
        BY <2>1, <4>1
      <4>3. 1 .. 0 = 1 .. limit
        BY <4>2
      <4> HIDE DEF limit, all
      <4> QED BY <1>1, <4>1, <4>3
    <3>2. CASE read # <<>>
      <4>1. all = Front(read)
        BY <1>4, <3>2
      <4>2. /\ Front(read) \in Seq(Line) /\ Len(Front(read)) = Wanted - 1
            /\ \A n \in 1 .. Wanted - 1 : Front(read)[n] = read[n]
        BY <1>1, <2>1, <3>2, FrontOK
      <4>3. \A n \in 1 .. limit : n \in 1 .. Wanted
        BY <1>3
      <4>4. Len(Front(read)) \in Nat
        BY <4>2
      <4> HIDE DEF all
      <4> QED BY <2>1, <4>1, <4>2, <4>3, <4>4
    <3> QED BY <3>1, <3>2
  <2>3. Expected(p, gen) = {Rec(gen, n) : n \in 1 .. limit}
    BY <1>4 DEF Expected, Rec
  <2> HIDE DEF limit, all
  <2>4. Range(all) = Expected(p, gen)
    <3>1. DOMAIN all = 1 .. Len(all)
      BY <2>2
    <3> QED BY <2>2, <2>3, <3>1 DEF Range
  <2>5. Ascending(all)
    <3>0. \A n : Rec(gen, n).n = n
      BY DEF Rec
    <3>1. \A n \in 1 .. Len(all) : all[n].n = n
      BY <2>2, <3>0
    <3> QED BY <3>1 DEF Ascending
  <2> QED BY <2>2, <2>4, <2>5, PricedOK DEF all, read
<1>5. CASE p # "azure"
  <2>1. all = read
    BY <1>5
  <2>2. Expected(p, gen) = {Rec(gen, n) : n \in 1 .. Wanted}
    <3>1. Wanted - 0 = Wanted
      BY <1>3
    <3> QED BY <1>5, <3>1 DEF Expected, Rec
  <2>3. Range(read) = Expected(p, gen)
    <3>0. DOMAIN read = 1 .. Len(read)
      BY <1>1
    <3>1. \A n \in 1 .. Len(read) : read[n] \in Expected(p, gen)
      <4>1. \A n \in 1 .. Len(read) : n + 1 \in 2 .. Len(text)
        BY <1>1
      <4> QED BY <1>1, <1>2, <2>2, <4>1
    <3>2. \A n \in 1 .. Wanted : \E k \in 1 .. Len(read) : read[k] = Rec(gen, n)
      <4> TAKE n \in 1 .. Wanted
      <4>1. PICK k \in 2 .. Len(text) : text[k] = Rec(gen, n)
        BY <1>2
      <4>2. k - 1 \in 1 .. Len(read) /\ (k - 1) + 1 = k
        BY <1>1
      <4> QED BY <1>1, <4>1, <4>2
    <3> QED BY <2>2, <3>0, <3>1, <3>2 DEF Range
  <2> HIDE DEF all
  <2> QED BY <1>1, <1>5, <2>1, <2>3, PricedOK DEF all, read
<1> QED BY <1>4, <1>5

LEMMA FetchingState ==
    ASSUME TypeInv, NEW j \in Jobs
    PROVE  /\ job[j] \in JobState /\ import[j] \in ImportState
           /\ job[j].pc = "fetch" => job[j].gen \in 1 .. MaxFetches
           /\ \A p \in Providers : fetch[j][p] \in FetchState /\ file[p] \in Seq(Text)
           /\ \A w \in Workers : worker[j][w] \in Records \cup {Idle, Gone}
           /\ Gone \notin Records /\ Idle \notin Records /\ Idle # Gone
<1>1. /\ job[j] \in JobState /\ import[j] \in ImportState
      /\ job[j].pc = "fetch" => job[j].gen # 0
      /\ \A p \in Providers : fetch[j][p] \in FetchState /\ file[p] \in Seq(Text)
      /\ \A w \in Workers : worker[j][w] \in Records \cup {Idle, Gone}
  BY DEF TypeInv
<1>2. job[j].pc = "fetch" => job[j].gen \in 1 .. MaxFetches
  <2>1. job[j].gen \in 0 .. MaxFetches /\ MaxFetches \in Nat
    BY <1>1, PriceAssumption DEF JobState
  <2> QED BY <1>1, <2>1
<1>3. Gone \notin Records /\ Idle \notin Records /\ Idle # Gone
  BY CountOK DEF Gone, Idle, Records
<1> QED BY <1>1, <1>2, <1>3

\* A step of one of the fetchers of a job, or of a worker: what it leaves to be shown.
LEMMA FetchFrame ==
    ASSUME TypeInv, WholeInv, FetchesApart, NEW j \in Jobs, job[j].pc = "fetch",
           NEW p \in Providers, UNCHANGED <<job, import>>,
           \A q \in Providers \ {p} : file'[q] = file[q] /\ fetch'[j][q] = fetch[j][q],
           \A k \in Jobs \ {j} : fetch'[k] = fetch[k] /\ worker'[k] = worker[k],
           p = "azure" => worker'[j] = worker[j],
           FetcherOK(p, job[j], fetch'[j][p], file'[p]),
           p = "aws" => CrewOK(job[j], fetch'[j]["aws"], file'["aws"], worker'[j])
    PROVE  WholeInv'
<1>1. ASSUME NEW k \in Jobs \ {j}
      PROVE  /\ \A q \in Providers : FetcherOK(q, job[k], fetch'[k][q], file'[q])
             /\ CrewOK(job[k], fetch'[k]["aws"], file'["aws"], worker'[k])
             /\ ImportOK(job[k], import[k], file')
  <2>1. job[j].gen # 0
    BY DEF TypeInv
  <2>2. job[k].gen = 0
    BY <2>1 DEF FetchesApart
  <2>3. job[k].pc # "fetch"
    BY <2>2 DEF TypeInv
  <2>4. \A q \in Providers : FetcherOK(q, job[k], fetch'[k][q], file'[q])
    BY <2>3 DEF FetcherOK
  <2>5. CrewOK(job[k], fetch'[k]["aws"], file'["aws"], worker'[k])
    <3>1. CrewOK(job[k], fetch[k]["aws"], file["aws"], worker[k])
      BY DEF WholeInv
    <3> QED BY <2>3, <3>1 DEF CrewOK
  <2>6. ImportOK(job[k], import[k], file')
    <3>1. ImportOK(job[k], import[k], file)
      BY DEF WholeInv
    <3> QED BY <2>2, <3>1 DEF ImportOK
  <2> QED BY <2>4, <2>5, <2>6
<1>2. /\ \A q \in Providers : FetcherOK(q, job[j], fetch'[j][q], file'[q])
      /\ CrewOK(job[j], fetch'[j]["aws"], file'["aws"], worker'[j])
      /\ ImportOK(job[j], import[j], file')
  <2>0. /\ \A q \in Providers : FetcherOK(q, job[j], fetch[j][q], file[q])
        /\ CrewOK(job[j], fetch[j]["aws"], file["aws"], worker[j])
        /\ ImportOK(job[j], import[j], file)
    BY DEF WholeInv
  <2>1. \A q \in Providers : FetcherOK(q, job[j], fetch'[j][q], file'[q])
    <3>1. ASSUME NEW q \in Providers, q # p PROVE FetcherOK(q, job[j], fetch'[j][q], file'[q])
      BY <2>0, <3>1
    <3> QED BY <3>1
  <2>2. CrewOK(job[j], fetch'[j]["aws"], file'["aws"], worker'[j])
    BY <2>0 DEF Providers
  <2>3. ImportOK(job[j], import[j], file')
    <3>1. import[j].pc = "none"
      BY <2>0 DEF ImportOK, TypeInv, ImportState
    <3> QED BY <2>0, <3>1 DEF ImportOK
  <2> QED BY <2>1, <2>2, <2>3
<1> HIDE DEF FetcherOK, CrewOK, ImportOK
<1> QED BY <1>1, <1>2 DEF WholeInv

LEMMA EndedOK ==
    ASSUME NEW p, NEW jb, NEW text, NEW pc \in {"error", "ok"}, pc = "ok" => Whole(p, jb.gen, text)
    PROVE  /\ FetcherOK(p, jb, [NoFetch EXCEPT !.pc = pc], text)
           /\ ~Writing([NoFetch EXCEPT !.pc = pc])
<1> DEFINE g == [NoFetch EXCEPT !.pc = pc]
<1>1. g.pc = pc /\ ~g.broken
  BY DEF NoFetch
<1> HIDE DEF g
<1>2. FetcherOK(p, jb, g, text) /\ ~Writing(g)
  BY <1>1 DEF FetcherOK, Writing
<1> QED BY <1>2 DEF g

\* A fetcher gives up.
LEMMA FailOK ==
    ASSUME TypeInv, WholeInv, FetchesApart, NEW j \in Jobs, job[j].pc = "fetch",
           NEW p \in Providers, UNCHANGED <<job, import>>, Fail(j, p),
           \A k \in Jobs \ {j} : worker'[k] = worker[k],
           p = "azure" => worker' = worker,
           p = "aws" => \A w \in Workers : worker'[j][w] = Gone
    PROVE  WholeInv'
<1> DEFINE g == [NoFetch EXCEPT !.pc = "error"]
<1>1. g \in FetchState
  BY NothingOK
<1>2. FetcherOK(p, job[j], g, file[p]) /\ ~Writing(g)
  BY EndedOK
<1>3. Turn(j, p, g) /\ UNCHANGED file
  BY DEF Fail
<1> HIDE DEF g
<1>4. /\ fetch'[j][p] = g
      /\ \A q \in Providers \ {p} : fetch'[j][q] = fetch[j][q]
      /\ \A k \in Jobs \ {j} : fetch'[k] = fetch[k]
  BY <1>1, <1>3, TurnOK DEF TypeInv
<1>5. p = "aws" => CrewOK(job[j], fetch'[j]["aws"], file'["aws"], worker'[j])
  BY <1>2, <1>4 DEF CrewOK
<1>6. FetcherOK(p, job[j], fetch'[j][p], file'[p])
  BY <1>2, <1>3, <1>4
<1> QED BY <1>3, <1>4, <1>5, <1>6, FetchFrame

\* A fetcher writes the rest of its buffer and is done.
LEMMA FlushOK ==
    ASSUME TypeInv, WholeInv, FetchesApart, NEW j \in Jobs, job[j].pc = "fetch",
           NEW p \in Providers, UNCHANGED <<job, import, worker>>, Flush(j, p),
           Begun(p, job[j].gen, fetch[j][p], file[p]), fetch[j][p].next = Wanted + 1,
           p = "aws" => /\ \A w \in Workers : worker[j][w] = Gone
                        /\ \A n \in 1 .. Wanted : HasLine(fetch[j][p], file[p], Rec(job[j].gen, n))
    PROVE  WholeInv'
<1> DEFINE g == [NoFetch EXCEPT !.pc = "ok"]
           f == fetch[j][p]
           new == Put(f.pending, f.at, file[p])
<1>1. g \in FetchState /\ f \in FetchState /\ file[p] \in Seq(Text) /\ job[j].gen \in 1 .. MaxFetches
  BY NothingOK, FetchingState
<1>2. Whole(p, job[j].gen, new)
  BY <1>1, BegunLast DEF Providers
<1>3. FetcherOK(p, job[j], g, new) /\ ~Writing(g)
  BY <1>2, EndedOK
<1>4. Turn(j, p, g) /\ file' = [file EXCEPT ![p] = new]
  BY DEF Flush
<1> HIDE DEF g, new, f
<1>5. /\ fetch'[j][p] = g
      /\ \A q \in Providers \ {p} : fetch'[j][q] = fetch[j][q]
      /\ \A k \in Jobs \ {j} : fetch'[k] = fetch[k]
  BY <1>1, <1>4, TurnOK DEF TypeInv
<1>6. file'[p] = new /\ \A q \in Providers \ {p} : file'[q] = file[q]
  BY <1>4 DEF TypeInv
<1>7. p = "aws" => CrewOK(job[j], fetch'[j]["aws"], file'["aws"], worker'[j])
  BY <1>3, <1>5 DEF CrewOK
<1>8. FetcherOK(p, job[j], fetch'[j][p], file'[p])
  BY <1>3, <1>5, <1>6
<1> QED BY <1>5, <1>6, <1>7, <1>8, FetchFrame

LEMMA CreateStep ==
    ASSUME TypeInv, WholeInv, FetchesApart, NEW j \in Jobs, NEW p \in Providers, CreateFile(j, p)
    PROVE  WholeInv'
<1> DEFINE f == fetch[j][p]
           jb == job[j]
<1>0. /\ jb.pc = "fetch" /\ f.pc = "create" /\ f \in FetchState /\ UNCHANGED <<job, import>>
      /\ f.next = 1
  <2>1. jb.pc = "fetch" /\ f.pc = "create" /\ UNCHANGED <<job, import>>
    BY DEF CreateFile, Fetching
  <2>2. f \in FetchState
    BY FetchingState
  <2> HIDE DEF f
  <2> QED BY <2>1, <2>2, FieldsOK
<1>1. /\ f.at = 0 /\ f.pending = <<Header>> /\ f.chan = <<>> /\ ~f.broken
      /\ p = "aws" => \A w \in Workers : worker[j][w] = Gone
  <2>1. FetcherOK(p, jb, f, file[p]) /\ CrewOK(jb, fetch[j]["aws"], file["aws"], worker[j])
    BY DEF WholeInv
  <2>2. ~Writing(f)
    BY <1>0 DEF Writing
  <2>3. p = "aws" => CrewOK(jb, f, file["aws"], worker[j])
    BY <2>1
  <2> HIDE DEF f, jb
  <2> QED BY <1>0, <2>1, <2>2, <2>3 DEF FetcherOK, CrewOK
<1>2. CASE Fail(j, p) /\ UNCHANGED worker
  BY <1>0, <1>1, <1>2, FailOK
<1>3. CASE /\ file' = [file EXCEPT ![p] = <<>>]
           /\ Turn(j, p, [f EXCEPT !.pc = "page"])
           /\ worker' = IF p = "aws" THEN [worker EXCEPT ![j] = [w \in Workers |-> Idle]] ELSE worker
  <2> DEFINE g == [f EXCEPT !.pc = "page"]
  <2>1. /\ g \in FetchState /\ g.pc = "page" /\ g.at = 0 /\ g.pending = <<Header>>
        /\ g.chan = <<>> /\ g.next = 1 /\ ~g.broken
    <3> HIDE DEF f
    <3>1. 1 <= Wanted + 1
      BY CountOK
    <3> QED BY <1>0, <1>1, <3>1, SetPcOK
  <2> HIDE DEF g
  <2>2. Begun(p, jb.gen, g, <<>>)
    BY <2>1, BegunFirst
  <2>3. FetcherOK(p, jb, g, <<>>)
    BY <2>1, <2>2 DEF FetcherOK
  <2>4. /\ fetch'[j][p] = g
        /\ \A q \in Providers \ {p} : fetch'[j][q] = fetch[j][q]
        /\ \A k \in Jobs \ {j} : fetch'[k] = fetch[k]
    BY <1>3, <2>1, TurnOK DEF TypeInv, g
  <2>5. file'[p] = <<>> /\ \A q \in Providers \ {p} : file'[q] = file[q]
    BY <1>3 DEF TypeInv
  <2>6. \A k \in Jobs \ {j} : worker'[k] = worker[k]
    BY <1>3 DEF TypeInv
  <2>7. ASSUME p = "aws" PROVE CrewOK(jb, g, <<>>, worker'[j])
    <3>1. \A w \in Workers : worker'[j][w] = Idle
      BY <1>3, <2>7 DEF TypeInv
    <3>2. Idle # Gone /\ Idle \notin Records
      BY FetchingState
    <3>3. Accounted(jb.gen, g, <<>>, worker'[j])
      <4>1. 1 .. 1 - 1 = {}
        OBVIOUS
      <4> QED BY <2>1, <4>1 DEF Accounted
    <3> QED BY <1>0, <2>1, <3>1, <3>2, <3>3 DEF CrewOK, Writing
  <2>8. FetcherOK(p, job[j], fetch'[j][p], file'[p])
    BY <2>3, <2>4, <2>5
  <2>9. p = "aws" => CrewOK(job[j], fetch'[j]["aws"], file'["aws"], worker'[j])
    BY <2>4, <2>5, <2>7
  <2>10. p = "azure" => worker'[j] = worker[j]
    BY <1>3
  <2> QED BY <1>0, <2>4, <2>5, <2>6, <2>8, <2>9, <2>10, FetchFrame
<1> QED BY <1>2, <1>3 DEF CreateFile

\* A fetcher that writes, and has met no error.
LEMMA WritingOK ==
    ASSUME TypeInv, WholeInv, NEW j \in Jobs, job[j].pc = "fetch",
           NEW p \in Providers, Writing(fetch[j][p]), ~fetch[j][p].broken
    PROVE  Begun(p, job[j].gen, fetch[j][p], file[p])
<1>1. FetcherOK(p, job[j], fetch[j][p], file[p])
  BY DEF WholeInv
<1> QED BY <1>1 DEF FetcherOK

LEMMA AzureSound ==
    ASSUME TypeInv, WholeInv, NEW j \in Jobs, job[j].pc = "fetch"
    PROVE  ~fetch[j]["azure"].broken
<1>1. FetcherOK("azure", job[j], fetch[j]["azure"], file["azure"])
  BY DEF WholeInv, Providers
<1> QED BY <1>1 DEF FetcherOK

\* The fetcher of Azure goes on, in its file or not.
LEMMA AzureTurn ==
    ASSUME TypeInv, WholeInv, FetchesApart, NEW j \in Jobs, job[j].pc = "fetch",
           UNCHANGED <<job, import, worker>>, NEW g \in FetchState, Writing(g), ~g.broken,
           Turn(j, "azure", g), file'["aws"] = file["aws"],
           Begun("azure", job[j].gen, g, file'["azure"])
    PROVE  WholeInv'
<1>1. /\ fetch'[j]["azure"] = g
      /\ \A q \in Providers \ {"azure"} : fetch'[j][q] = fetch[j][q]
      /\ \A k \in Jobs \ {j} : fetch'[k] = fetch[k]
  BY TurnOK, NothingOK DEF TypeInv
<1>2. \A q \in Providers \ {"azure"} : file'[q] = file[q]
  BY DEF Providers
<1>3. FetcherOK("azure", job[j], fetch'[j]["azure"], file'["azure"])
  BY <1>1 DEF FetcherOK, Writing
<1> QED BY <1>1, <1>2, <1>3, FetchFrame, NothingOK

\* A write, as the file it is in sees it.
LEMMA WriteFile ==
    ASSUME TypeInv, NEW j \in Jobs, NEW p \in Providers, NEW f \in FetchState,
           NEW n \in Records, job[j].gen # 0, Write(j, p, f, n)
    PROVE  \E g \in FetchState :
             /\ Turn(j, p, g)
             /\ g.pc = f.pc /\ g.next = f.next /\ g.chan = f.chan /\ g.broken = f.broken
             /\ \A q \in Providers \ {p} : file'[q] = file[q]
             /\ file'[p] \in Seq(Text)
             /\ Wrote(f, g, file[p], file'[p], Rec(job[j].gen, n))
<1> DEFINE gen == job[j].gen
           text == file[p]
<1>0. file \in [Providers -> Seq(Text)] /\ text \in Seq(Text) /\ f.pending \in Seq(Text) /\ f.at \in Nat
  BY FieldsOK DEF TypeInv
<1>1. PICK g \in FetchState :
             /\ Turn(j, p, g)
             /\ g.pc = f.pc /\ g.next = f.next /\ g.chan = f.chan /\ g.broken = f.broken
             /\ Buffered(p, f, g, Rec(job[j].gen, n))
  BY WriteOK
<1> DEFINE rec == Rec(gen, n)
<1> HIDE DEF gen, rec
<1>2. ASSUME UNCHANGED file, g.at = f.at, g.pending = Append(f.pending, rec)
      PROVE  /\ \A q \in Providers \ {p} : file'[q] = file[q]
             /\ file'[p] \in Seq(Text)
             /\ Wrote(f, g, text, file'[p], rec)
  BY <1>0, <1>2 DEF Wrote
<1>3. ASSUME NEW last \in Text,
             file' = [file EXCEPT ![p] = Put(Append(f.pending, last), f.at, text)],
             \/ last = rec /\ g.at = f.at + Len(f.pending) + 1 /\ g.pending = <<>>
             \/ g.at = f.at + Len(f.pending) /\ g.pending = <<rec>>
      PROVE  /\ \A q \in Providers \ {p} : file'[q] = file[q]
             /\ file'[p] \in Seq(Text)
             /\ Wrote(f, g, text, file'[p], rec)
  <2> DEFINE new == Put(Append(f.pending, last), f.at, text)
  <2>1. new \in Seq(Text)
    <3>1. Append(f.pending, last) \in Seq(Text)
      BY <1>0
    <3> HIDE DEF text
    <3> QED BY <1>0, <3>1, PutOK
  <2>2. file' = [file EXCEPT ![p] = new]
    BY <1>3
  <2> HIDE DEF new
  <2>3. file'[p] = new /\ \A q \in Providers \ {p} : file'[q] = file[q]
    BY <1>0, <2>2
  <2>4. Wrote(f, g, text, file'[p], rec)
    BY <1>3, <2>3 DEF Upto, Wrote, new
  <2> QED BY <2>1, <2>3, <2>4
<1>4. \/ UNCHANGED file /\ g.at = f.at /\ g.pending = Append(f.pending, rec)
      \/ \E last \in Text :
           /\ file' = [file EXCEPT ![p] = Put(Append(f.pending, last), f.at, text)]
           /\ \/ last = rec /\ g.at = f.at + Len(f.pending) + 1 /\ g.pending = <<>>
              \/ g.at = f.at + Len(f.pending) /\ g.pending = <<rec>>
  BY <1>1 DEF Buffered, rec, gen
<1>5. /\ \A q \in Providers \ {p} : file'[q] = file[q]
      /\ file'[p] \in Seq(Text)
      /\ Wrote(f, g, text, file'[p], rec)
  BY <1>2, <1>3, <1>4
<1> QED BY <1>1, <1>5 DEF gen, rec

LEMMA AzureStep ==
    ASSUME TypeInv, WholeInv, FetchesApart, NEW j \in Jobs, AzurePage(j) \/ AzureRecord(j)
    PROVE  WholeInv'
<1> DEFINE f == fetch[j]["azure"]
           jb == job[j]
<1>0. /\ jb.pc = "fetch" /\ f \in FetchState /\ UNCHANGED <<job, import, worker>>
      /\ jb.gen \in 1 .. MaxFetches /\ file["azure"] \in Seq(Text) /\ Writing(f)
  BY FetchingState, NothingOK DEF AzurePage, AzureRecord, Fetching, Writing
<1>1. ~f.broken /\ Begun("azure", jb.gen, f, file["azure"])
  BY <1>0, AzureSound, WritingOK, NothingOK
<1>2. CASE Fail(j, "azure")
  BY <1>0, <1>2, FailOK, NothingOK
<1>3. CASE AzurePage(j)
  <2>1. f.pc = "page"
    BY <1>3 DEF AzurePage, Fetching
  <2>2. CASE Sent(f) < Wanted /\ Turn(j, "azure", [f EXCEPT !.pc = "send"]) /\ UNCHANGED file
    <3> DEFINE g == [f EXCEPT !.pc = "send"]
    <3>1. f.next - 1 < Wanted
      BY <2>2 DEF Sent
    <3>2. /\ g \in FetchState /\ g.pc = "send" /\ g.at = f.at /\ g.pending = f.pending
          /\ g.next = f.next /\ ~g.broken
      <4> HIDE DEF f
      <4>1. f.next <= Wanted
        BY <1>0, <3>1, FieldsOK, CountOK
      <4> QED BY <1>0, <1>1, <4>1, SetPcOK
    <3>3. Turn(j, "azure", g)
      BY <2>2
    <3> HIDE DEF f, g
    <3>4. Begun("azure", jb.gen, g, file["azure"])
      <4>1. f.next <= g.next
        BY <1>0, <3>2, FieldsOK
      <4> QED BY <1>0, <1>1, <3>2, <4>1, BegunSame
    <3> QED BY <1>0, <2>2, <3>2, <3>3, <3>4, AzureTurn DEF Writing
  <2>3. CASE Sent(f) >= Wanted /\ Flush(j, "azure")
    <3>1. f.next - 1 >= Wanted
      BY <2>3 DEF Sent
    <3>2. f.next = Wanted + 1
      <4> HIDE DEF f
      <4> QED BY <1>0, <2>1, <3>1, FieldsOK, CountOK
    <3> QED BY <1>0, <1>1, <2>3, <3>2, FlushOK, NothingOK
  <2> QED BY <1>2, <1>3, <2>2, <2>3 DEF AzurePage
<1>4. CASE AzureRecord(j)
  <2> DEFINE ends == f.next % PageRecords = 0 \/ f.next >= MaxRecords
             h == [f EXCEPT !.next = @ + 1, !.pc = IF ends THEN "page" ELSE "send"]
  <2>1. f.pc = "send"
    BY <1>4 DEF AzureRecord, Fetching
  <2>2. /\ f.next \in Records /\ h \in FetchState /\ h.next = f.next + 1 /\ h.pc \in {"page", "send"}
        /\ h.pending = f.pending /\ h.at = f.at /\ h.broken = f.broken
    <3> HIDE DEF f
    <3> QED BY <1>0, <2>1, SendNextOK
  <2>3. CASE Write(j, "azure", h, f.next)
    <3> HIDE DEF h, f
    <3>1. jb.gen # 0 /\ "azure" \in Providers
      BY <1>0, NothingOK
    <3> DEFINE n == f.next
    <3>0. n \in Records /\ Write(j, "azure", h, n)
      BY <2>2, <2>3
    <3> HIDE DEF n
    <3>2. PICK g \in FetchState :
             /\ Turn(j, "azure", g)
             /\ g.pc = h.pc /\ g.next = h.next /\ g.chan = h.chan /\ g.broken = h.broken
             /\ \A q \in Providers \ {"azure"} : file'[q] = file[q]
             /\ file'["azure"] \in Seq(Text)
             /\ Wrote(h, g, file["azure"], file'["azure"], Rec(job[j].gen, n))
      BY <2>2, <3>0, <3>1, WriteFile
    <3> DEFINE text == file["azure"]
               new == file'["azure"]
    <3>3. Wrote(f, g, text, new, Rec(jb.gen, f.next))
      <4>1. Upto(h) = Upto(f)
        BY <2>2 DEF Upto
      <4>2. Wrote(f, g, text, new, Rec(jb.gen, n))
        BY <2>2, <3>2, <4>1 DEF Wrote
      <4> QED BY <4>2 DEF n
    <3>4. file'["aws"] = file["aws"]
      BY <3>2, NothingOK
    <3>5. new \in Seq(Text)
      BY <3>2
    <3>6. f.next < g.next /\ f.next <= g.next /\ g.next = f.next + 1
      BY <1>0, <2>2, <3>2, FieldsOK
    <3> HIDE DEF new, text, jb
    <3>7. Begun("azure", jb.gen, g, new)
      <4>1. Begun("azure", jb.gen, f, text)
        BY <1>1 DEF text
      <4>2. text \in Seq(Text)
        BY <1>0 DEF text
      <4> QED BY <1>0, <2>2, <3>3, <3>5, <3>6, <4>1, <4>2, BegunWrite
    <3>8. Writing(g) /\ ~g.broken
      BY <1>1, <2>2, <3>2 DEF Writing
    <3> QED BY <1>0, <3>2, <3>4, <3>7, <3>8, AzureTurn DEF new, jb
  <2> QED BY <1>2, <1>4, <2>3 DEF AzureRecord
<1> QED BY <1>3, <1>4

\* The crew of the AWS fetcher, and the fetcher, after a step of one of them.
LEMMA AwsTurn ==
    ASSUME TypeInv, WholeInv, FetchesApart, NEW j \in Jobs, job[j].pc = "fetch",
           UNCHANGED <<job, import>>, NEW g \in FetchState, Writing(g),
           fetch'[j]["aws"] = g, fetch'[j]["azure"] = fetch[j]["azure"],
           file'["azure"] = file["azure"],
           \A k \in Jobs \ {j} : fetch'[k] = fetch[k] /\ worker'[k] = worker[k],
           ~g.broken => Begun("aws", job[j].gen, g, file'["aws"]),
           CrewOK(job[j], g, file'["aws"], worker'[j])
    PROVE  WholeInv'
<1>1. FetcherOK("aws", job[j], fetch'[j]["aws"], file'["aws"])
  BY DEF FetcherOK, Writing
<1>2. \A q \in Providers \ {"aws"} : file'[q] = file[q] /\ fetch'[j][q] = fetch[j][q]
  BY DEF Providers
<1> QED BY <1>1, <1>2, FetchFrame, NothingOK

\* A job whose AWS fetcher has workers.
LEMMA CrewState ==
    ASSUME TypeInv, WholeInv, NEW j \in Jobs
    PROVE  /\ CrewOK(job[j], fetch[j]["aws"], file["aws"], worker[j])
           /\ fetch[j]["aws"] \in FetchState /\ file["aws"] \in Seq(Text)
           /\ worker[j] \in [Workers -> Records \cup {Idle, Gone}]
           /\ job[j].pc = "fetch" => job[j].gen \in 1 .. MaxFetches
           /\ (\E w \in Workers : worker[j][w] # Gone) =>
                 job[j].pc = "fetch" /\ Writing(fetch[j]["aws"])
           /\ job[j].pc = "fetch" /\ Writing(fetch[j]["aws"]) /\ ~fetch[j]["aws"].broken =>
                 Begun("aws", job[j].gen, fetch[j]["aws"], file["aws"])
<1>1. CrewOK(job[j], fetch[j]["aws"], file["aws"], worker[j])
  BY DEF WholeInv
<1>2. worker[j] \in [Workers -> Records \cup {Idle, Gone}]
  BY DEF TypeInv
<1>3. (\E w \in Workers : worker[j][w] # Gone) =>
         job[j].pc = "fetch" /\ Writing(fetch[j]["aws"])
  BY <1>1 DEF CrewOK
<1> QED BY <1>1, <1>2, <1>3, FetchingState, NothingOK, WritingOK

LEMMA AwsPageStep ==
    ASSUME TypeInv, WholeInv, FetchesApart, NEW j \in Jobs, AwsPage(j)
    PROVE  WholeInv'
<1> DEFINE f == fetch[j]["aws"]
           jb == job[j]
           ws == worker[j]
           text == file["aws"]
<1>0. /\ jb.pc = "fetch" /\ f.pc = "page" /\ Writing(f) /\ UNCHANGED <<job, import>>
  BY DEF AwsPage, Fetching, Writing
<1>1. /\ f \in FetchState /\ CrewOK(jb, f, text, ws)
      /\ ~f.broken => Begun("aws", jb.gen, f, text)
  BY <1>0, CrewState
<1>2. CASE Fail(j, "aws") /\ worker' = [worker EXCEPT ![j] = [w \in Workers |-> Gone]]
  <2>1. /\ \A k \in Jobs \ {j} : worker'[k] = worker[k]
        /\ \A w \in Workers : worker'[j][w] = Gone
    BY <1>2 DEF TypeInv
  <2> QED BY <1>0, <1>2, <2>1, FailOK, NothingOK
<1>3. CASE /\ Turn(j, "aws", [f EXCEPT !.pc = IF Sent(f) < Wanted THEN "send" ELSE "close"])
           /\ UNCHANGED <<file, worker>>
  <2> DEFINE pc == IF Sent(f) < Wanted THEN "send" ELSE "close"
             g == [f EXCEPT !.pc = pc]
  <2>1. /\ f.next \in Nat /\ (pc = "send" => f.next <= Wanted) /\ (pc = "close" => f.next = Wanted + 1)
        /\ pc \in {"send", "close"}
    <3> HIDE DEF f
    <3> QED BY <1>0, <1>1, FieldsOK, CountOK DEF Sent
  <2>2. Turn(j, "aws", g)
    BY <1>3
  <2> HIDE DEF pc
  <2>3. /\ g \in FetchState /\ g.pc = pc /\ g.next = f.next /\ g.chan = f.chan
        /\ g.pending = f.pending /\ g.at = f.at /\ g.broken = f.broken
    <3> HIDE DEF f
    <3>1. pc \in {"page", "send", "close"} /\ pc # "page"
      BY <2>1
    <3>2. g \in FetchState
      BY <1>1, <2>1, <3>1, SetPcOK
    <3>3. /\ g.pc = pc /\ g.next = f.next /\ g.chan = f.chan
          /\ g.pending = f.pending /\ g.at = f.at /\ g.broken = f.broken
      BY <1>1 DEF FetchState
    <3> QED BY <3>2, <3>3
  <2>4. /\ fetch'[j]["aws"] = g /\ fetch'[j]["azure"] = fetch[j]["azure"]
        /\ \A k \in Jobs \ {j} : fetch'[k] = fetch[k]
    <3> HIDE DEF g
    <3> QED BY <2>2, <2>3, TurnOK, NothingOK DEF TypeInv
  <2> HIDE DEF g, f, ws, text, jb
  <2>5. Writing(g)
    BY <2>1, <2>3 DEF Writing
  <2>6. ~g.broken => /\ Begun("aws", jb.gen, g, text)
                     /\ \A r : HasLine(f, text, r) => HasLine(g, text, r)
    <3>1. f.next <= g.next
      BY <2>1, <2>3
    <3> QED BY <1>1, <2>3, <3>1, BegunSame
  <2>7. CrewOK(jb, g, text, ws)
    BY <1>0, <1>1, <2>3, <2>5, <2>6 DEF CrewOK, Accounted
  <2> QED BY <1>0, <1>3, <2>3, <2>4, <2>5, <2>6, <2>7, AwsTurn DEF jb, ws, text, f
<1> QED BY <1>2, <1>3 DEF AwsPage

LEMMA AwsSendStep ==
    ASSUME TypeInv, WholeInv, FetchesApart, NEW j \in Jobs, AwsSend(j)
    PROVE  WholeInv'
<1> DEFINE f == fetch[j]["aws"]
           jb == job[j]
           ws == worker[j]
           text == file["aws"]
           chan == Append(f.chan, f.next)
           ends == f.next % PageRecords = 0 \/ f.next >= MaxRecords
           h == [f EXCEPT !.next = @ + 1, !.pc = IF ends THEN "page" ELSE "send"]
           g == [h EXCEPT !.chan = chan]
<1>0. /\ jb.pc = "fetch" /\ f.pc = "send" /\ Writing(f) /\ UNCHANGED <<job, import, file, worker>>
      /\ Len(f.chan) < Buffer
  BY DEF AwsSend, Fetching, Writing, Room
<1>1. /\ f \in FetchState /\ CrewOK(jb, f, text, ws)
      /\ ~f.broken => Begun("aws", jb.gen, f, text)
      /\ ws \in [Workers -> Records \cup {Idle, Gone}]
  BY <1>0, CrewState
<1>2. Turn(j, "aws", g)
  BY <1>0, <1>1 DEF AwsSend, FetchState
<1>3. /\ f.next \in Records /\ h \in FetchState /\ h.next = f.next + 1 /\ h.pc \in {"page", "send"}
      /\ h.chan = f.chan /\ h.pending = f.pending /\ h.at = f.at /\ h.broken = f.broken
  <2> HIDE DEF f
  <2> QED BY <1>0, <1>1, SendNextOK
<1>4. chan \in Seq(Records) /\ Len(chan) <= Buffer /\ f.next \in Nat
      /\ Len(chan) = Len(f.chan) + 1 /\ chan[Len(f.chan) + 1] = f.next
      /\ \A i \in 1 .. Len(f.chan) : chan[i] = f.chan[i]
      /\ Len(f.chan) \in Nat
  <2>1. f.chan \in Seq(Records) /\ Buffer \in Nat /\ f.next \in Nat
    BY <1>1, FieldsOK, PriceAssumption
  <2> HIDE DEF f
  <2> QED BY <1>0, <1>3, <2>1
<1> HIDE DEF h, chan
<1>5. /\ g \in FetchState /\ g.pc = h.pc /\ g.next = h.next /\ g.chan = chan
      /\ g.pending = h.pending /\ g.at = h.at /\ g.broken = h.broken
  BY <1>3, <1>4, SetChanOK
<1> HIDE DEF g
<1>6. /\ fetch'[j]["aws"] = g /\ fetch'[j]["azure"] = fetch[j]["azure"]
      /\ \A k \in Jobs \ {j} : fetch'[k] = fetch[k]
  BY <1>2, <1>5, TurnOK, NothingOK DEF TypeInv
<1> HIDE DEF f, ws, text, jb
<1>7. Writing(g)
  BY <1>3, <1>5 DEF Writing
<1>8. ~g.broken => /\ Begun("aws", jb.gen, g, text)
                   /\ \A r : HasLine(f, text, r) => HasLine(g, text, r)
  <2>1. f.next <= g.next
    BY <1>3, <1>4, <1>5
  <2> QED BY <1>1, <1>3, <1>5, <2>1, BegunSame
<1>9. CrewOK(jb, g, text, ws)
  <2>1. CASE g.broken
    BY <1>0, <1>7, <2>1 DEF CrewOK
  <2>2. CASE ~g.broken
    <3>1. /\ \A w \in Workers : ws[w] # Gone
          /\ \A i \in 1 .. Len(f.chan) : f.chan[i] < f.next
          /\ \A w \in Workers : ws[w] \in Records => ws[w] < f.next
          /\ Accounted(jb.gen, f, text, ws)
      BY <1>0, <1>1, <1>3, <1>5, <2>2 DEF CrewOK
    <3>2. \A n \in Records : n \in Nat
      BY CountOK DEF Records
    <3>3. f.chan \in Seq(Records)
      BY <1>1, FieldsOK
    <3>4. \A i \in 1 .. Len(chan) : chan[i] < f.next + 1
      <4> TAKE i \in 1 .. Len(chan)
      <4>1. CASE i \in 1 .. Len(f.chan)
        <5>1. f.chan[i] \in Nat
          BY <3>2, <3>3, <4>1
        <5> QED BY <1>4, <3>1, <4>1, <5>1
      <4>2. CASE i = Len(f.chan) + 1
        BY <1>4, <4>2
      <4> QED BY <1>4, <4>1, <4>2
    <3>5. \A w \in Workers : ws[w] \in Records => ws[w] < f.next + 1
      BY <1>4, <3>1, <3>2
    <3>6. Accounted(jb.gen, g, text, ws)
      <4> SUFFICES ASSUME NEW n \in 1 .. g.next - 1
                   PROVE  \/ \E i \in 1 .. Len(g.chan) : g.chan[i] = n
                          \/ \E w \in Workers : ws[w] = n
                          \/ HasLine(g, text, Rec(jb.gen, n))
        BY DEF Accounted
      <4>1. n \in 1 .. f.next - 1 \/ n = f.next
        BY <1>3, <1>4, <1>5
      <4>2. CASE n = f.next
        <5>1. Len(f.chan) + 1 \in 1 .. Len(chan)
          BY <1>4
        <5> QED BY <1>4, <1>5, <4>2, <5>1
      <4>3. CASE n \in 1 .. f.next - 1
        <5>1. \A i \in 1 .. Len(f.chan) : i \in 1 .. Len(chan)
          BY <1>4
        <5> QED BY <1>4, <1>5, <1>8, <2>2, <3>1, <4>3, <5>1 DEF Accounted
      <4> QED BY <4>1, <4>2, <4>3
    <3> QED BY <1>0, <1>3, <1>5, <1>7, <3>1, <3>4, <3>5, <3>6 DEF CrewOK
  <2> QED BY <2>1, <2>2
<1> QED BY <1>0, <1>5, <1>6, <1>7, <1>8, <1>9, AwsTurn DEF jb, ws, text, f

LEMMA AwsCloseStep ==
    ASSUME TypeInv, WholeInv, FetchesApart, NEW j \in Jobs, AwsClose(j)
    PROVE  WholeInv'
<1> DEFINE f == fetch[j]["aws"]
           jb == job[j]
           ws == worker[j]
           text == file["aws"]
<1>0. /\ jb.pc = "fetch" /\ f.pc = "close" /\ Writing(f) /\ UNCHANGED <<job, import, worker>>
      /\ \A w \in Workers : ws[w] = Gone
  BY DEF AwsClose, Fetching, Writing
<1>1. /\ f \in FetchState /\ CrewOK(jb, f, text, ws)
      /\ ~f.broken => Begun("aws", jb.gen, f, text)
  BY <1>0, CrewState
<1>2. CASE Fail(j, "aws")
  BY <1>0, <1>2, FailOK, NothingOK
<1>3. CASE ~f.broken /\ Flush(j, "aws")
  <2>1. f.next = Wanted + 1 /\ f.next - 1 = Wanted
    <3> HIDE DEF f
    <3> QED BY <1>0, <1>1, FieldsOK, CountOK
  <2>2. \A n \in 1 .. Wanted : HasLine(f, text, Rec(jb.gen, n))
    <3> HIDE DEF f, ws, text, jb
    <3>1. /\ (f.chan # <<>> => \A w \in Workers : ws[w] # Gone)
          /\ Accounted(jb.gen, f, text, ws)
      BY <1>0, <1>1, <1>3 DEF CrewOK, f
    <3>2. f.chan = <<>>
      BY <1>0, <3>1, PriceAssumption
    <3>3. 1 .. Len(f.chan) = {}
      BY <3>2
    <3>4. \A n \in 1 .. Wanted : n # Gone
      BY CountOK DEF Gone
    <3> QED BY <1>0, <2>1, <3>1, <3>3, <3>4 DEF Accounted
  <2> QED BY <1>0, <1>1, <1>3, <2>1, <2>2, FlushOK, NothingOK
<1> QED BY <1>2, <1>3 DEF AwsClose

LEMMA ReceiveStep ==
    ASSUME TypeInv, WholeInv, FetchesApart, NEW j \in Jobs, NEW w \in Workers, WorkerReceive(j, w)
    PROVE  WholeInv'
<1> DEFINE f == fetch[j]["aws"]
           jb == job[j]
           ws == worker[j]
           vs == worker'[j]
           text == file["aws"]
<1>0. /\ jb.pc = "fetch" /\ ws[w] = Idle /\ UNCHANGED <<job, import, file>>
  BY DEF WorkerReceive
<1>1. /\ f \in FetchState /\ CrewOK(jb, f, text, ws) /\ Writing(f)
      /\ ~f.broken => Begun("aws", jb.gen, f, text)
      /\ ws \in [Workers -> Records \cup {Idle, Gone}]
      /\ Idle # Gone /\ Idle \notin Records /\ Gone \notin Records
  <2>1. Idle # Gone /\ Idle \notin Records /\ Gone \notin Records
    BY FetchingState
  <2> QED BY <1>0, <2>1, CrewState
<1>2. CASE /\ f.chan # <<>>
           /\ worker' = [worker EXCEPT ![j][w] = Head(f.chan)]
           /\ Turn(j, "aws", [f EXCEPT !.chan = Tail(@)])
  <2> DEFINE chan == Tail(f.chan)
             first == Head(f.chan)
             g == [f EXCEPT !.chan = chan]
  <2>1. f.chan \in Seq(Records) /\ Len(f.chan) \in Nat /\ Len(f.chan) <= Buffer /\ f.next \in Nat
    BY <1>1, FieldsOK
  <2>2. /\ chan \in Seq(Records) /\ Len(chan) = Len(f.chan) - 1 /\ Len(chan) <= Buffer
        /\ first = f.chan[1] /\ first \in Records /\ 1 \in 1 .. Len(f.chan)
        /\ \A i \in 1 .. Len(chan) : chan[i] = f.chan[i + 1] /\ i + 1 \in 1 .. Len(f.chan)
    <3>1. f.chan # <<>> /\ Buffer \in Nat
      BY <1>2, PriceAssumption
    <3> HIDE DEF f
    <3>2. /\ chan \in Seq(Records) /\ Len(chan) = Len(f.chan) - 1 /\ Len(chan) <= Buffer
          /\ first = f.chan[1] /\ first \in Records /\ 1 \in 1 .. Len(f.chan)
      BY <2>1, <3>1
    <3>3. \A i \in 1 .. Len(chan) : chan[i] = f.chan[i + 1] /\ i + 1 \in 1 .. Len(f.chan)
      BY <2>1, <3>1, <3>2
    <3> QED BY <3>2, <3>3
  <2>3. Turn(j, "aws", g)
    BY <1>2
  <2>4. /\ vs[w] = first /\ \A v \in Workers \ {w} : vs[v] = ws[v]
        /\ \A k \in Jobs \ {j} : worker'[k] = worker[k]
    BY <1>2 DEF TypeInv
  <2> HIDE DEF chan, first, vs
  <2>5. /\ g \in FetchState /\ g.pc = f.pc /\ g.next = f.next /\ g.chan = chan
        /\ g.pending = f.pending /\ g.at = f.at /\ g.broken = f.broken
    <3> HIDE DEF f
    <3> QED BY <1>1, <2>2, SetChanOK
  <2> HIDE DEF g
  <2>6. /\ fetch'[j]["aws"] = g /\ fetch'[j]["azure"] = fetch[j]["azure"]
        /\ \A k \in Jobs \ {j} : fetch'[k] = fetch[k]
    BY <2>3, <2>5, TurnOK, NothingOK DEF TypeInv
  <2>a. f.chan # <<>>
    BY <1>2
  <2> HIDE DEF f, ws, text, jb
  <2>7. Writing(g)
    BY <1>1, <2>5 DEF Writing
  <2>8. ~g.broken => /\ Begun("aws", jb.gen, g, text)
                     /\ \A r : HasLine(f, text, r) => HasLine(g, text, r)
    <3>1. f.next <= g.next
      BY <2>1, <2>5
    <3> QED BY <1>1, <2>5, <3>1, BegunSame
  <2>9. CrewOK(jb, g, text, vs)
    <3>1. CASE g.broken
      BY <1>0, <2>7, <3>1 DEF CrewOK
    <3>2. CASE ~g.broken
      <4>1. /\ \A v \in Workers : ws[v] # Gone
            /\ \A i \in 1 .. Len(f.chan) : f.chan[i] < f.next
            /\ \A v \in Workers : ws[v] \in Records => ws[v] < f.next
            /\ Accounted(jb.gen, f, text, ws)
        BY <1>0, <1>1, <2>5, <2>a, <3>2 DEF CrewOK
      <4>2. \A v \in Workers : vs[v] # Gone
        BY <1>1, <2>2, <2>4, <4>1
      <4>3. \A i \in 1 .. Len(chan) : chan[i] < f.next
        BY <2>2, <4>1
      <4>4. \A v \in Workers : vs[v] \in Records => vs[v] < f.next
        BY <2>2, <2>4, <4>1
      <4>5. Accounted(jb.gen, g, text, vs)
        <5> SUFFICES ASSUME NEW n \in 1 .. f.next - 1
                     PROVE  \/ \E i \in 1 .. Len(chan) : chan[i] = n
                            \/ \E v \in Workers : vs[v] = n
                            \/ HasLine(g, text, Rec(jb.gen, n))
          BY <2>5 DEF Accounted
        <5>1. CASE \E i \in 1 .. Len(f.chan) : f.chan[i] = n
          <6>1. PICK i \in 1 .. Len(f.chan) : f.chan[i] = n
            BY <5>1
          <6>2. CASE i = 1
            BY <2>2, <2>4, <6>1, <6>2
          <6>3. CASE i # 1
            <7>1. i - 1 \in 1 .. Len(chan) /\ (i - 1) + 1 = i
              BY <2>1, <2>2, <6>3
            <7> QED BY <2>2, <6>1, <7>1
          <6> QED BY <6>2, <6>3
        <5>2. CASE \E v \in Workers : ws[v] = n
          <6>1. PICK v \in Workers : ws[v] = n
            BY <5>2
          <6>2. n # Idle
            BY <2>1 DEF Idle
          <6>3. v # w
            BY <1>0, <6>1, <6>2 DEF ws
          <6> QED BY <2>4, <6>1, <6>3
        <5>3. CASE HasLine(f, text, Rec(jb.gen, n))
          BY <2>8, <3>2, <5>3
        <5> QED BY <4>1, <5>1, <5>2, <5>3 DEF Accounted
      <4> QED BY <1>0, <2>5, <2>7, <4>2, <4>3, <4>4, <4>5 DEF CrewOK
    <3> QED BY <3>1, <3>2
  <2> QED BY <1>0, <2>4, <2>5, <2>6, <2>7, <2>8, <2>9, AwsTurn DEF jb, vs, text
<1>3. CASE /\ f.chan = <<>> /\ f.pc = "close"
           /\ worker' = [worker EXCEPT ![j][w] = Gone]
           /\ UNCHANGED fetch
  <2>1. /\ vs[w] = Gone /\ \A v \in Workers \ {w} : vs[v] = ws[v]
        /\ \A k \in Jobs \ {j} : worker'[k] = worker[k]
    BY <1>3 DEF TypeInv
  <2>2. f.chan = <<>> /\ f.pc = "close" /\ UNCHANGED fetch
    BY <1>3
  <2> HIDE DEF vs, text, jb, f
  <2>3. CrewOK(jb, f, text, vs)
    <3>1. CASE f.broken
      BY <1>0, <1>1, <3>1 DEF CrewOK
    <3>2. CASE ~f.broken
      <4>1. /\ \A i \in 1 .. Len(f.chan) : f.chan[i] < f.next
            /\ \A v \in Workers : ws[v] \in Records => ws[v] < f.next
            /\ Accounted(jb.gen, f, text, ws)
        <5> HIDE DEF ws
        <5> QED BY <1>0, <1>1, <3>2 DEF CrewOK
      <4>2. \A v \in Workers : vs[v] \in Records => vs[v] < f.next
        BY <1>1, <2>1, <4>1
      <4>3. f.next \in Nat
        BY <1>1, FieldsOK
      <4>4. Accounted(jb.gen, f, text, vs)
        <5> SUFFICES ASSUME NEW n \in 1 .. f.next - 1, NEW v \in Workers, ws[v] = n
                     PROVE  vs[v] = n
          BY <4>1 DEF Accounted
        <5>1. n # Idle
          BY <4>3 DEF Idle
        <5> QED BY <1>0, <2>1, <5>1
      <4> QED BY <1>0, <1>1, <2>2, <4>1, <4>2, <4>4 DEF CrewOK
    <3> QED BY <3>1, <3>2
  <2> QED BY <1>0, <1>1, <2>1, <2>2, <2>3, AwsTurn DEF jb, vs, text, f
<1> QED BY <1>2, <1>3 DEF WorkerReceive

LEMMA WorkerStep ==
    ASSUME TypeInv, WholeInv, FetchesApart, NEW j \in Jobs, NEW w \in Workers, WorkerWrite(j, w)
    PROVE  WholeInv'
<1> DEFINE f == fetch[j]["aws"]
           jb == job[j]
           ws == worker[j]
           vs == worker'[j]
           text == file["aws"]
           new == file'["aws"]
           n == worker[j][w]
<1>0. /\ jb.pc = "fetch" /\ n \in Records /\ UNCHANGED <<job, import>>
  BY DEF WorkerWrite
<1>1. /\ f \in FetchState /\ CrewOK(jb, f, text, ws) /\ Writing(f)
      /\ ~f.broken => Begun("aws", jb.gen, f, text)
      /\ ws \in [Workers -> Records \cup {Idle, Gone}]
      /\ Idle # Gone /\ Idle \notin Records /\ Gone \notin Records
      /\ jb.gen \in 1 .. MaxFetches /\ text \in Seq(Text)
  <2>1. Idle # Gone /\ Idle \notin Records /\ Gone \notin Records
    BY FetchingState
  <2>2. n # Gone
    BY <1>0, <2>1
  <2> QED BY <1>0, <2>1, <2>2, CrewState
<1>2. CASE ~f.broken /\ Write(j, "aws", f, n) /\ worker' = [worker EXCEPT ![j][w] = Idle]
  <2>1. /\ vs[w] = Idle /\ \A v \in Workers \ {w} : vs[v] = ws[v]
        /\ \A k \in Jobs \ {j} : worker'[k] = worker[k]
    BY <1>2 DEF TypeInv
  <2>2. jb.gen # 0 /\ "aws" \in Providers /\ ~f.broken /\ ws[w] = n
    BY <1>1, <1>2, NothingOK
  <2>3. PICK g \in FetchState :
             /\ Turn(j, "aws", g)
             /\ g.pc = f.pc /\ g.next = f.next /\ g.chan = f.chan /\ g.broken = f.broken
             /\ \A q \in Providers \ {"aws"} : file'[q] = file[q]
             /\ file'["aws"] \in Seq(Text)
             /\ Wrote(f, g, file["aws"], file'["aws"], Rec(job[j].gen, n))
    <3>1. Write(j, "aws", f, n)
      BY <1>2
    <3> HIDE DEF f, n
    <3> QED BY <1>0, <1>1, <2>2, <3>1, WriteFile
  <2>4. /\ fetch'[j]["aws"] = g /\ fetch'[j]["azure"] = fetch[j]["azure"]
        /\ \A k \in Jobs \ {j} : fetch'[k] = fetch[k]
    BY <2>3, TurnOK, NothingOK DEF TypeInv
  <2>5. new \in Seq(Text) /\ file'["azure"] = file["azure"] /\ Wrote(f, g, text, new, Rec(jb.gen, n))
    BY <2>3, NothingOK
  <2> HIDE DEF f, ws, vs, text, jb, n, new
  <2>6. /\ f.pc # "close" \/ f.chan # <<>> => \A v \in Workers : ws[v] # Gone
        /\ \A i \in 1 .. Len(f.chan) : f.chan[i] < f.next
        /\ \A v \in Workers : ws[v] \in Records => ws[v] < f.next
        /\ Accounted(jb.gen, f, text, ws)
    BY <1>0, <1>1, <2>2 DEF CrewOK
  <2>7. n < g.next /\ f.next <= g.next /\ g.next = f.next /\ f.next \in Nat
    BY <1>0, <1>1, <2>2, <2>3, <2>6, FieldsOK
  <2>8. /\ Begun("aws", jb.gen, g, new)
        /\ HasLine(g, new, Rec(jb.gen, n))
        /\ \A r : HasLine(f, text, r) => HasLine(g, new, r)
    <3> DEFINE p == "aws"
    <3>1. /\ p = "azure" => n = f.next /\ g.next = f.next + 1
          /\ Begun(p, jb.gen, f, text) /\ Wrote(f, g, text, new, Rec(jb.gen, n))
          /\ jb.gen \in 1 .. MaxFetches /\ n \in Records /\ f \in FetchState /\ g \in FetchState
          /\ text \in Seq(Text) /\ new \in Seq(Text) /\ n < g.next /\ f.next <= g.next
      BY <1>0, <1>1, <2>2, <2>3, <2>5, <2>7
    <3> HIDE DEF p
    <3>2. Begun(p, jb.gen, g, new)
      BY <3>1, BegunWrite
    <3>3. HasLine(g, new, Rec(jb.gen, n))
      BY <3>1, BegunWrite
    <3>4. \A r : HasLine(f, text, r) => HasLine(g, new, r)
      BY <3>1, BegunWrite
    <3> QED BY <3>2, <3>3, <3>4 DEF p
  <2>9. Writing(g)
    BY <1>1, <2>3 DEF Writing
  <2>10. f.pc # "close" \/ f.chan # <<>> => \A v \in Workers : vs[v] # Gone
    BY <1>1, <2>1, <2>6
  <2>11. \A v \in Workers : vs[v] \in Records => vs[v] < f.next
    BY <1>1, <2>1, <2>6
  <2>12. Accounted(jb.gen, g, new, vs)
    <3> SUFFICES ASSUME NEW m \in 1 .. f.next - 1
                 PROVE  \/ \E i \in 1 .. Len(f.chan) : f.chan[i] = m
                        \/ \E v \in Workers : vs[v] = m
                        \/ HasLine(g, new, Rec(jb.gen, m))
      BY <2>3 DEF Accounted
    <3>1. CASE \E v \in Workers : ws[v] = m
      <4>1. PICK v \in Workers : ws[v] = m
        BY <3>1
      <4>2. CASE v = w
        BY <2>2, <2>8, <4>1, <4>2
      <4>3. CASE v # w
        BY <2>1, <4>1, <4>3
      <4> QED BY <4>2, <4>3
    <3>2. CASE HasLine(f, text, Rec(jb.gen, m))
      BY <2>8, <3>2
    <3> QED BY <2>6, <3>1, <3>2 DEF Accounted
  <2>13. CrewOK(jb, g, new, vs)
    BY <1>0, <2>3, <2>6, <2>9, <2>10, <2>11, <2>12 DEF CrewOK
  <2> QED BY <1>0, <2>1, <2>3, <2>4, <2>5, <2>8, <2>9, <2>13, AwsTurn DEF jb, vs, new
<1>3. CASE /\ worker' = [worker EXCEPT ![j][w] = Gone]
           /\ Turn(j, "aws", [f EXCEPT !.broken = TRUE, !.told = TRUE])
           /\ UNCHANGED file
  <2> DEFINE g == [f EXCEPT !.broken = TRUE, !.told = TRUE]
  <2>1. \A k \in Jobs \ {j} : worker'[k] = worker[k]
    BY <1>3 DEF TypeInv
  <2>2. g \in FetchState /\ g.pc = f.pc /\ g.broken
    <3> HIDE DEF f
    <3> QED BY <1>1, SetBrokenOK
  <2>3. Turn(j, "aws", g)
    BY <1>3
  <2> HIDE DEF g
  <2>4. /\ fetch'[j]["aws"] = g /\ fetch'[j]["azure"] = fetch[j]["azure"]
        /\ \A k \in Jobs \ {j} : fetch'[k] = fetch[k]
    BY <2>2, <2>3, TurnOK, NothingOK DEF TypeInv
  <2>5. Writing(g) /\ CrewOK(jb, g, file'["aws"], vs)
    BY <1>0, <1>1, <2>2 DEF Writing, CrewOK
  <2> QED BY <1>0, <1>3, <2>1, <2>2, <2>4, <2>5, AwsTurn
<1> QED BY <1>2, <1>3 DEF WorkerWrite

\* A step of a job that leaves the files as they are.
LEMMA JobFrame ==
    ASSUME WholeInv, NEW j \in Jobs, UNCHANGED file,
           \A k \in Jobs \ {j} : /\ job'[k] = job[k] /\ fetch'[k] = fetch[k]
                                 /\ worker'[k] = worker[k] /\ import'[k] = import[k],
           \A p \in Providers : FetcherOK(p, job'[j], fetch'[j][p], file[p]),
           CrewOK(job'[j], fetch'[j]["aws"], file["aws"], worker'[j]),
           ImportOK(job'[j], import'[j], file)
    PROVE  WholeInv'
BY DEF WholeInv

\* A step of an importer: its job goes on, or ends.
LEMMA ImportFrame ==
    ASSUME TypeInv, WholeInv, NEW j \in Jobs, UNCHANGED <<file, fetch, worker>>,
           import[j].pc # "none",
           \/ UNCHANGED job /\ \E i : /\ import' = [import EXCEPT ![j] = i]
                                      /\ ImportOK(job[j], i, file)
           \/ EndImport(j)
    PROVE  WholeInv'
<1>1. /\ job[j].pc = "import" /\ CrewOK(job[j], fetch[j]["aws"], file["aws"], worker[j])
      /\ job \in [Jobs -> JobState] /\ import \in [Jobs -> ImportState]
  BY DEF WholeInv, ImportOK, TypeInv
<1>2. CASE UNCHANGED job /\ \E i : import' = [import EXCEPT ![j] = i] /\ ImportOK(job[j], i, file)
  <2>1. PICK i : import' = [import EXCEPT ![j] = i] /\ ImportOK(job[j], i, file)
    BY <1>2
  <2>2. import'[j] = i /\ \A k \in Jobs \ {j} : import'[k] = import[k]
    BY <1>1, <2>1
  <2>3. \A p \in Providers : FetcherOK(p, job'[j], fetch'[j][p], file[p])
    BY <1>1, <1>2 DEF FetcherOK
  <2>4. CrewOK(job'[j], fetch'[j]["aws"], file["aws"], worker'[j])
    BY <1>1, <1>2
  <2> QED BY <1>2, <2>1, <2>2, <2>3, <2>4, JobFrame
<1>3. CASE EndImport(j)
  <2>1. /\ job'[j] = NoJob /\ import'[j] = NoImport
        /\ \A k \in Jobs \ {j} : job'[k] = job[k] /\ import'[k] = import[k]
    BY <1>1, <1>3 DEF EndImport
  <2>2. \A p \in Providers : FetcherOK(p, job'[j], fetch'[j][p], file[p])
    BY <2>1, NothingOK DEF FetcherOK
  <2>3. CrewOK(job'[j], fetch'[j]["aws"], file["aws"], worker'[j])
    BY <1>1, <2>1, NothingOK DEF CrewOK
  <2>4. ImportOK(job'[j], import'[j], file)
    BY <2>1, NothingOK DEF ImportOK, NoImport
  <2> QED BY <2>1, <2>2, <2>3, <2>4, JobFrame
<1> QED BY <1>2, <1>3

LEMMA LoseStep ==
    ASSUME Lose
    PROVE  WholeInv'
<1>1. \A j \in Jobs : /\ job'[j] = NoJob /\ import'[j] = NoImport
                      /\ \A w \in Workers : worker'[j][w] = Gone
  BY DEF Lose
<1>2. \A j \in Jobs, p \in Providers : FetcherOK(p, job'[j], fetch'[j][p], file'[p])
  BY <1>1, NothingOK DEF FetcherOK
<1>3. \A j \in Jobs : CrewOK(job'[j], fetch'[j]["aws"], file'["aws"], worker'[j])
  BY <1>1, NothingOK DEF CrewOK
<1>4. \A j \in Jobs : ImportOK(job'[j], import'[j], file')
  BY <1>1, NothingOK DEF ImportOK, NoImport
<1> QED BY <1>2, <1>3, <1>4 DEF WholeInv

LEMMA StartStep ==
    ASSUME TypeInv, WholeInv, NEW j \in Jobs,
           StartImport(j) \/ \E kind \in Kinds \ {"import"} : StartFetch(j, kind)
    PROVE  WholeInv'
<1>1. /\ job[j] = NoJob /\ UNCHANGED <<file, worker>>
      /\ CrewOK(job[j], fetch[j]["aws"], file["aws"], worker[j])
      /\ ImportOK(job[j], import[j], file)
      /\ job \in [Jobs -> JobState] /\ import \in [Jobs -> ImportState]
      /\ fetch \in [Jobs -> [Providers -> FetchState]]
  BY DEF StartImport, StartFetch, WholeInv, TypeInv
<1>2. /\ \A w \in Workers : worker[j][w] = Gone
      /\ import[j].pc = "none"
  BY <1>1, NothingOK DEF CrewOK, ImportOK, ImportState
<1>3. CASE StartImport(j)
  <2> DEFINE jb == [kind |-> "import", gen |-> 0, pc |-> "import"]
             i == [NoImport EXCEPT !.pc = "read"]
  <2>1. /\ job'[j] = jb /\ import'[j] = i /\ UNCHANGED fetch
        /\ \A k \in Jobs \ {j} : job'[k] = job[k] /\ import'[k] = import[k]
    BY <1>1, <1>3 DEF StartImport
  <2>2. jb.kind = "import" /\ jb.pc = "import"
    OBVIOUS
  <2> HIDE DEF jb, i
  <2>3. \A p \in Providers : FetcherOK(p, jb, fetch'[j][p], file[p])
    BY <2>2 DEF FetcherOK
  <2>4. CrewOK(jb, fetch'[j]["aws"], file["aws"], worker'[j])
    BY <1>1, <1>2, <2>2 DEF CrewOK
  <2>5. ImportOK(jb, i, file)
    BY <2>2 DEF ImportOK
  <2> QED BY <1>1, <2>1, <2>3, <2>4, <2>5, JobFrame
<1>4. ASSUME NEW kind \in Kinds, StartFetch(j, kind) PROVE WholeInv'
  <2> DEFINE jb == [kind |-> kind, gen |-> fetches + 1, pc |-> "fetch"]
             f == [NoFetch EXCEPT !.pc = "create"]
  <2>1. /\ job'[j] = jb /\ UNCHANGED import /\ \A p \in Providers : fetch'[j][p] = f
        /\ \A k \in Jobs \ {j} : job'[k] = job[k] /\ fetch'[k] = fetch[k]
    BY <1>1, <1>4 DEF StartFetch
  <2>2. jb.pc = "fetch" /\ jb.gen # 0
    BY DEF TypeInv
  <2>3. /\ f.pc = "create" /\ f.at = 0 /\ f.pending = <<Header>> /\ f.chan = <<>> /\ ~f.broken
    BY DEF NoFetch
  <2> HIDE DEF jb, f
  <2>4. \A p \in Providers : FetcherOK(p, jb, f, file[p])
    BY <2>2, <2>3 DEF FetcherOK, Writing
  <2>5. CrewOK(jb, f, file["aws"], worker'[j])
    BY <1>1, <1>2, <2>3 DEF CrewOK, Writing
  <2>6. ImportOK(jb, import[j], file)
    BY <1>2, <2>2 DEF ImportOK
  <2> QED BY <1>1, <2>1, <2>4, <2>5, <2>6, JobFrame, NothingOK
<1> QED BY <1>3, <1>4

\* The rows of an importer that starts are the lines read so far: none.
LEMMA ReadNothing ==
    ASSUME TypeInv, NEW p \in Providers, NEW i, i.at = 0, i.rows = <<>>
    PROVE  ReadSoFar(i, file[p])
<1>1. Len(file[p]) \in Nat
  BY DEF TypeInv
<1> QED BY <1>1 DEF ReadSoFar

LEMMA EndFetchStep ==
    ASSUME TypeInv, WholeInv, NEW j \in Jobs, EndFetch(j)
    PROVE  WholeInv'
<1> DEFINE jb == job[j]
<1>1. /\ jb.pc = "fetch" /\ UNCHANGED file /\ jb \in JobState /\ jb.gen # 0
      /\ ImportOK(jb, import[j], file) /\ \A p \in Providers : FetcherOK(p, jb, fetch[j][p], file[p])
      /\ job \in [Jobs -> JobState] /\ import \in [Jobs -> ImportState]
      /\ fetch \in [Jobs -> [Providers -> FetchState]]
      /\ worker \in [Jobs -> [Workers -> Records \cup {Idle, Gone}]]
  BY DEF EndFetch, WholeInv, TypeInv
<1>2. /\ \A w \in Workers : worker'[j][w] = Gone
      /\ \A k \in Jobs \ {j} : fetch'[k] = fetch[k] /\ worker'[k] = worker[k]
  BY <1>1 DEF EndFetch
<1>3. CASE job' = [job EXCEPT ![j] = NoJob] /\ UNCHANGED import
  <2>1. job'[j] = NoJob /\ \A k \in Jobs \ {j} : job'[k] = job[k]
    BY <1>1, <1>3
  <2>2. import[j].pc = "none"
    BY <1>1 DEF ImportOK, ImportState
  <2>3. \A p \in Providers : FetcherOK(p, job'[j], fetch'[j][p], file[p])
    BY <2>1, NothingOK DEF FetcherOK
  <2>4. CrewOK(job'[j], fetch'[j]["aws"], file["aws"], worker'[j])
    BY <1>2, <2>1, NothingOK DEF CrewOK
  <2>5. ImportOK(job'[j], import[j], file)
    BY <2>1, <2>2, NothingOK DEF ImportOK
  <2> QED BY <1>1, <1>2, <1>3, <2>1, <2>3, <2>4, <2>5, JobFrame
<1>4. CASE /\ Fetched(j) /\ job' = [job EXCEPT ![j].pc = "import"]
           /\ import' = [import EXCEPT ![j] = [NoImport EXCEPT !.pc = "read"]]
  <2> DEFINE nb == [jb EXCEPT !.pc = "import"]
             i == [NoImport EXCEPT !.pc = "read"]
  <2>1. /\ job'[j] = nb /\ import'[j] = i
        /\ \A k \in Jobs \ {j} : job'[k] = job[k] /\ import'[k] = import[k]
    BY <1>1, <1>4
  <2>2. nb.pc = "import" /\ nb.gen = jb.gen /\ i.pc = "read" /\ i.at = 0 /\ i.rows = <<>>
        /\ i.from = "azure"
    BY <1>1 DEF JobState, NoImport
  <2>3. \A p \in Providers : Whole(p, jb.gen, file[p])
    <3>1. \A p \in Providers : fetch[j][p].pc = "ok"
      BY <1>4 DEF Fetched
    <3> QED BY <1>1, <3>1 DEF FetcherOK
  <2> HIDE DEF nb, i
  <2>4. ReadSoFar(i, file[i.from])
    BY <2>2, ReadNothing, NothingOK
  <2>5. \A p \in Providers : FetcherOK(p, nb, fetch'[j][p], file[p])
    BY <2>2 DEF FetcherOK
  <2>6. CrewOK(nb, fetch'[j]["aws"], file["aws"], worker'[j])
    BY <1>2, <2>2 DEF CrewOK
  <2>7. ImportOK(nb, i, file)
    BY <1>1, <2>2, <2>3, <2>4 DEF ImportOK
  <2> QED BY <1>1, <1>2, <2>1, <2>5, <2>6, <2>7, JobFrame
<1> QED BY <1>3, <1>4 DEF EndFetch

LEMMA HeaderStep ==
    ASSUME TypeInv, WholeInv, NEW j \in Jobs, ReadHeader(j)
    PROVE  WholeInv'
<1> DEFINE i == import[j]
           lines == file[i.from]
<1>1. /\ i.pc = "read" /\ i.at = 0 /\ i \in ImportState /\ ImportOK(job[j], i, file)
      /\ lines \in Seq(Text) /\ i.from \in Providers
  BY DEF ReadHeader, Reading, WholeInv, TypeInv, ImportState
<1>2. CASE EndImport(j) /\ UNCHANGED <<up, fetches, file, table, fetch, worker>>
  BY <1>1, <1>2, ImportFrame
<1>3. CASE /\ lines # <<>> /\ import' = [import EXCEPT ![j].at = 1]
           /\ UNCHANGED <<up, fetches, file, table, job, fetch, worker>>
  <2> DEFINE g == [i EXCEPT !.at = 1]
  <2>1. /\ g.pc = "read" /\ g.at = 1 /\ g.rows = i.rows /\ g.from = i.from
        /\ import' = [import EXCEPT ![j] = g]
    BY <1>1, <1>3 DEF ImportState
  <2>2. 1 <= Len(lines)
    BY <1>1, <1>3, EmptySeq
  <2> HIDE DEF g, lines
  <2>3. ReadSoFar(i, lines) => ReadSoFar(g, lines)
    BY <1>1, <2>1, <2>2 DEF ReadSoFar
  <2>4. ImportOK(job[j], g, file)
    BY <1>1, <2>1, <2>3 DEF ImportOK, lines
  <2> QED BY <1>1, <1>3, <2>1, <2>4, ImportFrame
<1> QED BY <1>2, <1>3, LoseStep DEF ReadHeader

LEMMA LineStep ==
    ASSUME TypeInv, WholeInv, NEW j \in Jobs, ReadLine(j)
    PROVE  WholeInv'
<1> DEFINE i == import[j]
           lines == file[i.from]
           line == lines[i.at + 1]
           row == [line EXCEPT !.torn = FALSE]
           jb == job[j]
<1>1. /\ i.pc = "read" /\ i.at > 0 /\ i \in ImportState /\ ImportOK(jb, i, file)
      /\ lines \in Seq(Text) /\ i.from \in Providers /\ i.at \in Nat /\ i.rows \in Seq(Line)
      /\ UNCHANGED <<up, fetches, file, table, fetch, worker>>
      /\ jb \in JobState
  BY DEF ReadLine, Reading, WholeInv, TypeInv, ImportState
<1>2. jb.kind = "nightly" =>
         /\ jb.gen \in 1 .. MaxFetches /\ jb.pc = "import"
         /\ Whole(i.from, jb.gen, lines) /\ ReadSoFar(i, lines)
  <2>1. jb.gen \in 0 .. MaxFetches /\ MaxFetches \in Nat
    BY <1>1, PriceAssumption DEF JobState
  <2> HIDE DEF jb, i
  <2>2. jb.kind = "nightly" => /\ jb.gen # 0 /\ jb.pc = "import"
                               /\ Whole(i.from, jb.gen, lines) /\ ReadSoFar(i, lines)
    BY <1>1 DEF ImportOK
  <2> QED BY <2>1, <2>2
<1>3. CASE EndImport(j)
  BY <1>1, <1>3, ImportFrame
<1>4. CASE /\ i.at < Len(lines) /\ line \notin {Header, Hole}
           /\ import' = [import EXCEPT ![j].at = @ + 1, ![j].rows = Append(@, row)]
           /\ UNCHANGED job
  <2> DEFINE at == i.at + 1
             rows == Append(i.rows, row)
             g == [i EXCEPT !.at = at, !.rows = rows]
  <2>1. /\ import' = [import EXCEPT ![j] = g]
        /\ g.pc = "read" /\ g.at = at /\ g.rows = rows /\ g.from = i.from
    <3>1. import' = [import EXCEPT ![j] = g]
      BY <1>1, <1>4 DEF TypeInv
    <3>2. g.pc = "read" /\ g.at = at /\ g.rows = rows /\ g.from = i.from
      <4> HIDE DEF at, rows
      <4> QED BY <1>1 DEF ImportState
    <3> QED BY <3>1, <3>2
  <2> HIDE DEF g
  <2>2. ASSUME jb.kind = "nightly" PROVE ReadSoFar(g, lines)
    <3>1. /\ i.at <= Len(lines) /\ Len(i.rows) = i.at - 1
          /\ \A n \in 1 .. Len(i.rows) : i.rows[n] = lines[n + 1]
          /\ i.at < Len(lines) /\ Len(lines) \in Nat
      BY <1>1, <1>2, <1>4, <2>2 DEF ReadSoFar
    <3>2. row = line
      <4>1. at \in 2 .. Len(lines)
        BY <1>1, <3>1
      <4>2. PICK n \in 1 .. Wanted : line = Rec(jb.gen, n)
        <5> HIDE DEF lines, jb
        <5> QED BY <1>2, <2>2, <4>1 DEF Whole
      <4>3. n \in Records /\ [Rec(jb.gen, n) EXCEPT !.torn = FALSE] = Rec(jb.gen, n)
        BY <1>2, <2>2, LinesOK, WantedOK
      <4> HIDE DEF line
      <4> QED BY <4>2, <4>3
    <3> HIDE DEF lines, row, line
    <3>3. Len(rows) = at - 1 /\ at <= Len(lines) /\ at # 0
      BY <1>1, <3>1
    <3>4. \A n \in 1 .. Len(rows) : rows[n] = lines[n + 1]
      <4> TAKE n \in 1 .. Len(rows)
      <4>1. CASE n \in 1 .. Len(i.rows)
        BY <1>1, <3>1, <4>1
      <4>2. CASE n = Len(i.rows) + 1
        <5>1. rows[n] = row /\ n + 1 = at
          BY <1>1, <3>1, <4>2
        <5>2. line = lines[at]
          BY DEF line
        <5> QED BY <3>2, <5>1, <5>2
      <4> QED BY <1>1, <3>3, <4>1, <4>2
    <3> QED BY <2>1, <3>3, <3>4 DEF ReadSoFar
  <2>3. ImportOK(jb, g, file)
    <3> HIDE DEF jb, at, rows
    <3> QED BY <1>1, <2>1, <2>2 DEF ImportOK
  <2> QED BY <1>1, <1>4, <2>1, <2>3, ImportFrame
<1>5. CASE /\ i.at >= Len(lines)
           /\ import' = [import EXCEPT ![j].pc = "commit",
                           ![j].rows = Priced(IF i.from = "azure" /\ @ # <<>> THEN Front(@) ELSE @)]
           /\ UNCHANGED job
  <2> DEFINE rows == Priced(IF i.from = "azure" /\ i.rows # <<>> THEN Front(i.rows) ELSE i.rows)
             g == [i EXCEPT !.pc = "commit", !.rows = rows]
  <2>1. /\ import' = [import EXCEPT ![j] = g]
        /\ g.pc = "commit" /\ g.rows = rows /\ g.from = i.from
    <3>1. import' = [import EXCEPT ![j] = g]
      BY <1>1, <1>5 DEF TypeInv
    <3>2. g.pc = "commit" /\ g.rows = rows /\ g.from = i.from
      <4> HIDE DEF rows
      <4> QED BY <1>1 DEF ImportState
    <3> QED BY <3>1, <3>2
  <2> HIDE DEF g
  <2>2. ASSUME jb.kind = "nightly"
        PROVE  /\ Range(rows) = {r \in Expected(i.from, jb.gen) : r.n \notin ZeroPrice}
               /\ i.from = "azure" => Ascending(rows)
    <3> HIDE DEF i, lines, jb
    <3> QED BY <1>1, <1>2, <1>5, <2>2, RowsOK DEF i, lines
  <2>3. ImportOK(jb, g, file)
    <3> HIDE DEF jb, rows
    <3> QED BY <1>1, <2>1, <2>2 DEF ImportOK
  <2> QED BY <1>1, <1>5, <2>1, <2>3, ImportFrame
<1> QED BY <1>3, <1>4, <1>5 DEF ReadLine

LEMMA CommitStep ==
    ASSUME TypeInv, WholeInv, NEW j \in Jobs, Commit(j)
    PROVE  WholeInv'
<1> DEFINE i == import[j]
           jb == job[j]
<1>1. i.pc = "commit" /\ ImportOK(jb, i, file) /\ UNCHANGED <<file, fetch, worker>>
  BY DEF Commit, WholeInv
<1>2. CASE EndImport(j)
  BY <1>1, <1>2, ImportFrame
<1>3. CASE /\ import' = [import EXCEPT ![j] = [NoImport EXCEPT !.pc = "read", !.from = "aws"]]
           /\ UNCHANGED job
  <2> DEFINE g == [NoImport EXCEPT !.pc = "read", !.from = "aws"]
  <2>1. g.pc = "read" /\ g.at = 0 /\ g.rows = <<>> /\ g.from = "aws"
    BY DEF NoImport
  <2>2. import' = [import EXCEPT ![j] = g]
    BY <1>3
  <2> HIDE DEF g
  <2>3. ReadSoFar(g, file[g.from])
    BY <2>1, ReadNothing, NothingOK
  <2> HIDE DEF jb
  <2>4. ImportOK(jb, g, file)
    BY <1>1, <2>1, <2>3 DEF ImportOK
  <2> QED BY <1>1, <1>3, <2>2, <2>4, ImportFrame DEF jb
<1> QED BY <1>2, <1>3 DEF Commit

LEMMA WholeInit == Init => WholeInv
<1> SUFFICES ASSUME Init, NEW j \in Jobs
             PROVE  /\ \A p \in Providers : FetcherOK(p, job[j], fetch[j][p], file[p])
                    /\ CrewOK(job[j], fetch[j]["aws"], file["aws"], worker[j])
                    /\ ImportOK(job[j], import[j], file)
  BY DEF WholeInv
<1>1. job[j] = NoJob /\ import[j] = NoImport /\ \A w \in Workers : worker[j][w] = Gone
  BY DEF Init
<1>2. ImportOK(NoJob, NoImport, file)
  BY NothingOK DEF ImportOK, NoImport
<1> QED BY <1>1, <1>2, NothingOK DEF FetcherOK, CrewOK

LEMMA WholeStep ==
    ASSUME TypeInv, WholeInv, FetchesApart, [Next]_vars
    PROVE  WholeInv'
<1>1. CASE UNCHANGED vars
  BY <1>1 DEF vars, WholeInv
<1>2. CASE Restart
  <2>1. CASE UNCHANGED <<fetches, file, table, job, fetch, worker, import>>
    BY <2>1 DEF WholeInv
  <2> QED BY <1>2, <2>1, LoseStep DEF Restart
<1>3. ASSUME NEW j \in Jobs, Step(j) PROVE WholeInv'
  <2>1. CASE \E p \in Providers : CreateFile(j, p)
    BY <2>1, CreateStep
  <2>2. CASE AzurePage(j) \/ AzureRecord(j)
    BY <2>2, AzureStep
  <2>3. CASE AwsPage(j) \/ AwsSend(j) \/ AwsClose(j)
    BY <2>3, AwsPageStep, AwsSendStep, AwsCloseStep
  <2>4. CASE \E w \in Workers : WorkerReceive(j, w) \/ WorkerWrite(j, w)
    BY <2>4, ReceiveStep, WorkerStep
  <2>5. CASE EndFetch(j)
    BY <2>5, EndFetchStep
  <2>6. CASE ReadHeader(j) \/ ReadLine(j) \/ Commit(j)
    BY <2>6, HeaderStep, LineStep, CommitStep
  <2> QED BY <1>3, <2>1, <2>2, <2>3, <2>4, <2>5, <2>6 DEF Step
<1> QED BY <1>1, <1>2, <1>3, StartStep DEF Next

LEMMA WholeIsLoaded == WholeInv => NightlyLoadsWhole
<1>1. ASSUME WholeInv, NEW j \in Jobs, job[j].kind = "nightly", import[j].pc = "commit"
      PROVE  Range(import[j].rows) = {r \in Expected(import[j].from, job[j].gen) : r.n \notin ZeroPrice}
  <2>1. ImportOK(job[j], import[j], file)
    BY <1>1 DEF WholeInv
  <2> QED BY <1>1, <2>1 DEF ImportOK
<1> QED BY <1>1 DEF NightlyLoadsWhole

LEMMA WholeInvariant == Spec /\ []FetchesApart => []WholeInv
BY WholeInit, WholeStep, TypeInvariant, PTL DEF Spec

\* What the nightly job commits are all records of its own fetch, less the last of Azure
\* and those without a price: through any interleaving of its fetchers, its workers and
\* imports started by hand, with any failures and restarts, as long as no other fetch
\* writes the same files.
THEOREM NightlyWhole == Spec /\ []FetchesApart => []NightlyLoadsWhole
BY WholeInvariant, WholeIsLoaded, PTL

(***************************************************************************)
(* The price that stays.                                                   *)
(***************************************************************************)

\* Only a commit changes a table, and only its own importer leaves it.
LEMMA OnlyCommitWrites ==
    ASSUME TypeInv, [Next]_vars, NEW j \in Jobs, import[j].pc = "commit", import'[j].pc # "commit",
           table' # table
    PROVE  table' = [table EXCEPT ![import[j].from] =
                        Upserted(table[import[j].from], import[j].from, import[j].rows)]
<1>1. PICK k \in Jobs : Commit(k)
  <2>1. ~(UNCHANGED vars) /\ ~Restart
    BY DEF vars, Restart, Lose
  <2>2. ASSUME NEW k \in Jobs,
               \/ \E p \in Providers : CreateFile(k, p)
               \/ AzurePage(k) \/ AzureRecord(k) \/ AwsPage(k) \/ AwsSend(k) \/ AwsClose(k)
               \/ \E w \in Workers : WorkerReceive(k, w) \/ WorkerWrite(k, w)
        PROVE  FALSE
    BY <2>2 DEF CreateFile, AzurePage, AzureRecord, AwsPage, AwsSend, AwsClose,
                WorkerReceive, WorkerWrite
  <2>3. ASSUME NEW k \in Jobs, EndFetch(k) \/ StartImport(k) \/ (\E kind : StartFetch(k, kind))
        PROVE  FALSE
    BY <2>3 DEF EndFetch, StartImport, StartFetch
  <2>4. ASSUME NEW k \in Jobs, ReadHeader(k) \/ ReadLine(k) PROVE FALSE
    BY <2>4 DEF ReadHeader, ReadLine, Lose
  <2> QED BY <2>1, <2>2, <2>3, <2>4 DEF Next, Step
<1>2. \A i : import' = [import EXCEPT ![k] = i] => k = j
  BY DEF TypeInv
<1>3. k = j
  <2>1. EndImport(k) => k = j
    BY <1>2 DEF EndImport
  <2> QED BY <1>1, <1>2, <2>1 DEF Commit
<1> QED BY <1>1, <1>3 DEF Commit

\* After an import has committed, its provider's table has of its rows with one key the
\* last: for any jobs, however the rows fall into batches, and whatever was there.
THEOREM LastRowStays == Spec => LastOfKey
<1> DEFINE Keeps ==
      \A j \in Jobs :
         LET p == import[j].from
             rows == import[j].rows
         IN import[j].pc = "commit" /\ import'[j].pc # "commit" /\ table' # table =>
              \A i \in DOMAIN rows :
                (\A k \in DOMAIN rows : Key(p, rows[k].n) = Key(p, rows[i].n) => k <= i)
                  => table'[p][Key(p, rows[i].n)] = rows[i]
<1>1. TypeInv /\ [Next]_vars => [Keeps]_vars
  <2> SUFFICES ASSUME TypeInv, [Next]_vars, NEW j \in Jobs, import[j].pc = "commit",
                      import'[j].pc # "commit", table' # table,
                      NEW i \in DOMAIN import[j].rows,
                      \A k \in DOMAIN import[j].rows :
                         Key(import[j].from, import[j].rows[k].n)
                           = Key(import[j].from, import[j].rows[i].n) => k <= i
               PROVE  table'[import[j].from][Key(import[j].from, import[j].rows[i].n)]
                        = import[j].rows[i]
    OBVIOUS
  <2> DEFINE p == import[j].from
             rows == import[j].rows
             t == table[p]
             u == Upserted(t, p, rows)
  <2>1. table' = [table EXCEPT ![p] = u]
    BY OnlyCommitWrites
  <2>2. /\ p \in Providers /\ rows \in Seq(Line) /\ \A key \in DOMAIN t : t[key] \in Line
        /\ table = [q \in Providers |-> table[q]]
    BY DEF TypeInv, ImportState
  <2> HIDE DEF u, t
  <2>3. table'[p] = u
    BY <2>1, <2>2
  <2> HIDE DEF p, rows
  <2>4. DOMAIN rows = 1 .. Len(rows)
    BY <2>2
  <2>5. \A x \in 1 .. Len(rows) :
           (\A k \in 1 .. Len(rows) : Key(p, rows[k].n) = Key(p, rows[x].n) => k <= x)
             => u[Key(p, rows[x].n)] = rows[x]
    BY <2>2, UpsertedOK DEF u
  <2>6. i \in 1 .. Len(rows)
        /\ \A k \in 1 .. Len(rows) : Key(p, rows[k].n) = Key(p, rows[i].n) => k <= i
    BY <2>4 DEF p, rows
  <2>7. table'[p][Key(p, rows[i].n)] = rows[i]
    BY <2>3, <2>5, <2>6
  <2> QED BY <2>7 DEF p, rows
<1>2. LastOfKey <=> [][Keeps]_vars
  BY DEF LastOfKey
<1> HIDE DEF Keeps
<1> QED BY <1>1, <1>2, TypeInvariant, PTL DEF Spec

\* Only a commit takes an importer from Azure to AWS.
LEMMA OnlyCommitMoves ==
    ASSUME TypeInv, [Next]_vars, NEW j \in Jobs, import[j].from = "azure", import'[j].from = "aws"
    PROVE  /\ import[j].pc = "commit"
           /\ table'["azure"] = Upserted(table["azure"], "azure", import[j].rows)
<1>1. NoImport.from = "azure" /\ [NoImport EXCEPT !.pc = "read"].from = "azure" /\ "azure" # "aws"
  BY DEF NoImport
<1>2. \A k \in Jobs : import[k] \in ImportState
  BY DEF TypeInv
<1>3. import'[j] # import[j]
  OBVIOUS
<1>4. ~Lose
  BY <1>1 DEF Lose
<1>5. ASSUME NEW k \in Jobs, EndImport(k) PROVE FALSE
  BY <1>1, <1>5 DEF EndImport, TypeInv
<1>6. ASSUME NEW k \in Jobs, NEW i, i.from = "azure" \/ i.from = import[k].from,
             import' = [import EXCEPT ![k] = i]
      PROVE  FALSE
  BY <1>6 DEF TypeInv
<1>7. PICK k \in Jobs : ReadHeader(k) \/ ReadLine(k) \/ Commit(k)
  <2>1. ~(UNCHANGED vars) /\ ~Restart
    BY <1>3, <1>4 DEF vars, Restart
  <2>2. ASSUME NEW k \in Jobs,
               \/ \E p \in Providers : CreateFile(k, p)
               \/ AzurePage(k) \/ AzureRecord(k) \/ AwsPage(k) \/ AwsSend(k) \/ AwsClose(k)
               \/ \E w \in Workers : WorkerReceive(k, w) \/ WorkerWrite(k, w)
        PROVE  FALSE
    BY <1>3, <2>2 DEF CreateFile, AzurePage, AzureRecord, AwsPage, AwsSend, AwsClose,
                      WorkerReceive, WorkerWrite
  <2>3. ASSUME NEW k \in Jobs, EndFetch(k) \/ StartImport(k) PROVE FALSE
    BY <1>1, <1>3, <1>6, <2>3 DEF EndFetch, StartImport
  <2>4. ASSUME NEW k \in Jobs, NEW kind, StartFetch(k, kind) PROVE FALSE
    BY <1>3, <2>4 DEF StartFetch
  <2> QED BY <2>1, <2>2, <2>3, <2>4 DEF Next, Step
<1>8. ~ReadHeader(k)
  <2>1. [import[k] EXCEPT !.at = 1].from = import[k].from
    BY <1>2 DEF ImportState
  <2>2. ~(import' = [import EXCEPT ![k].at = 1])
    BY <1>6, <2>1
  <2> QED BY <1>4, <1>5, <2>2 DEF ReadHeader
<1>9. ~ReadLine(k)
  <2> DEFINE i == import[k]
  <2>1. \A at, rows : [i EXCEPT !.at = at, !.rows = rows].from = i.from
    BY <1>2 DEF ImportState
  <2>2. \A pc, rows : [i EXCEPT !.pc = pc, !.rows = rows].from = i.from
    BY <1>2 DEF ImportState
  <2> DEFINE line == file[i.from][i.at + 1]
             more == Append(i.rows, [line EXCEPT !.torn = FALSE])
             all == Priced(IF i.from = "azure" /\ i.rows # <<>> THEN Front(i.rows) ELSE i.rows)
             at == i.at + 1
  <2>3. ~(import' = [import EXCEPT ![k] = [i EXCEPT !.at = at, !.rows = more]])
    <3> DEFINE g == [i EXCEPT !.at = at, !.rows = more]
    <3>1. g.from = import[k].from
      <4> HIDE DEF at, more
      <4> QED BY <2>1
    <3> HIDE DEF g
    <3>2. ~(import' = [import EXCEPT ![k] = g])
      BY <1>6, <3>1
    <3> QED BY <3>2 DEF g
  <2>4. ~(import' = [import EXCEPT ![k] = [i EXCEPT !.pc = "commit", !.rows = all]])
    <3> DEFINE g == [i EXCEPT !.pc = "commit", !.rows = all]
    <3>1. g.from = import[k].from
      <4> HIDE DEF all
      <4> QED BY <2>2
    <3> HIDE DEF g
    <3>2. ~(import' = [import EXCEPT ![k] = g])
      BY <1>6, <3>1
    <3> QED BY <3>2 DEF g
  <2> QED BY <1>5, <2>3, <2>4 DEF ReadLine
<1>10. Commit(k)
  BY <1>7, <1>8, <1>9
<1>11. k = j /\ import[k].from = "azure" /\ import[k].pc = "commit"
       /\ table' = [table EXCEPT !["azure"] = Upserted(table["azure"], "azure", import[k].rows)]
  BY <1>3, <1>5, <1>10 DEF Commit, TypeInv
<1>12. table = [p \in Providers |-> table[p]] /\ "azure" \in Providers
  BY NothingOK DEF TypeInv
<1> QED BY <1>11, <1>12

\* After the nightly job's import of Azure no key has a record of which a later one with
\* the key was to be loaded, as long as no other fetch writes the same files: for any
\* keys, prices of zero and size of batch.
THEOREM LastPriceStays == Spec /\ []FetchesApart => AzureKeepsLast
<1> DEFINE Keeps ==
      \A j \in Jobs :
         job[j].kind = "nightly" /\ import[j].from = "azure" /\ import'[j].from = "aws" =>
           \A r, s \in Expected("azure", job[j].gen) :
             /\ {r.n, s.n} \cap ZeroPrice = {} /\ r.n < s.n
             /\ Key("azure", r.n) = Key("azure", s.n)
             => table'["azure"][Key("azure", r.n)] # r
<1>1. TypeInv /\ WholeInv /\ [Next]_vars => [Keeps]_vars
  <2> SUFFICES ASSUME TypeInv, WholeInv, [Next]_vars, NEW j \in Jobs,
                      job[j].kind = "nightly", import[j].from = "azure", import'[j].from = "aws",
                      NEW r \in Expected("azure", job[j].gen), NEW s \in Expected("azure", job[j].gen),
                      {r.n, s.n} \cap ZeroPrice = {}, r.n < s.n,
                      Key("azure", r.n) = Key("azure", s.n)
               PROVE  table'["azure"][Key("azure", r.n)] # r
    OBVIOUS
  <2> DEFINE rows == import[j].rows
             u == Upserted(table["azure"], "azure", rows)
  <2>1. import[j].pc = "commit" /\ table'["azure"] = u
    BY OnlyCommitMoves
  <2>2. /\ Range(rows) = {x \in Expected("azure", job[j].gen) : x.n \notin ZeroPrice}
        /\ Ascending(rows)
    <3>1. ImportOK(job[j], import[j], file)
      BY DEF WholeInv
    <3> QED BY <2>1, <3>1 DEF ImportOK
  <2>3. rows \in Seq(Line) /\ \A key \in DOMAIN table["azure"] : table["azure"][key] \in Line
    BY NothingOK DEF TypeInv, ImportState
  <2> HIDE DEF rows
  <2>4. r \in Range(rows) /\ s \in Range(rows)
    BY <2>2
  <2>5. PICK b \in 1 .. Len(rows) : rows[b] = s
    BY <2>3, <2>4 DEF Range
  <2> DEFINE key(i) == Key("azure", rows[i].n)
             like == {i \in 1 .. Len(rows) : key(i) = key(b)}
  <2>6. PICK c \in like : \A i \in like : i <= c
    <3>1. Len(rows) \in Nat /\ like \in SUBSET (1 .. Len(rows)) /\ like # {}
      BY <2>3
    <3> HIDE DEF like
    <3> QED BY <3>1, GreatestOK
  <2>7. u[key(c)] = rows[c]
    <3>1. \A x \in 1 .. Len(rows) :
             (\A k \in 1 .. Len(rows) : Key("azure", rows[k].n) = Key("azure", rows[x].n) => k <= x)
               => u[Key("azure", rows[x].n)] = rows[x]
      BY <2>3, UpsertedOK
    <3> HIDE DEF u
    <3> QED BY <2>6, <3>1
  <2>8. rows[c] # r
    <3>1. rows[b] \in Line /\ rows[c] \in Line /\ r \in Line
      BY <2>3, <2>4, <2>6 DEF Range
    <3>2. \A x \in Line : x.n \in Nat
      BY CountOK DEF Line, Records
    <3>3. b = c \/ b < c
      BY <2>6
    <3>4. s.n <= rows[c].n
      BY <2>2, <2>5, <2>6, <3>1, <3>2, <3>3 DEF Ascending
    <3>5. r.n < rows[c].n
      BY <2>4, <2>5, <3>1, <3>2, <3>4
    <3> QED BY <3>1, <3>2, <3>5
  <2>9. key(c) = Key("azure", r.n)
    BY <2>5, <2>6
  <2> HIDE DEF u
  <2> QED BY <2>1, <2>7, <2>8, <2>9
<1>2. AzureKeepsLast <=> [][Keeps]_vars
  BY DEF AzureKeepsLast
<1> HIDE DEF Keeps
<1> QED BY <1>1, <1>2, WholeInvariant, TypeInvariant, PTL DEF Spec
=============================================================================
