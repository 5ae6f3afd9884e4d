------------------------- MODULE StorageQueueProofs -------------------------
(***************************************************************************)
(* Proofs about StorageQueue for any readers, file size and number of      *)
(* writes and faults.                                                      *)
(***************************************************************************)
EXTENDS StorageQueue, WellFoundedInduction, TLAPS

-----------------------------------------------------------------------------
(***************************************************************************)
(* The inductive invariant.                                                *)
(***************************************************************************)

\* The data files d are well-formed: in each, appended entries under a legal name.
DataOK(d) == Files(d) \subseteq Ids /\ \A f \in Files(d) : d[f] \in Seq(Entry)

\* The ids of the records that can be read from one file end before the next file
\* starts, and those of all files before n.
Layout(d, n) ==
    /\ \A f \in Files(d) : f + ValidRecords(d, f) <= n
    /\ \A f, g \in Files(d) : f < g => f + ValidRecords(d, f) <= g

\* What uploaders were given came from files that were followed by another one,
\* and whatever can be read under the same id is the same record.
Uploaded(d, U) ==
    \A p \in U :
        /\ \E f \in Files(d) : p[1] < f
        /\ \A f \in Files(d) : \A i \in 1..ValidRecords(d, f) : p[1] = f + i - 1 => p[2] = d[f][i].rec

\* A reader that is at a record or at the end of those that can be read.
AtRecord(d, x) == x.seq = x.cur + x.pos /\ x.pos <= ValidRecords(d, x.cur)

\* An active reader has closed files only.  It starts before the file that is
\* written, in the first of its files, and no other starts at or before its first id;
\* once it has begun, its position in the file and its sequencing id agree.
GoodReader(d, x) ==
    /\ x.files \subseteq Files(d) /\ LastFile(d) \notin x.files
    /\ x.cur \in x.files \cup {NoFile}
    /\ ~x.begun => x.cur # NoFile /\ x.pos = 0 /\ x.seq <= LastFile(d)
    /\ ~x.begun => \A g \in x.files : x.cur <= g /\ (g > x.cur => g > x.seq)
    /\ x.begun /\ x.cur # NoFile => AtRecord(d, x)

\* Every id below n was confirmed, or names nothing that is there.
Passed(d, n, c) == n <= c + 1 \/ \A f \in Files(d) : n <= f

CountsInv ==
    /\ writes \in 0..MaxWrites /\ faults \in Nat
    /\ next <= writes /\ (writing # Unset => next < writes)
    /\ sent \in -1..writes /\ confirmed \in Int /\ confirmed <= sent

\* Before the first file there is nothing.
StartInv == Files(data) = {} => next = 0 /\ first = 0 /\ writing = Unset

ReadersInv == \A r \in Readers : reader[r] # Idle => GoodReader(data, reader[r])

IInv ==
    /\ TypeOK
    /\ CountsInv
    /\ StartInv
    /\ Layout(data, next)
    /\ Uploaded(data, uploads)
    /\ UploadsAgree
    /\ ReadersInv
    /\ Passed(data, first, confirmed)

-----------------------------------------------------------------------------
(***************************************************************************)
(* Lowest and highest elements, and the files.                             *)
(***************************************************************************)

\* A nonempty set of numbers has a least element, by well-foundedness of <.
LEMMA LowestIs ==
    ASSUME NEW S \in SUBSET Nat, S # {}
    PROVE  /\ LowestOf(S) \in S
           /\ \A y \in S : LowestOf(S) <= y
<1>1. IsWellFoundedOn(OpToRel(<, Nat), Nat)
    BY NatLessThanWellFounded
<1>2. PICK m \in S : \A y \in S : <<y, m>> \notin OpToRel(<, Nat)
    BY <1>1, WFMin, Zenon
<1>3. \A y \in S : m <= y
    <2> SUFFICES ASSUME NEW y \in S, y < m
                 PROVE  FALSE
        OBVIOUS
    <2>1. <<y, m>> \in OpToRel(<, Nat)
        BY Zenon DEF OpToRel
    <2> QED BY <1>2, <2>1
<1>4. \E x \in S : \A y \in S : x <= y
    BY <1>3
<1> QED BY <1>4, Zenon DEF LowestOf

\* A nonempty bounded set has a greatest one: count down from the bound.
LEMMA HighestIs ==
    ASSUME NEW n \in Nat, NEW S \in SUBSET (0..n), S # {}
    PROVE  /\ HighestOf(S) \in S
           /\ \A y \in S : HighestOf(S) >= y
<1> DEFINE D == {k \in 0..n : n - k \in S}
<1>1. D \in SUBSET Nat /\ D # {}
    <2>1. PICK x \in S : x \in 0..n
        OBVIOUS
    <2>2. n - x \in 0..n /\ n - (n - x) = x
        BY <2>1
    <2>3. n - x \in D
        BY <2>1, <2>2
    <2>4. D \subseteq Nat
        OBVIOUS
    <2> QED BY <2>3, <2>4
<1>2. LowestOf(D) \in D /\ \A y \in D : LowestOf(D) <= y
    <2> HIDE DEF D
    <2> QED BY <1>1, LowestIs
<1> DEFINE x == n - LowestOf(D)
<1>3. x \in S /\ LowestOf(D) \in 0..n
    BY <1>2
<1>4. \A y \in S : x >= y
    <2> TAKE y \in S
    <2>1. n - y \in D
        <3>1. y \in 0..n
            OBVIOUS
        <3>2. n - y \in 0..n /\ n - (n - y) = y
            BY <3>1
        <3> QED BY <3>2
    <2>2. LowestOf(D) <= n - y
        BY <1>2, <2>1
    <2> QED BY <1>3, <2>2
<1>5. \E z \in S : \A y \in S : z >= y
    BY <1>3, <1>4
<1> QED BY <1>5, Zenon DEF HighestOf

\* Why LastFile() is what it is called.
LEMMA LastFileIs ==
    ASSUME NEW d, DataOK(d), Files(d) # {}
    PROVE  /\ LastFile(d) \in Files(d) /\ LastFile(d) \in Nat
           /\ \A f \in Files(d) : f \in Nat /\ f <= LastFile(d)
<1>1. MaxWrites + 1 \in Nat /\ Ids = 0..(MaxWrites + 1)
    BY StorageQueueAssumption DEF Ids
<1>2. Files(d) \in SUBSET (0..(MaxWrites + 1))
    BY <1>1 DEF DataOK
<1>3. /\ HighestOf(Files(d)) \in Files(d)
      /\ \A y \in Files(d) : HighestOf(Files(d)) >= y
    BY <1>1, <1>2, HighestIs
<1> QED BY <1>2, <1>3 DEF LastFile

\* What ScanLastFile() and EnsureBlob() can read of a file.
LEMMA ValidIs ==
    ASSUME NEW d, DataOK(d), NEW f \in Files(d)
    PROVE  /\ f \in Nat /\ Len(d[f]) \in Nat
           /\ ValidRecords(d, f) \in 0..Len(d[f])
           /\ \A i \in 1..ValidRecords(d, f) :
                 d[f][i].rec \in Records /\ d[f][i].id = f + i - 1
           /\ \A k \in 0..Len(d[f]) :
                 (\A i \in 1..k : d[f][i].rec \in Records /\ d[f][i].id = f + i - 1)
                     => k <= ValidRecords(d, f)
<1> DEFINE K == {k \in 0..Len(d[f]) : \A i \in 1..k : d[f][i].rec \in Records /\ d[f][i].id = f + i - 1}
<1>1. f \in Nat
    BY DEF DataOK, Ids
<1>2. Len(d[f]) \in Nat
    BY DEF DataOK
<1>3. K \in SUBSET (0..Len(d[f])) /\ 0 \in K
    BY <1>2
<1>4. HighestOf(K) \in K /\ \A y \in K : HighestOf(K) >= y
    <2> HIDE DEF K
    <2> QED BY <1>2, <1>3, HighestIs
<1>5. ValidRecords(d, f) = HighestOf(K)
    BY DEF ValidRecords
<1> HIDE DEF ValidRecords
<1>6. ValidRecords(d, f) \in K /\ \A y \in K : ValidRecords(d, f) >= y
    BY <1>4, <1>5
<1> QED BY <1>1, <1>2, <1>6

\* It only depends on what is in the file.
LEMMA ValidSame ==
    ASSUME NEW d, NEW e, NEW f, d[f] = e[f]
    PROVE  ValidRecords(d, f) = ValidRecords(e, f)
BY DEF ValidRecords

\* A pair is readable when some valid record of some file holds it.
LEMMA ReadableIs ==
    ASSUME NEW d
    PROVE  \A q : q \in Readable(d) <=>
              \E f \in Files(d) : \E i \in 1..ValidRecords(d, f) : q = <<d[f][i].id, d[f][i].rec>>
<1> DEFINE R(f) == {<<d[f][i].id, d[f][i].rec>> : i \in 1..ValidRecords(d, f)}
<1>1. Readable(d) = UNION {R(f) : f \in Files(d)}
    BY DEF Readable
<1>2. \A q, f : q \in R(f) <=> \E i \in 1..ValidRecords(d, f) : q = <<d[f][i].id, d[f][i].rec>>
    OBVIOUS
<1> HIDE DEF R
<1>3. \A q : q \in Readable(d) <=> \E f \in Files(d) : q \in R(f)
    BY <1>1
<1> QED BY <1>2, <1>3, Zenon

-----------------------------------------------------------------------------
(***************************************************************************)
(* What happens to the files.                                              *)
(***************************************************************************)

\* A new file for the next id comes last, and nothing is read from it.
LEMMA OpenKeeps ==
    ASSUME NEW d, NEW n \in Ids, DataOK(d), Layout(d, n), n \notin Files(d), NEW e, e = With(d, n, <<>>)
    PROVE  /\ DataOK(e) /\ Layout(e, n)
           /\ Files(e) = Files(d) \cup {n} /\ LastFile(e) = n
           /\ ValidRecords(e, n) = 0
           /\ \A f \in Files(d) : /\ f < n /\ e[f] = d[f]
                                  /\ ValidRecords(e, f) = ValidRecords(d, f)
           /\ e[n] = <<>>
<1>1. Files(e) = Files(d) \cup {n} /\ e[n] = <<>> /\ \A f \in Files(d) : e[f] = d[f]
    BY DEF With, Files
<1>2. DataOK(e)
    <2>1. <<>> \in Seq(Entry)
        OBVIOUS
    <2> QED BY <1>1, <2>1, Zenon DEF DataOK
<1>3. \A f \in Files(d) : ValidRecords(e, f) = ValidRecords(d, f)
    BY <1>1, ValidSame
<1>4. ValidRecords(e, n) = 0
    BY <1>1, <1>2, ValidIs
<1>5. n \in Nat
    BY DEF Ids
<1>6. \A f \in Files(d) : f < n /\ f \in Nat /\ ValidRecords(d, f) \in Nat
    <2> TAKE f \in Files(d)
    <2>1. f \in Nat /\ ValidRecords(d, f) \in Nat
        BY ValidIs
    <2>2. f + ValidRecords(d, f) <= n /\ f # n
        BY DEF Layout
    <2> QED BY <2>1, <2>2, <1>5
<1>7. LastFile(e) = n
    <2>1. /\ LastFile(e) \in Files(e) /\ LastFile(e) \in Nat
          /\ n <= LastFile(e)
        BY <1>1, <1>2, LastFileIs
    <2>2. LastFile(e) \in Files(d) => LastFile(e) < n
        BY <1>6
    <2> QED BY <2>1, <2>2, <1>1, <1>5
<1>8. Layout(e, n)
    <2>1. \A f \in Files(e) : f + ValidRecords(e, f) <= n
        BY <1>1, <1>3, <1>4, <1>5 DEF Layout
    <2>2. ASSUME NEW f \in Files(e), NEW g \in Files(e), f < g
          PROVE  f + ValidRecords(e, f) <= g
        <3>1. CASE g = n
            BY <2>1, <3>1
        <3>2. CASE g # n
            <4>1. g \in Files(d) /\ g < n
                BY <1>1, <1>6, <3>2
            <4>2. f \in Files(d)
                BY <1>1, <1>5, <1>6, <2>2, <4>1
            <4> QED BY <4>1, <4>2, <2>2, <1>3 DEF Layout
        <3> QED BY <3>1, <3>2
    <2> QED BY <2>1, <2>2 DEF Layout
<1> QED BY <1>1, <1>2, <1>3, <1>4, <1>6, <1>7, <1>8

\* Deleting files before the last one.
LEMMA WithoutKeeps ==
    ASSUME NEW d, NEW n, DataOK(d), Layout(d, n), Files(d) # {}, NEW S, LastFile(d) \notin S,
           NEW e, e = Without(d, S)
    PROVE  /\ DataOK(e) /\ Layout(e, n)
           /\ Files(e) = Files(d) \ S /\ LastFile(e) = LastFile(d) /\ LastFile(d) \in Files(e)
           /\ \A f \in Files(e) : e[f] = d[f] /\ ValidRecords(e, f) = ValidRecords(d, f)
<1>1. Files(e) = Files(d) \ S /\ \A f \in Files(e) : e[f] = d[f]
    BY DEF Without, Files
<1>2. DataOK(e)
    BY <1>1 DEF DataOK
<1>3. \A f \in Files(e) : ValidRecords(e, f) = ValidRecords(d, f)
    BY <1>1, ValidSame
<1>4. LastFile(d) \in Files(e) /\ LastFile(d) \in Nat /\ \A f \in Files(d) : f \in Nat /\ f <= LastFile(d)
    BY <1>1, LastFileIs
<1>5. LastFile(e) \in Files(e) /\ LastFile(e) \in Nat /\ LastFile(d) <= LastFile(e)
    BY <1>2, <1>4, LastFileIs
<1>6. LastFile(e) <= LastFile(d)
    BY <1>1, <1>4, <1>5
<1>7. LastFile(e) = LastFile(d)
    BY <1>4, <1>5, <1>6
<1>8. Layout(e, n)
    BY <1>1, <1>3 DEF Layout
<1> QED BY <1>1, <1>2, <1>3, <1>4, <1>7, <1>8

\* Appending a record with the next id, or part of one, to the last file.
LEMMA AppendKeeps ==
    ASSUME NEW d, NEW n \in Nat, DataOK(d), Layout(d, n), Files(d) # {},
           NEW s, s = <<>> \/ (\E en \in Entry : en.id = n /\ s = <<en>>), NEW e, e = AppendTo(d, s)
    PROVE  /\ DataOK(e) /\ Layout(e, n + 1)
           /\ Files(e) = Files(d) /\ LastFile(e) = LastFile(d)
           /\ \A f \in Files(d) : f # LastFile(d) => /\ e[f] = d[f]
                                                     /\ ValidRecords(e, f) = ValidRecords(d, f)
           /\ \A f \in Files(d) : /\ ValidRecords(d, f) <= ValidRecords(e, f)
                                  /\ \A i \in 1..ValidRecords(d, f) : e[f][i] = d[f][i]
<1> DEFINE L == LastFile(d)
           Old == d[L]
           V == ValidRecords(d, L)
           W == ValidRecords(e, L)
<1>1. L \in Files(d) /\ L \in Nat /\ \A f \in Files(d) : f \in Nat /\ f <= L
    BY LastFileIs
<1>2. Old \in Seq(Entry)
    BY <1>1 DEF DataOK
<1>3. Files(e) = Files(d) /\ LastFile(e) = L /\ e[L] = Old \o s /\ \A f \in Files(d) : f # L => e[f] = d[f]
    BY <1>1 DEF AppendTo, Files, LastFile
<1>4. \A f \in Files(d) : f # L => ValidRecords(e, f) = ValidRecords(d, f)
    BY <1>3, ValidSame
<1>5. /\ Old \o s \in Seq(Entry) /\ Len(Old) \in Nat
      /\ Len(Old \o s) = Len(Old) \/ Len(Old \o s) = Len(Old) + 1
      /\ \A i \in 1..Len(Old) : (Old \o s)[i] = Old[i]
      /\ Len(Old \o s) = Len(Old) + 1 => (Old \o s)[Len(Old) + 1].id = n
    <2>1. CASE s = <<>>
        BY <1>2, <2>1
    <2>2. CASE \E en \in Entry : en.id = n /\ s = <<en>>
        <3> HIDE DEF Old
        <3>1. PICK en \in Entry : en.id = n /\ s = <<en>>
            BY <2>2
        <3>2. s \in Seq(Entry) /\ Len(s) = 1 /\ s[1] = en
            BY <3>1
        <3> HIDE DEF Entry
        <3> QED BY <1>2, <3>1, <3>2
    <2> QED BY <2>1, <2>2
<1>6. DataOK(e)
    BY <1>3, <1>5, Zenon DEF DataOK
<1>7. /\ V \in 0..Len(Old)
      /\ \A i \in 1..V : Old[i].rec \in Records /\ Old[i].id = L + i - 1
      /\ \A k \in 0..Len(Old) :
            (\A i \in 1..k : Old[i].rec \in Records /\ Old[i].id = L + i - 1) => k <= V
    BY <1>1, ValidIs
<1>8. /\ W \in 0..Len(Old \o s)
      /\ \A i \in 1..W : (Old \o s)[i].rec \in Records /\ (Old \o s)[i].id = L + i - 1
      /\ \A k \in 0..Len(Old \o s) :
            (\A i \in 1..k : (Old \o s)[i].rec \in Records /\ (Old \o s)[i].id = L + i - 1) => k <= W
    <2> HIDE DEF L, Old
    <2>1. L \in Files(e)
        BY <1>1, <1>3
    <2>2. /\ W \in 0..Len(e[L])
          /\ \A i \in 1..W : e[L][i].rec \in Records /\ e[L][i].id = L + i - 1
          /\ \A k \in 0..Len(e[L]) :
                (\A i \in 1..k : e[L][i].rec \in Records /\ e[L][i].id = L + i - 1) => k <= W
        BY <1>6, <2>1, ValidIs
    <2>3. e[L] = Old \o s
        BY <1>3
    <2> QED BY <2>2, <2>3, Zenon
<1> HIDE DEF L, V, W, Old
<1>9. V <= W /\ \A i \in 1..V : (Old \o s)[i] = Old[i]
    <2>1. \A i \in 1..V : (Old \o s)[i] = Old[i]
        BY <1>5, <1>7
    <2>2. \A i \in 1..V : (Old \o s)[i].rec \in Records /\ (Old \o s)[i].id = L + i - 1
        BY <1>7, <2>1
    <2>3. V \in 0..Len(Old \o s)
        BY <1>5, <1>7
    <2> QED BY <2>1, <2>2, <2>3, <1>8
<1>10. W <= V \/ (W = Len(Old) + 1 /\ L + W = n + 1)
    <2>1. CASE W <= Len(Old)
        <3>1. \A i \in 1..W : Old[i].rec \in Records /\ Old[i].id = L + i - 1
            BY <1>5, <1>8, <2>1
        <3>2. W \in 0..Len(Old)
            BY <1>5, <1>8, <2>1
        <3> QED BY <1>7, <3>1, <3>2
    <2>2. CASE ~(W <= Len(Old))
        <3>1. W = Len(Old) + 1 /\ Len(Old \o s) = Len(Old) + 1
            BY <1>5, <1>8, <2>2
        <3>2. (Old \o s)[W].id = L + W - 1 /\ (Old \o s)[W].id = n
            BY <1>5, <1>8, <3>1
        <3> QED BY <1>1, <1>5, <3>1, <3>2
    <2> QED BY <2>1, <2>2
<1>11. L + V <= n
    BY <1>1 DEF Layout, V
<1>12. L + W <= n + 1
    BY <1>1, <1>5, <1>7, <1>8, <1>10, <1>11
<1>13. \A f \in Files(d) : ValidRecords(d, f) \in Nat
    BY ValidIs
<1>14. Layout(e, n + 1)
    <2>1. ASSUME NEW f \in Files(e)
          PROVE  f + ValidRecords(e, f) <= n + 1
        <3>1. CASE f = L
            BY <1>12, <3>1 DEF W
        <3>2. CASE f # L
            <4>1. f \in Nat /\ ValidRecords(d, f) \in Nat /\ f + ValidRecords(d, f) <= n
                BY <1>1, <1>3, <1>13 DEF Layout
            <4>2. ValidRecords(e, f) = ValidRecords(d, f)
                BY <1>3, <1>4, <3>2
            <4> QED BY <4>1, <4>2
        <3> QED BY <3>1, <3>2
    <2>2. ASSUME NEW f \in Files(e), NEW g \in Files(e), f < g
          PROVE  f + ValidRecords(e, f) <= g
        <3>1. f # L
            BY <1>1, <1>3, <2>2
        <3> QED BY <1>3, <1>4, <2>2, <3>1 DEF Layout
    <2> QED BY <2>1, <2>2 DEF Layout
<1>15. ASSUME NEW f \in Files(d)
       PROVE  /\ ValidRecords(d, f) <= ValidRecords(e, f)
              /\ \A i \in 1..ValidRecords(d, f) : e[f][i] = d[f][i]
    <2>1. CASE f = L
        BY <1>3, <1>9, <2>1 DEF V, W, Old
    <2>2. CASE f # L
        BY <1>3, <1>4, <1>13, <2>2
    <2> QED BY <2>1, <2>2
<1> QED BY <1>3, <1>4, <1>6, <1>14, <1>15 DEF L

\* What was uploaded stays what can be read when files are deleted from the
\* front, when one is added behind, and when the last one grows.
LEMMA UploadedKept ==
    ASSUME NEW d, NEW e, NEW U \in SUBSET (Ids \X Records), DataOK(d), DataOK(e), Uploaded(d, U),
           \A f \in Files(e) : (f \in Files(d) /\ e[f] = d[f]) \/ (\A g \in Files(d) : g <= f),
           \A g \in Files(d) : \E f \in Files(e) : g <= f
    PROVE  Uploaded(e, U)
<1> SUFFICES ASSUME NEW p \in U
             PROVE  /\ \E f \in Files(e) : p[1] < f
                    /\ \A f \in Files(e) : \A i \in 1..ValidRecords(e, f) :
                          p[1] = f + i - 1 => p[2] = e[f][i].rec
    BY DEF Uploaded
<1>1. PICK g \in Files(d) : p[1] < g
    BY DEF Uploaded
<1>2. p[1] \in Nat /\ g \in Nat /\ \A f \in Files(e) : f \in Nat
    BY DEF DataOK, Ids
<1>3. \E f \in Files(e) : p[1] < f
    BY <1>1, <1>2
<1>4. ASSUME NEW f \in Files(e), NEW i \in 1..ValidRecords(e, f), p[1] = f + i - 1
      PROVE  p[2] = e[f][i].rec
    <2>1. ValidRecords(e, f) \in Nat
        BY ValidIs
    <2>2. f <= p[1]
        BY <1>2, <1>4, <2>1
    <2>3. f \in Files(d) /\ e[f] = d[f]
        BY <1>1, <1>2, <2>2
    <2>4. ValidRecords(e, f) = ValidRecords(d, f)
        BY <2>3, ValidSame
    <2> QED BY <1>4, <2>3, <2>4 DEF Uploaded
<1> QED BY <1>3, <1>4

\* A reader may go on when the files it has are there, with what was in them.
LEMMA ReaderKept ==
    ASSUME NEW d, NEW e, NEW x, GoodReader(d, x),
           Files(d) \subseteq Files(e),
           Files(d) # {} => LastFile(d) \in Nat /\ LastFile(e) \in Nat /\ LastFile(d) <= LastFile(e),
           LastFile(e) = LastFile(d) \/ LastFile(e) \notin Files(d),
           \A f \in Files(d) : f # LastFile(d) => e[f] = d[f],
           x.seq \in Nat
    PROVE  GoodReader(e, x)
<1>1. x.files \subseteq Files(e) /\ LastFile(e) \notin x.files
    BY DEF GoodReader
<1>2. ~x.begun => x.cur # NoFile /\ x.pos = 0 /\ x.seq <= LastFile(e)
    BY DEF GoodReader
<1>3. ASSUME x.begun, x.cur # NoFile
      PROVE  AtRecord(e, x)
    <2>1. x.cur \in Files(d) /\ x.cur # LastFile(d)
        BY <1>3 DEF GoodReader
    <2>2. ValidRecords(e, x.cur) = ValidRecords(d, x.cur)
        BY <2>1, ValidSame
    <2> QED BY <1>3, <2>2 DEF GoodReader, AtRecord
<1>4. ~x.begun => \A g \in x.files : x.cur <= g /\ (g > x.cur => g > x.seq)
    BY DEF GoodReader
<1> QED BY <1>1, <1>2, <1>3, <1>4 DEF GoodReader

-----------------------------------------------------------------------------
(***************************************************************************)
(* Reading.                                                                *)
(***************************************************************************)

AnyReader == [files : SUBSET Ids, cur : {NoFile} \cup Ids, pos : Nat, seq : Nat, begun : BOOLEAN]

\* y is where a reader with the files of x may be; it has gone on to a record or
\* to a gap, or has come to the end.
Moved(d, x, y) ==
    /\ y \in AnyReader
    /\ y.files = x.files /\ y.begun = x.begun
    /\ y.cur \in x.files \cup {NoFile}
    /\ y.cur # NoFile => AtRecord(d, y)
    /\ y.cur = NoFile => y.seq <= x.seq + 1

\* The file a reader goes on to is one that it collected, or none.
LEMMA FileAfterIs ==
    ASSUME NEW x \in AnyReader, NEW f
    PROVE  FileAfter(x, f) \in x.files \cup {NoFile} /\ FileAfter(x, f) \in {NoFile} \cup Ids
<1> DEFINE later == {g \in x.files : g > f}
<1>1. x.files \subseteq Ids
    BY DEF AnyReader
<1>2. later \in SUBSET Nat
    BY <1>1 DEF Ids
<1>3. later # {} => LowestOf(later) \in later
    <2> HIDE DEF later
    <2> QED BY <1>2, LowestIs
<1>4. FileAfter(x, f) = IF later = {} THEN NoFile ELSE LowestOf(later)
    BY DEF FileAfter
<1>5. FileAfter(x, f) \in later \cup {NoFile}
    <2> HIDE DEF later
    <2> QED BY <1>3, <1>4
<1> QED BY <1>1, <1>5

\* Uploading a gap leads a reader to the start of a later file, or to its end.
LEMMA GapIs ==
    ASSUME NEW d, DataOK(d), NEW x \in AnyReader, x.files \subseteq Files(d)
    PROVE  Moved(d, x, GapFrom(x))
<1> DEFINE g == FileAfter(x, x.cur)
           n == IF g = NoFile THEN x.seq + 1 ELSE g
           y == [x EXCEPT !.cur = g, !.pos = 0, !.seq = n]
<1>1. g \in x.files \cup {NoFile} /\ g \in {NoFile} \cup Ids
    BY FileAfterIs
<1>2. GapFrom(x) = y
    BY DEF GapFrom
<1>3. x.seq \in Nat
    BY DEF AnyReader
<1> HIDE DEF g
<1>4. n \in Nat
    BY <1>1, <1>3 DEF Ids
<1> HIDE DEF n
<1>5. /\ y \in AnyReader
      /\ y.files = x.files /\ y.begun = x.begun /\ y.cur = g /\ y.pos = 0
      /\ y.seq = n
    BY <1>1, <1>4 DEF AnyReader
<1> HIDE DEF y
<1>6. ASSUME y.cur # NoFile
      PROVE  AtRecord(d, y)
    <2>1. g \in Files(d)
        BY <1>1, <1>5, <1>6
    <2>2. ValidRecords(d, g) \in Nat /\ g \in Nat
        BY <2>1, ValidIs
    <2> QED BY <1>5, <1>6, <2>2 DEF AtRecord, n
<1>7. y.cur = NoFile => y.seq = x.seq + 1
    BY <1>5 DEF n
<1> QED BY <1>1, <1>2, <1>5, <1>3, <1>6, <1>7 DEF Moved

\* A blob is uploaded as a record when it is valid and has the expected id.
LEMMA BlobOk ==
    ASSUME NEW f, NEW pos, NEW id, Blob(f, pos, id) = "ok"
    PROVE  pos < ValidRecords(data, f) /\ data[f][pos + 1].id = id
BY DEF Blob

Placed(x, pos, n) == [x EXCEPT !.pos = pos, !.seq = n]

\* Placing a reader changes its position and its sequence number only.
LEMMA PlacedIs ==
    ASSUME NEW x \in AnyReader, NEW pos \in Nat, NEW n \in Nat
    PROVE  LET y == Placed(x, pos, n)
           IN  /\ y \in AnyReader
               /\ y.files = x.files /\ y.begun = x.begun /\ y.cur = x.cur
               /\ y.pos = pos /\ y.seq = n
BY DEF AnyReader, Placed

\* After a blob a reader is at the next one of the file, in a later file or at its end.
LEMMA AfterBlobIs ==
    ASSUME DataOK(data), NEW x \in AnyReader, x.files \subseteq Files(data), x.cur \in x.files,
           NEW blob, blob = "ok" => x.seq = x.cur + x.pos /\ x.pos < ValidRecords(data, x.cur)
    PROVE  Moved(data, x, AfterBlob(x, blob))
<1> DEFINE g == FileAfter(x, x.cur)
           moved == [x EXCEPT !.cur = g, !.pos = 0]
<1>1. /\ x.seq \in Nat /\ x.pos \in Nat /\ x.cur \in Nat /\ x.cur # NoFile
      /\ x.files \in SUBSET Ids /\ x.begun \in BOOLEAN
    BY DEF AnyReader, Ids, NoFile
<1>2. g \in x.files \cup {NoFile} /\ g \in {NoFile} \cup Ids
    BY FileAfterIs
<1> HIDE DEF g
<1>3. /\ moved \in AnyReader
      /\ moved.files = x.files /\ moved.begun = x.begun
      /\ moved.cur = g /\ moved.pos = 0 /\ moved.seq = x.seq
    BY <1>2 DEF AnyReader
<1>4. CASE blob = "ok"
    <2> DEFINE y == [x EXCEPT !.pos = @ + 1, !.seq = @ + 1]
    <2>1. AfterBlob(x, blob) = y
        BY <1>4 DEF AfterBlob
    <2>2. /\ y \in AnyReader
          /\ y.files = x.files /\ y.begun = x.begun /\ y.cur = x.cur
          /\ y.pos = x.pos + 1 /\ y.seq = x.seq + 1
        <3>1. y = Placed(x, x.pos + 1, x.seq + 1)
            BY DEF Placed
        <3>2. x.pos + 1 \in Nat /\ x.seq + 1 \in Nat
            BY <1>1
        <3> HIDE DEF y
        <3> QED BY <3>1, <3>2, PlacedIs
    <2> HIDE DEF y
    <2>3. ValidRecords(data, x.cur) \in Nat
        BY ValidIs
    <2>4. AtRecord(data, y)
        BY <1>1, <1>4, <2>2, <2>3 DEF AtRecord
    <2> QED BY <1>1, <2>1, <2>2, <2>4 DEF Moved
<1>5. CASE blob = "corrupt"
    <2>1. AfterBlob(x, blob) = GapFrom(x)
        BY <1>5 DEF AfterBlob
    <2> QED BY <2>1, GapIs
<1>6. CASE blob # "ok" /\ blob # "corrupt" /\ g = NoFile
    <2>1. AfterBlob(x, blob) = moved
        BY <1>3, <1>6 DEF AfterBlob, g
    <2> HIDE DEF moved
    <2> QED BY <1>1, <1>2, <1>3, <1>6, <2>1 DEF Moved
<1>7. CASE blob # "ok" /\ blob # "corrupt" /\ g # NoFile /\ Blob(g, 0, x.seq) = "ok"
    <2> DEFINE y == [moved EXCEPT !.pos = 1, !.seq = @ + 1]
    <2>1. AfterBlob(x, blob) = y
        BY <1>3, <1>7 DEF AfterBlob, g
    <2> HIDE DEF moved
    <2>2. /\ y \in AnyReader
          /\ y.files = x.files /\ y.begun = x.begun /\ y.cur = g
          /\ y.pos = 1 /\ y.seq = x.seq + 1
        <3>1. y = Placed(moved, 1, moved.seq + 1)
            BY DEF Placed
        <3>2. moved.seq + 1 = x.seq + 1 /\ moved.seq + 1 \in Nat /\ 1 \in Nat
            BY <1>1, <1>3
        <3> HIDE DEF y
        <3>3. /\ y \in AnyReader
              /\ y.files = moved.files /\ y.begun = moved.begun /\ y.cur = moved.cur
              /\ y.pos = 1 /\ y.seq = moved.seq + 1
            <4>1. \A z \in AnyReader, n \in Nat :
                      /\ Placed(z, 1, n) \in AnyReader
                      /\ Placed(z, 1, n).files = z.files /\ Placed(z, 1, n).begun = z.begun
                      /\ Placed(z, 1, n).cur = z.cur /\ Placed(z, 1, n).pos = 1 /\ Placed(z, 1, n).seq = n
                BY PlacedIs
            <4> QED BY <1>3, <3>1, <3>2, <4>1, Zenon
        <3> QED BY <1>3, <3>2, <3>3
    <2> HIDE DEF y
    <2>3. g \in Files(data) /\ g \in Nat
        BY <1>2, <1>7 DEF Ids
    <2>4. /\ ValidRecords(data, g) \in Nat
          /\ \A i \in 1..ValidRecords(data, g) : data[g][i].id = g + i - 1
        BY <2>3, ValidIs
    <2>5. 0 < ValidRecords(data, g) /\ data[g][0 + 1].id = x.seq
        BY <1>7, BlobOk
    <2>6. x.seq = g
        BY <2>3, <2>4, <2>5
    <2>7. AtRecord(data, y)
        BY <2>2, <2>3, <2>4, <2>5, <2>6 DEF AtRecord
    <2> QED BY <1>2, <1>7, <2>1, <2>2, <2>7 DEF Moved
<1>8. CASE blob # "ok" /\ blob # "corrupt" /\ g # NoFile /\ Blob(g, 0, x.seq) # "ok"
    <2>1. AfterBlob(x, blob) = GapFrom(moved)
        BY <1>3, <1>8 DEF AfterBlob, g
    <2> HIDE DEF moved
    <2>2. Moved(data, moved, GapFrom(moved))
        BY <1>3, GapIs
    <2> QED BY <1>3, <2>1, <2>2 DEF Moved
<1> QED BY <1>4, <1>5, <1>6, <1>7, <1>8

\* A reader that is at a record or at the end of its file goes on to such a place.
LEMMA CallRecordOrGapIs ==
    ASSUME DataOK(data), NEW x \in AnyReader, x.files \subseteq Files(data), x.cur \in x.files,
           AtRecord(data, x)
    PROVE  Moved(data, x, CallRecordOrGap(x))
<1>1. Blob(x.cur, x.pos, x.seq) = "ok" =>
          x.seq = x.cur + x.pos /\ x.pos < ValidRecords(data, x.cur)
    BY BlobOk DEF AtRecord
<1> QED BY <1>1, AfterBlobIs DEF CallRecordOrGap

\* CallRecordOrGap() moves a reader on from where it stands, record or gap.
LEMMA RecordOrGapIs ==
    ASSUME DataOK(data), NEW x \in AnyReader, x.files \subseteq Files(data), x.cur \in x.files,
           AtRecord(data, x)
    PROVE  Moved(data, x, RecordOrGap(x))
<1> DEFINE y == CallRecordOrGap(x)
<1>1. Moved(data, x, y)
    BY CallRecordOrGapIs
<1> HIDE DEF y
<1>2. CASE y.seq = x.seq /\ y.cur # NoFile
    <2>1. Moved(data, y, CallRecordOrGap(y))
        BY <1>1, <1>2, CallRecordOrGapIs DEF Moved
    <2>2. RecordOrGap(x) = CallRecordOrGap(y)
        BY <1>2 DEF RecordOrGap, y
    <2> QED BY <1>1, <1>2, <2>1, <2>2 DEF Moved
<1>3. CASE ~(y.seq = x.seq /\ y.cur # NoFile)
    <2>1. RecordOrGap(x) = y
        BY <1>3 DEF RecordOrGap, y
    <2> QED BY <1>1, <2>1
<1> QED BY <1>2, <1>3

\* So does one that reads over the records before the one it needs.
LEMMA StartUploadingIs ==
    ASSUME DataOK(data), NEW x \in AnyReader, x.files \subseteq Files(data), x.cur \in x.files,
           x.cur <= x.seq
    PROVE  Moved(data, x, StartUploading(x))
<1> DEFINE valid == ValidRecords(data, x.cur)
           skip == x.seq - x.cur
<1>1. x.seq \in Nat /\ x.cur \in Nat /\ valid \in Nat
    BY ValidIs DEF AnyReader, Ids
<1>2. skip \in Nat
    BY <1>1
<1> HIDE DEF valid
<1>3. \A n \in Nat : LET z == [x EXCEPT !.pos = n]
                     IN  /\ z \in AnyReader /\ z.pos = n
                         /\ z.files = x.files /\ z.begun = x.begun /\ z.cur = x.cur /\ z.seq = x.seq
    BY DEF AnyReader
<1>4. CASE valid >= skip
    <2> DEFINE z == [x EXCEPT !.pos = skip]
    <2>1. /\ z \in AnyReader /\ z.pos = skip
          /\ z.files = x.files /\ z.begun = x.begun /\ z.cur = x.cur /\ z.seq = x.seq
        BY <1>2, <1>3
    <2>2. StartUploading(x) = RecordOrGap(z)
        BY <1>4 DEF StartUploading, valid
    <2> HIDE DEF z
    <2>3. AtRecord(data, z)
        BY <1>1, <1>4, <2>1 DEF AtRecord, valid
    <2>4. Moved(data, z, RecordOrGap(z))
        BY <2>1, <2>3, RecordOrGapIs
    <2> QED BY <2>1, <2>2, <2>4 DEF Moved
<1>5. CASE ~(valid >= skip)
    <2> DEFINE z == [x EXCEPT !.pos = valid]
               blob == Blob(x.cur, valid, x.cur + valid)
    <2>1. /\ z \in AnyReader /\ z.pos = valid
          /\ z.files = x.files /\ z.begun = x.begun /\ z.cur = x.cur /\ z.seq = x.seq
        BY <1>1, <1>3
    <2>2. StartUploading(x) = AfterBlob(z, blob)
        BY <1>5 DEF StartUploading, valid
    <2>3. blob # "ok"
        BY <1>1, BlobOk DEF valid
    <2> HIDE DEF z, blob
    <2>4. Moved(data, z, AfterBlob(z, blob))
        BY <2>1, <2>3, AfterBlobIs
    <2> QED BY <2>1, <2>2, <2>4 DEF Moved
<1> QED BY <1>4, <1>5

-----------------------------------------------------------------------------
(***************************************************************************)
(* The files after a step, for the readers and uploads before it.          *)
(***************************************************************************)

FilesInv(d, n) ==
    /\ DataOK(d) /\ Layout(d, n) /\ Files(d) # {}
    /\ Uploaded(d, uploads)
    /\ \A r \in Readers : reader[r] # Idle => GoodReader(d, reader[r])
    /\ Passed(d, first, confirmed)

\* What the invariant says of types and counts, in the form the steps use.
LEMMA TypesOf ==
    ASSUME IInv
    PROVE  /\ DataOK(data) /\ Layout(data, next)
           /\ next \in Nat /\ next \in Ids /\ writes \in Nat /\ writes <= MaxWrites /\ next <= writes
           /\ MaxWrites \in Nat
           /\ first \in Nat /\ confirmed \in Int /\ sent \in Int
           /\ uploads \in SUBSET (Ids \X Records)
           /\ \A r \in Readers : reader[r] \in AnyReader
<1>1. DataOK(data)
    BY DEF IInv, TypeOK, DataOK, Files
<1>2. \A r \in Readers : reader[r] \in AnyReader
    BY DEF IInv, TypeOK, AnyReader, Ids
<1> QED BY <1>1, <1>2, StorageQueueAssumption DEF IInv, TypeOK, CountsInv, Ids

\* While the files stay as they are, so does what is said of them.
LEMMA SameFiles ==
    ASSUME IInv, Files(data) # {}
    PROVE  FilesInv(data, next)
BY TypesOf DEF IInv, FilesInv, ReadersInv

\* OpenNewWriteableFile().
LEMMA OpenStep ==
    ASSUME IInv, next \notin Files(data), NEW e, e = With(data, next, <<>>)
    PROVE  FilesInv(e, next) /\ LastFile(e) = next /\ Readable(e) = Readable(data)
<1>1. /\ DataOK(e) /\ Layout(e, next)
      /\ Files(e) = Files(data) \cup {next} /\ LastFile(e) = next
      /\ ValidRecords(e, next) = 0
      /\ \A f \in Files(data) : /\ f < next /\ e[f] = data[f]
                                /\ ValidRecords(e, f) = ValidRecords(data, f)
    BY TypesOf, OpenKeeps
<1>2. next \in Nat /\ first \in Nat /\ \A f \in Files(data) : f \in Nat
    BY TypesOf DEF DataOK, Ids
<1>3. Uploaded(e, uploads)
    <2>1. \A f \in Files(e) : (f \in Files(data) /\ e[f] = data[f]) \/ (\A g \in Files(data) : g <= f)
        BY <1>1, <1>2
    <2>2. \A g \in Files(data) : \E f \in Files(e) : g <= f
        BY <1>1, <1>2
    <2>3. Uploaded(data, uploads)
        BY DEF IInv
    <2> QED BY <1>1, <2>1, <2>2, <2>3, TypesOf, UploadedKept
<1>4. ASSUME NEW r \in Readers, reader[r] # Idle
      PROVE  GoodReader(e, reader[r])
    <2>1. GoodReader(data, reader[r])
        BY <1>4 DEF IInv, ReadersInv
    <2>2. Files(data) # {} => LastFile(data) \in Nat /\ LastFile(data) <= LastFile(e) /\ LastFile(e) \in Nat
        BY <1>1, <1>2, TypesOf, LastFileIs
    <2>3. reader[r].seq \in Nat
        BY TypesOf DEF AnyReader
    <2> QED BY <1>1, <2>1, <2>2, <2>3, ReaderKept
<1>5. Passed(e, first, confirmed)
    <2>1. CASE first <= confirmed + 1
        BY <2>1 DEF Passed
    <2>2. CASE \A f \in Files(data) : first <= f
        <3>1. first <= next
            BY <1>1, <1>2, <2>2 DEF IInv, StartInv
        <3> QED BY <1>1, <2>2, <3>1 DEF Passed
    <2> QED BY <2>1, <2>2 DEF IInv, Passed
<1>6. Readable(e) = Readable(data)
    <2>1. \A q : q \in Readable(e) <=> q \in Readable(data)
        <3> TAKE q
        <3> DEFINE In(d, f) == \E i \in 1..ValidRecords(d, f) : q = <<d[f][i].id, d[f][i].rec>>
        <3>1. \A f \in Files(data) : In(e, f) <=> In(data, f)
            BY <1>1
        <3>2. ~In(e, next)
            BY <1>1
        <3>3. Files(e) = Files(data) \cup {next}
            BY <1>1
        <3>4. /\ q \in Readable(e) <=> \E f \in Files(e) : In(e, f)
              /\ q \in Readable(data) <=> \E f \in Files(data) : In(data, f)
            BY ReadableIs
        <3> HIDE DEF In
        <3> QED BY <3>1, <3>2, <3>3, <3>4
    <2> QED BY <2>1
<1> QED BY <1>1, <1>3, <1>4, <1>5, <1>6 DEF FilesInv

\* SwitchLastFileIfNotEmpty().
LEMMA SwitchStep ==
    ASSUME IInv, CanSwitch(data), NEW e, e = SwitchLastFileIfNotEmpty(data)
    PROVE  FilesInv(e, next) /\ Readable(e) = Readable(data)
<1>1. CASE data[LastFile(data)] = <<>>
    BY <1>1, SameFiles DEF CanSwitch, SwitchLastFileIfNotEmpty
<1>2. CASE data[LastFile(data)] # <<>>
    BY <1>2, OpenStep DEF CanSwitch, SwitchLastFileIfNotEmpty, CanOpenNew, OpenNewWriteableFile
<1> QED BY <1>1, <1>2

\* The invariant holds at the start.
LEMMA InitIInv == Init => IInv
<1> SUFFICES ASSUME Init PROVE IInv
    OBVIOUS
<1> USE StorageQueueAssumption DEF Init
<1>1. Files(data) = {} /\ DOMAIN meta = {}
    BY DEF Files
<1>2. TypeOK
    <2>1. reader \in [Readers -> [files : SUBSET Ids, cur : {NoFile} \cup Ids,
                                  pos : Nat, seq : Ids, begun : BOOLEAN]]
        BY DEF Idle, Ids
    <2>2. 0 \in Ids /\ uploads \subseteq Ids \X Records
        BY DEF Ids
    <2>3. DOMAIN data = {}
        BY <1>1 DEF Files
    <2>4. /\ \A f \in DOMAIN data : data[f] \in Seq(Entry)
          /\ \A n \in DOMAIN meta : meta[n] \in Seq({NoGeneration, Torn} \cup Records)
        BY <1>1, <2>3
    <2> HIDE DEF Init
    <2> QED BY <1>1, <2>1, <2>2, <2>3, <2>4, Zenon DEF Init, TypeOK
<1>3. CountsInv
    BY DEF CountsInv, Unset
<1>4. StartInv /\ Layout(data, next) /\ Uploaded(data, uploads) /\ UploadsAgree
    BY <1>1 DEF StartInv, Layout, Uploaded, UploadsAgree
<1>5. ReadersInv
    BY DEF ReadersInv
<1>6. Passed(data, first, confirmed)
    BY <1>1 DEF Passed
<1> QED BY <1>2, <1>3, <1>4, <1>5, <1>6 DEF IInv

-----------------------------------------------------------------------------
(***************************************************************************)
(* Writing.                                                                *)
(***************************************************************************)

MetaEntry == {NoGeneration, Torn} \cup Records
MetaOK(m) == DOMAIN m \subseteq Ids /\ \A n \in DOMAIN m : m[n] \in Seq(MetaEntry)

\* Appending to the META file of the next id keeps the META files well-formed.
LEMMA MetaKept ==
    ASSUME IInv, NEW s \in Seq(MetaEntry)
    PROVE  MetaOK(AppendToMeta(s))
<1> DEFINE content == IF next \in Files(meta) THEN meta[next] \o s ELSE s
<1>1. DOMAIN meta \subseteq Ids /\ \A n \in DOMAIN meta : meta[n] \in Seq(MetaEntry)
    BY DEF IInv, TypeOK, MetaEntry
<1> HIDE DEF MetaEntry
<1>2. content \in Seq(MetaEntry)
    BY <1>1 DEF Files
<1>3. AppendToMeta(s) = With(meta, next, content)
    BY DEF AppendToMeta
<1> HIDE DEF content
<1>4. next \in Ids
    BY TypesOf
<1>5. /\ DOMAIN With(meta, next, content) = DOMAIN meta \cup {next}
      /\ \A n \in DOMAIN meta \cup {next} :
            With(meta, next, content)[n] = IF n = next THEN content ELSE meta[n]
    BY DEF With, Files
<1> QED BY <1>1, <1>2, <1>3, <1>4, <1>5 DEF MetaOK

\* A write opens at most one new file and makes nothing readable or unreadable.
LEMMA BeginWriteFiles ==
    ASSUME IInv, BeginWrite
    PROVE  FilesInv(data', next) /\ Readable(data') = Readable(data)
<1> DEFINE d == IF Files(data) = {} THEN With(data, 0, <<>>) ELSE data
<1>1. \/ NeedsNewFile(d) /\ data' = data
      \/ /\ NeedsNewFile(d) => CanOpenNew(d)
         /\ data' = IF NeedsNewFile(d) THEN OpenNewWriteableFile(d) ELSE d
    BY DEF BeginWrite
<1>2. CASE Files(data) = {}
    <2>1. next = 0 /\ next \notin Files(data) /\ d = With(data, next, <<>>)
        BY <1>2 DEF IInv, StartInv
    <2>2. FilesInv(d, next) /\ LastFile(d) = next /\ Readable(d) = Readable(data)
        BY <2>1, OpenStep
    <2>3. d[next] = <<>>
        BY <2>1 DEF With
    <2> HIDE DEF d
    <2>4. ~NeedsNewFile(d)
        BY <2>2, <2>3, StorageQueueAssumption DEF NeedsNewFile
    <2> QED BY <1>1, <2>2, <2>4
<1>3. CASE Files(data) # {}
    <2>1. d = data
        BY <1>3
    <2>2. data' = data \/ (data' = With(data, next, <<>>) /\ next \notin Files(data))
        BY <1>1, <2>1 DEF CanOpenNew, OpenNewWriteableFile
    <2> QED BY <1>3, <2>2, SameFiles, OpenStep
<1> QED BY <1>2, <1>3

\* The first half of a write keeps the invariant.
LEMMA BeginWriteKeeps == IInv /\ BeginWrite => IInv'
<1> SUFFICES ASSUME IInv, BeginWrite PROVE IInv'
    OBVIOUS
<1>1. FilesInv(data', next)
    BY BeginWriteFiles
<1>2. /\ writes < MaxWrites /\ writes' = writes + 1 /\ writing = Unset
      /\ first' = first /\ next' = next /\ unconfirmed' = unconfirmed /\ digest' = digest
      /\ resume' = resume /\ reader' = reader /\ uploads' = uploads
      /\ sent' = sent /\ confirmed' = confirmed
    BY DEF BeginWrite, Ready
<1>3. meta' = meta \/ (\E s \in Seq(MetaEntry) : meta' = AppendToMeta(s))
    <2>1. writes' \in Records
        BY <1>2, TypesOf DEF Records
    <2>2. /\ <<writes'>> \in Seq(MetaEntry) /\ <<>> \in Seq(MetaEntry)
          /\ <<NoGeneration>> \in Seq(MetaEntry) /\ <<Torn>> \in Seq(MetaEntry)
        BY <2>1 DEF MetaEntry
    <2>3. \/ meta' = meta \/ meta' = AppendToMeta(<<writes'>>)
          \/ \E s \in {<<>>, <<NoGeneration>>, <<Torn>>} : meta' = AppendToMeta(s)
        BY DEF BeginWrite
    <2> QED BY <2>2, <2>3
<1>4. MetaOK(meta')
    <2>1. MetaOK(meta)
        BY DEF IInv, TypeOK, MetaOK, MetaEntry
    <2> QED BY <1>3, <2>1, MetaKept
<1>5. /\ writing' = Unset \/ writing' = writes'
      /\ outdated' = outdated \/ outdated' = outdated \cup {next}
      /\ faults' = faults \/ faults' = faults + 1
    BY <1>2 DEF BeginWrite
<1>6. CountsInv'
    BY <1>2, <1>5, TypesOf DEF CountsInv, IInv
<1>7. TypeOK'
    <2>1. writing' \in {Unset} \cup Records
        BY <1>2, <1>5, TypesOf DEF Records
    <2>2. outdated' \subseteq Ids
        BY <1>5, TypesOf DEF IInv, TypeOK
    <2>3. DataOK(data')
        BY <1>1 DEF FilesInv
    <2> QED BY <1>2, <1>4, <2>1, <2>2, <2>3, Zenon DEF IInv, TypeOK, DataOK, MetaOK, MetaEntry, Files
<1>8. StartInv' /\ Layout(data', next') /\ Uploaded(data', uploads') /\ Passed(data', first', confirmed')
    BY <1>1, <1>2 DEF FilesInv, StartInv
<1>9. ReadersInv'
    BY <1>1, <1>2 DEF FilesInv, ReadersInv
<1>10. UploadsAgree'
    BY <1>2 DEF IInv, UploadsAgree
<1> QED BY <1>6, <1>7, <1>8, <1>9, <1>10 DEF IInv

\* Anything that WriteHeaderAndBlock() or a crash inside it leaves behind.
LEMMA AppendStep ==
    ASSUME IInv, writing # Unset,
           NEW s, s \in Partial \cup {<<[id |-> next, rec |-> writing]>>}, NEW e, e = AppendTo(data, s)
    PROVE  /\ FilesInv(e, next + 1) /\ Readable(data) \subseteq Readable(e)
           /\ Files(e) = Files(data)
<1>1. Files(data) # {}
    BY DEF IInv, StartInv
<1>2. s = <<>> \/ (\E en \in Entry : en.id = next /\ s = <<en>>)
    <2>1. writing \in Records /\ next \in Ids
        BY TypesOf DEF IInv, TypeOK
    <2>2. /\ [id |-> next, rec |-> writing] \in Entry
          /\ [id |-> next, rec |-> HeaderOnly] \in Entry
          /\ [id |-> next, rec |-> Torn] \in Entry
        BY <2>1 DEF Entry
    <2>3. \/ s = <<>> \/ s = <<[id |-> next, rec |-> writing]>>
          \/ s = <<[id |-> next, rec |-> HeaderOnly]>> \/ s = <<[id |-> next, rec |-> Torn]>>
        BY DEF Partial
    <2> QED BY <2>2, <2>3
<1>3. /\ DataOK(e) /\ Layout(e, next + 1)
      /\ Files(e) = Files(data) /\ LastFile(e) = LastFile(data)
      /\ \A f \in Files(data) : f # LastFile(data) => e[f] = data[f]
      /\ \A f \in Files(data) : /\ ValidRecords(data, f) <= ValidRecords(e, f)
                                /\ \A i \in 1..ValidRecords(data, f) : e[f][i] = data[f][i]
    BY <1>1, <1>2, TypesOf, AppendKeeps
<1>4. LastFile(data) \in Nat /\ \A f \in Files(data) : f \in Nat /\ f <= LastFile(data)
    BY <1>1, TypesOf, LastFileIs
<1>5. Uploaded(e, uploads)
    <2>1. \A f \in Files(e) : (f \in Files(data) /\ e[f] = data[f]) \/ (\A g \in Files(data) : g <= f)
        BY <1>3, <1>4
    <2>2. \A g \in Files(data) : \E f \in Files(e) : g <= f
        BY <1>3, <1>4
    <2>3. Uploaded(data, uploads)
        BY DEF IInv
    <2> QED BY <1>3, <2>1, <2>2, <2>3, TypesOf, UploadedKept
<1>6. ASSUME NEW r \in Readers, reader[r] # Idle
      PROVE  GoodReader(e, reader[r])
    <2>1. GoodReader(data, reader[r])
        BY <1>6 DEF IInv, ReadersInv
    <2>2. reader[r].seq \in Nat
        BY TypesOf DEF AnyReader
    <2> QED BY <1>3, <1>4, <2>1, <2>2, ReaderKept
<1>7. Passed(e, first, confirmed)
    BY <1>3 DEF IInv, Passed
<1>8. Readable(data) \subseteq Readable(e)
    <2> SUFFICES ASSUME NEW q \in Readable(data) PROVE q \in Readable(e)
        OBVIOUS
    <2>1. PICK f \in Files(data) : \E i \in 1..ValidRecords(data, f) : q = <<data[f][i].id, data[f][i].rec>>
        BY ReadableIs
    <2>2. PICK i \in 1..ValidRecords(data, f) : q = <<data[f][i].id, data[f][i].rec>>
        BY <2>1
    <2>3. ValidRecords(data, f) \in Nat /\ ValidRecords(e, f) \in Nat
        BY <1>3, TypesOf, ValidIs
    <2>4. i \in 1..ValidRecords(e, f) /\ q = <<e[f][i].id, e[f][i].rec>>
        BY <1>3, <2>2, <2>3
    <2> QED BY <1>3, <2>4, ReadableIs
<1> QED BY <1>1, <1>3, <1>5, <1>6, <1>7, <1>8 DEF FilesInv

\* The second half, the append that succeeds, is torn or fails, keeps it and loses no record.
LEMMA FinishWriteKeeps == IInv /\ FinishWrite => IInv' /\ Readable(data) \subseteq Readable(data')
<1> SUFFICES ASSUME IInv, FinishWrite PROVE IInv' /\ Readable(data) \subseteq Readable(data')
    OBVIOUS
<1>1. /\ writing # Unset /\ writing' = Unset /\ next' = next + 1 /\ digest' = writing
      /\ meta' = meta /\ first' = first /\ unconfirmed' = unconfirmed /\ outdated' = outdated
      /\ resume' = resume /\ reader' = reader /\ writes' = writes /\ uploads' = uploads
      /\ sent' = sent /\ confirmed' = confirmed
      /\ faults' = faults \/ faults' = faults + 1
    BY DEF FinishWrite
<1>2. \E s \in Partial \cup {<<[id |-> next, rec |-> writing]>>} : data' = AppendTo(data, s)
    BY DEF FinishWrite
<1>3. FilesInv(data', next + 1) /\ Readable(data) \subseteq Readable(data')
    BY <1>1, <1>2, AppendStep
<1>4. next < writes
    BY <1>1 DEF IInv, CountsInv
<1>5. CountsInv'
    BY <1>1, <1>4, TypesOf DEF CountsInv, IInv
<1>6. TypeOK'
    <2>1. next' \in Ids /\ writing \in Records
        BY <1>1, <1>4, TypesOf DEF Ids, IInv, TypeOK
    <2>2. DataOK(data')
        BY <1>3 DEF FilesInv
    <2> QED BY <1>1, <2>1, <2>2, Zenon DEF IInv, TypeOK, DataOK, Files
<1>7. StartInv' /\ Layout(data', next') /\ Uploaded(data', uploads') /\ Passed(data', first', confirmed')
    BY <1>1, <1>3 DEF FilesInv, StartInv
<1>8. ReadersInv' /\ UploadsAgree'
    BY <1>1, <1>3 DEF IInv, FilesInv, ReadersInv, UploadsAgree
<1> QED BY <1>3, <1>5, <1>6, <1>7, <1>8 DEF IInv

\* The low-priority deletion of META files touches neither data nor readers.
LEMMA DeleteOutdatedMetadataKeeps ==
    ASSUME IInv, NEW keep, DeleteOutdatedMetadata(keep)
    PROVE  IInv' /\ data' = data /\ reader' = reader
<1>1. /\ outdated' \subseteq outdated
      /\ data' = data /\ first' = first /\ next' = next /\ unconfirmed' = unconfirmed
      /\ digest' = digest /\ writing' = writing /\ resume' = resume /\ reader' = reader
      /\ writes' = writes /\ faults' = faults /\ uploads' = uploads /\ sent' = sent
      /\ confirmed' = confirmed
    BY DEF DeleteOutdatedMetadata, history
<1>2. MetaOK(meta')
    <2>1. MetaOK(meta)
        BY DEF IInv, TypeOK, MetaOK, MetaEntry
    <2>2. DOMAIN meta' \subseteq DOMAIN meta /\ \A n \in DOMAIN meta' : meta'[n] = meta[n]
        BY DEF DeleteOutdatedMetadata, Without, Files
    <2> QED BY <2>1, <2>2 DEF MetaOK
<1>3. TypeOK'
    BY <1>1, <1>2, Zenon DEF IInv, TypeOK, MetaOK, MetaEntry
<1>4. CountsInv' /\ StartInv' /\ Layout(data', next') /\ Uploaded(data', uploads')
      /\ Passed(data', first', confirmed')
    BY <1>1 DEF IInv, CountsInv, StartInv
<1>5. ReadersInv' /\ UploadsAgree'
    BY <1>1 DEF IInv, ReadersInv, UploadsAgree
<1> QED BY <1>1, <1>3, <1>4, <1>5 DEF IInv

-----------------------------------------------------------------------------
(***************************************************************************)
(* Restart.                                                                *)
(***************************************************************************)

\* ScanLastFile() finds the id after those of all records that can be read.
LEMMA ScannedIs ==
    ASSUME NEW d, DataOK(d), NEW n \in Nat, Layout(d, n)
    PROVE  /\ ScannedNext(d) \in Nat /\ ScannedNext(d) <= n
           /\ Layout(d, ScannedNext(d))
           /\ Files(d) = {} => ScannedNext(d) = 0
<1>1. CASE Files(d) = {}
    BY <1>1 DEF ScannedNext, Layout
<1>2. CASE Files(d) # {}
    <2> DEFINE L == LastFile(d)
    <2>1. L \in Files(d) /\ L \in Nat /\ \A f \in Files(d) : f \in Nat /\ f <= L
        BY <1>2, LastFileIs
    <2>2. \A f \in Files(d) : ValidRecords(d, f) \in Nat
        BY ValidIs
    <2>3. ScannedNext(d) = L + ValidRecords(d, L)
        BY <1>2 DEF ScannedNext
    <2> HIDE DEF L
    <2>4. L + ValidRecords(d, L) <= n
        BY <2>1 DEF Layout
    <2>5. \A f \in Files(d) : f # L => f + ValidRecords(d, f) <= L
        BY <2>1 DEF Layout
    <2>6. ASSUME NEW f \in Files(d)
          PROVE  f + ValidRecords(d, f) <= L + ValidRecords(d, L)
        <3>1. CASE f = L
            BY <2>1, <2>2, <3>1
        <3>2. CASE f # L
            BY <2>1, <2>2, <2>5, <3>2
        <3> QED BY <3>1, <3>2
    <2>7. Layout(d, ScannedNext(d))
        BY <2>3, <2>6 DEF Layout
    <2> QED BY <1>2, <2>1, <2>2, <2>3, <2>4, <2>7
<1> QED BY <1>1, <1>2

\* What RestoreMetadata() settles for can be read.
LEMMA UsedMetaIs ==
    ASSUME NEW n \in Nat, MetaOK(meta)
    PROVE  UsedMeta(meta, n) \subseteq ReadableMeta(meta)
<1>1. ReadableMeta(meta) \in SUBSET (0..(MaxWrites + 1)) /\ MaxWrites + 1 \in Nat
    BY StorageQueueAssumption DEF ReadableMeta, MetaOK, Ids
<1>2. ReadableMeta(meta) # {} => HighestOf(ReadableMeta(meta)) \in ReadableMeta(meta)
    BY <1>1, HighestIs
<1> HIDE DEF ReadableMeta
<1> QED BY <1>2 DEF UsedMeta

\* A restart derives from the files that are left a state in which the invariant holds.
LEMMA DoInitKeeps ==
    ASSUME IInv, NEW d, DataOK(d), Uploaded(d, uploads), NEW n \in Nat, Layout(d, n), n <= writes,
           DoInit(d), writes' = writes, faults' = faults + 1, uploads' = uploads,
           sent' = sent, confirmed' = confirmed
    PROVE  IInv'
<1> DEFINE m == ScannedNext(d)
           used == UsedMeta(meta, m)
<1>1. /\ m \in Nat /\ m <= n /\ Layout(d, m)
      /\ Files(d) = {} => m = 0
    BY ScannedIs
<1>2. /\ data' = d /\ meta' = Without(meta, DOMAIN meta \ used)
      /\ first' = IF Files(d) = {} THEN 0 ELSE LowestOf(Files(d))
      /\ next' = m
      /\ digest' = IF m - 1 \in used THEN meta[m - 1][1] ELSE Unset
      /\ unconfirmed' = Unset /\ writing' = Unset /\ outdated' = {}
      /\ resume' \in BOOLEAN
      /\ reader' = [r \in Readers |-> Idle]
    BY DEF DoInit
<1>3. MetaOK(meta)
    BY DEF IInv, TypeOK, MetaOK, MetaEntry
<1> HIDE DEF m
<1>4. used \subseteq ReadableMeta(meta)
    BY <1>1, <1>3, UsedMetaIs
<1> HIDE DEF used
<1>5. MetaOK(meta')
    <2>1. DOMAIN meta' \subseteq DOMAIN meta /\ \A i \in DOMAIN meta' : meta'[i] = meta[i]
        BY <1>2 DEF Without, Files
    <2> QED BY <1>3, <2>1 DEF MetaOK
<1>6. digest' \in {Unset, Torn} \cup Records
    BY <1>2, <1>4 DEF ReadableMeta
<1>7. Files(d) # {} => LowestOf(Files(d)) \in Files(d) /\ \A f \in Files(d) : LowestOf(Files(d)) <= f
    <2>1. Files(d) \in SUBSET Nat
        BY DEF DataOK, Ids
    <2> QED BY <2>1, LowestIs
<1>8. /\ first' \in Ids /\ next' \in Ids /\ next' <= writes
      /\ Files(d) = {} => first' = 0 /\ next' = 0
      /\ \A f \in Files(d) : first' <= f
    BY <1>1, <1>2, <1>7, TypesOf DEF DataOK, Ids
<1>9. CountsInv'
    BY <1>2, <1>8, TypesOf DEF CountsInv, IInv
<1>10. TypeOK'
    <2>1. reader' \in [Readers -> [files : SUBSET Ids, cur : {NoFile} \cup Ids,
                                   pos : Nat, seq : Ids, begun : BOOLEAN]]
        BY <1>2, StorageQueueAssumption DEF Idle, Ids
    <2>2. uploads \subseteq Ids \X Records
        BY TypesOf
    <2> QED BY <1>2, <1>5, <1>6, <1>8, <2>1, <2>2, Zenon DEF TypeOK, DataOK, MetaOK, MetaEntry, Files
<1>11. StartInv' /\ Layout(data', next') /\ Uploaded(data', uploads') /\ Passed(data', first', confirmed')
    BY <1>1, <1>2, <1>8 DEF StartInv, Passed
<1>12. ReadersInv' /\ UploadsAgree'
    BY <1>2 DEF IInv, ReadersInv, UploadsAgree
<1> QED BY <1>9, <1>10, <1>11, <1>12 DEF IInv

\* A crash in any state, with a torn record or not, keeps it and loses no record.
LEMMA CrashKeeps == IInv /\ Crash => IInv' /\ Readable(data) \subseteq Readable(data')
<1> SUFFICES ASSUME IInv, Crash PROVE IInv' /\ Readable(data) \subseteq Readable(data')
    OBVIOUS
<1>1. /\ faults' = faults + 1 /\ writes' = writes /\ uploads' = uploads
      /\ sent' = sent /\ confirmed' = confirmed
    BY DEF Crash
<1>2. CASE writing = Unset /\ DoInit(data)
    <2>1. IInv'
        BY <1>1, <1>2, TypesOf, DoInitKeeps DEF IInv
    <2> QED BY <1>2, <2>1 DEF DoInit
<1>3. ASSUME writing # Unset,
             NEW s \in Partial \cup {<<[id |-> next, rec |-> writing]>>}, DoInit(AppendTo(data, s))
      PROVE  IInv' /\ Readable(data) \subseteq Readable(data')
    <2> DEFINE e == AppendTo(data, s)
    <2>1. FilesInv(e, next + 1) /\ Readable(data) \subseteq Readable(e)
        BY <1>3, AppendStep
    <2>2. next < writes
        BY <1>3 DEF IInv, CountsInv
    <2>3. DoInit(e)
        BY <1>3
    <2>4. next + 1 \in Nat /\ next + 1 <= writes
        BY <2>2, TypesOf
    <2> HIDE DEF e
    <2>5. IInv'
        BY <1>1, <2>1, <2>3, <2>4, DoInitKeeps DEF FilesInv
    <2>6. data' = e
        BY <2>3 DEF DoInit
    <2> QED BY <2>1, <2>5, <2>6
<1> QED BY <1>2, <1>3 DEF Crash

-----------------------------------------------------------------------------
(***************************************************************************)
(* Uploads.                                                                *)
(***************************************************************************)

ReaderType == [files : SUBSET Ids, cur : {NoFile} \cup Ids, pos : Nat, seq : Ids, begun : BOOLEAN]

\* A step that only changes readers, and the history of what they handed on.
LEMMA ReaderStep ==
    ASSUME IInv,
           data' = data, meta' = meta, first' = first, next' = next, unconfirmed' = unconfirmed,
           digest' = digest, writing' = writing, outdated' = outdated,
           resume' = resume, writes' = writes, faults' = faults, confirmed' = confirmed,
           NEW r \in Readers, NEW y \in ReaderType, reader' = [reader EXCEPT ![r] = y],
           y # Idle => GoodReader(data, y),
           sent' \in -1..writes, sent <= sent',
           uploads' \subseteq Ids \X Records, Uploaded(data, uploads'), UploadsAgree'
    PROVE  IInv'
<1>1. TypeOK'
    <2>1. reader \in [Readers -> ReaderType]
        BY DEF IInv, TypeOK, ReaderType
    <2>2. reader' \in [Readers -> ReaderType]
        BY <2>1
    <2> QED BY <2>2, Zenon DEF IInv, TypeOK, ReaderType
<1>2. CountsInv'
    BY TypesOf DEF IInv, CountsInv
<1>3. StartInv' /\ Layout(data', next') /\ Uploaded(data', uploads') /\ Passed(data', first', confirmed')
    BY DEF IInv, StartInv
<1>4. ReadersInv'
    <2>1. reader \in [Readers -> ReaderType]
        BY DEF IInv, TypeOK, ReaderType
    <2>2. \A q \in Readers : reader'[q] = IF q = r THEN y ELSE reader[q]
        BY <2>1
    <2> QED BY <2>2 DEF IInv, ReadersInv
<1> QED BY <1>1, <1>2, <1>3, <1>4 DEF IInv

\* The state of a reader that does not read.
LEMMA IdleType == Idle \in ReaderType
BY StorageQueueAssumption DEF Idle, ReaderType, Ids

\* Handing over a readable record and moving on keeps the invariant.
LEMMA HandedKeeps ==
    ASSUME IInv, NEW r \in Readers, GoodReader(data, reader[r]), reader[r].cur # NoFile,
           NEW y, Moved(data, reader[r], y), Handed(r, reader[r], y)
    PROVE  IInv'
<1> DEFINE x == reader[r]
           isRecord == /\ y.seq = x.seq + 1 /\ y.cur # NoFile /\ y.pos > 0
                       /\ data[y.cur][y.pos].id = x.seq
           z == [y EXCEPT !.begun = TRUE]
<1>1. /\ data' = data /\ meta' = meta /\ first' = first /\ next' = next /\ unconfirmed' = unconfirmed
      /\ digest' = digest /\ writing' = writing /\ outdated' = outdated
      /\ resume' = resume /\ writes' = writes /\ faults' = faults /\ confirmed' = confirmed
    BY DEF Handed, disk
<1>2. /\ IF y.seq = x.seq THEN reader' = [reader EXCEPT ![r] = Idle]
                          ELSE reader' = [reader EXCEPT ![r] = z]
      /\ uploads' = IF isRecord THEN uploads \cup {<<x.seq, data[y.cur][y.pos].rec>>} ELSE uploads
      /\ sent' = IF y.seq - 1 > sent THEN y.seq - 1 ELSE sent
    BY DEF Handed, Complete
<1>3. /\ y \in AnyReader /\ y.files = x.files
      /\ y.cur \in x.files \cup {NoFile}
      /\ y.cur # NoFile => AtRecord(data, y)
      /\ y.cur = NoFile => y.seq <= x.seq + 1
    BY DEF Moved
<1>4. x \in AnyReader /\ x.cur \in x.files /\ x.files \subseteq Files(data) /\ LastFile(data) \notin x.files
    BY TypesOf DEF GoodReader
<1>5. y.seq \in Nat /\ y.pos \in Nat /\ x.seq \in Nat
    BY <1>3, <1>4 DEF AnyReader
<1>6. /\ LastFile(data) \in Files(data) /\ LastFile(data) \in Nat
      /\ \A f \in x.files : f < LastFile(data) /\ f \in Nat
    <2>1. Files(data) # {}
        BY <1>4
    <2>2. /\ LastFile(data) \in Files(data) /\ LastFile(data) \in Nat
          /\ \A f \in Files(data) : f \in Nat /\ f <= LastFile(data)
        BY <2>1, TypesOf, LastFileIs
    <2>3. \A f \in x.files : f \in Files(data) /\ f # LastFile(data)
        BY <1>4
    <2> QED BY <2>2, <2>3
<1>7. ASSUME NEW u, u.cur \in x.files, u.seq = u.cur + u.pos, u.pos <= ValidRecords(data, u.cur), u.pos \in Nat
      PROVE  u.seq <= LastFile(data)
    <2>1. u.cur \in Files(data) /\ u.cur < LastFile(data) /\ u.cur \in Nat
        BY <1>4, <1>6, <1>7
    <2>2. ValidRecords(data, u.cur) \in Nat
        BY <2>1, TypesOf, ValidIs
    <2>3. u.cur + ValidRecords(data, u.cur) <= LastFile(data)
        BY <1>6, <2>1, TypesOf DEF Layout
    <2> QED BY <1>6, <1>7, <2>1, <2>2, <2>3
<1>8. LastFile(data) <= next
    <2>1. ValidRecords(data, LastFile(data)) \in Nat
        BY <1>6, TypesOf, ValidIs
    <2>2. LastFile(data) + ValidRecords(data, LastFile(data)) <= next
        BY <1>6, TypesOf DEF Layout
    <2> QED BY <1>6, <2>1, <2>2, TypesOf
<1>9. x.seq <= LastFile(data)
    <2>1. CASE x.begun
        <3>1. AtRecord(data, x) /\ x.pos \in Nat
            BY <2>1, TypesOf DEF GoodReader, AnyReader
        <3> QED BY <1>4, <1>7, <3>1 DEF AtRecord
    <2>2. CASE ~x.begun
        BY <2>2 DEF GoodReader
    <2> QED BY <2>1, <2>2
<1>10. y.seq <= writes + 1
    <2>1. CASE y.cur = NoFile
        BY <1>3, <1>5, <1>6, <1>8, <1>9, <2>1, TypesOf
    <2>2. CASE y.cur # NoFile
        <3>1. y.seq <= LastFile(data)
            BY <1>3, <1>5, <1>7, <2>2 DEF AtRecord
        <3> QED BY <1>5, <1>6, <1>8, <3>1, TypesOf
    <2> QED BY <2>1, <2>2
<1>11. sent' \in -1..writes /\ sent <= sent'
    BY <1>2, <1>5, <1>10, TypesOf DEF IInv, CountsInv
<1>12. /\ z \in ReaderType
       /\ z.files = y.files /\ z.cur = y.cur /\ z.pos = y.pos /\ z.seq = y.seq /\ z.begun = TRUE
    <2>1. y.seq \in Ids
        BY <1>5, <1>10, TypesOf DEF Ids
    <2> QED BY <1>3, <2>1 DEF AnyReader, ReaderType
<1> HIDE DEF z
<1>13. GoodReader(data, z)
    <2>1. z.files \subseteq Files(data) /\ LastFile(data) \notin z.files /\ z.cur \in z.files \cup {NoFile}
        BY <1>3, <1>4, <1>12
    <2>2. z.cur # NoFile => AtRecord(data, z)
        BY <1>3, <1>12 DEF AtRecord
    <2> QED BY <1>12, <2>1, <2>2 DEF GoodReader
<1> DEFINE f == y.cur
           i == y.pos
           p == <<x.seq, data[f][i].rec>>
<1>14. ASSUME isRecord
       PROVE  /\ p \in Ids \X Records /\ uploads' = uploads \cup {p}
              /\ f \in Files(data) /\ f \in Nat /\ f < LastFile(data) /\ i \in 1..ValidRecords(data, f)
              /\ x.seq = f + i - 1 /\ x.seq < LastFile(data)
    <2>1. f \in Files(data) /\ f \in Nat /\ f < LastFile(data)
        BY <1>3, <1>4, <1>6, <1>14
    <2>2. /\ ValidRecords(data, f) \in Nat
          /\ \A k \in 1..ValidRecords(data, f) : data[f][k].rec \in Records /\ data[f][k].id = f + k - 1
        BY <2>1, TypesOf, ValidIs
    <2>3. i \in 1..ValidRecords(data, f)
        BY <1>3, <1>5, <1>14, <2>2 DEF AtRecord
    <2>4. data[f][i].rec \in Records /\ x.seq = f + i - 1
        BY <1>14, <2>2, <2>3
    <2>5. f + ValidRecords(data, f) <= LastFile(data)
        BY <1>6, <2>1, TypesOf DEF Layout
    <2>6. x.seq < LastFile(data)
        BY <1>6, <2>1, <2>2, <2>3, <2>4, <2>5
    <2>7. x.seq \in Ids
        BY <1>5, <1>6, <1>8, <2>6, TypesOf DEF Ids
    <2>8. uploads' = uploads \cup {p}
        BY <1>2, <1>14
    <2> QED BY <2>1, <2>3, <2>4, <2>6, <2>7, <2>8
<1>15. isRecord => \A g \in Files(data) : \A k \in 1..ValidRecords(data, g) :
                       x.seq = g + k - 1 => data[f][i].rec = data[g][k].rec
    <2> SUFFICES ASSUME isRecord, NEW g \in Files(data), NEW k \in 1..ValidRecords(data, g),
                        x.seq = g + k - 1
                 PROVE  data[f][i].rec = data[g][k].rec
        BY Zenon
    <2> HIDE DEF isRecord, f, i
    <2>1. /\ g \in Nat /\ ValidRecords(data, g) \in Nat
          /\ f \in Nat /\ ValidRecords(data, f) \in Nat
        BY <1>14, TypesOf, ValidIs
    <2>2. /\ f < g => f + ValidRecords(data, f) <= g
          /\ g < f => g + ValidRecords(data, g) <= f
        BY <1>14, TypesOf DEF Layout
    <2>3. x.seq = f + i - 1 /\ i \in 1..ValidRecords(data, f)
        BY <1>14
    <2>4. f = g
        BY <2>1, <2>2, <2>3
    <2>5. i = k
        BY <2>1, <2>3, <2>4
    <2> QED BY <2>4, <2>5
<1>16. uploads' \subseteq Ids \X Records /\ Uploaded(data, uploads') /\ UploadsAgree'
    <2>1. CASE ~isRecord
        <3>1. uploads' = uploads
            BY <1>2, <2>1
        <3> QED BY <3>1, TypesOf DEF IInv, UploadsAgree
    <2>2. CASE isRecord
        <3> HIDE DEF isRecord, f, i
        <3>1. p \in Ids \X Records /\ uploads' = uploads \cup {p} /\ uploads \subseteq Ids \X Records
            BY <1>14, <2>2, TypesOf
        <3>2. p[1] = x.seq /\ p[2] = data[f][i].rec
            OBVIOUS
        <3> HIDE DEF p
        <3>3. \E g \in Files(data) : p[1] < g
            BY <1>6, <1>14, <2>2, <3>2
        <3>4. \A g \in Files(data) : \A k \in 1..ValidRecords(data, g) : p[1] = g + k - 1 => p[2] = data[g][k].rec
            BY <1>15, <2>2, <3>2
        <3>5. Uploaded(data, uploads)
            BY DEF IInv
        <3>6. Uploaded(data, uploads')
            BY <3>1, <3>3, <3>4, <3>5, Zenon DEF Uploaded
        <3>7. \A q \in uploads : q[1] = p[1] => q[2] = p[2]
            BY <1>14, <2>2, <3>2, <3>5 DEF Uploaded
        <3>8. UploadsAgree'
            BY <3>1, <3>7 DEF IInv, UploadsAgree
        <3> QED BY <3>1, <3>6, <3>8
    <2> QED BY <2>1, <2>2
<1> HIDE DEF isRecord
<1>17. CASE y.seq = x.seq
    <2>1. reader' = [reader EXCEPT ![r] = Idle]
        BY <1>2, <1>17
    <2> QED BY <1>1, <1>11, <1>16, <2>1, IdleType, ReaderStep
<1>18. CASE y.seq # x.seq
    <2>1. reader' = [reader EXCEPT ![r] = z]
        BY <1>2, <1>18
    <2> QED BY <1>1, <1>11, <1>12, <1>13, <1>16, <2>1, ReaderStep
<1> QED BY <1>17, <1>18

\* A reader's first step keeps it, wherever the first file starts.
LEMMA BeginUploadingKeeps ==
    ASSUME IInv, NEW r \in Readers, BeginUploading(r)
    PROVE  IInv'
<1> DEFINE x == reader[r]
           late == [x EXCEPT !.seq = x.cur]
           y == IF x.seq < x.cur THEN late ELSE StartUploading(x)
<1>1. x # Idle /\ ~x.begun /\ Handed(r, x, y)
    BY DEF BeginUploading
<1>2. GoodReader(data, x) /\ x \in AnyReader
    BY <1>1, TypesOf DEF IInv, ReadersInv
<1>3. /\ x.cur # NoFile /\ x.cur \in x.files /\ x.files \subseteq Files(data) /\ x.pos = 0
      /\ x.seq \in Nat /\ x.cur \in Nat
    BY <1>1, <1>2 DEF GoodReader, AnyReader, Ids
<1> HIDE DEF x
<1>4. Moved(data, x, y)
    <2>1. CASE x.seq < x.cur
        <3>1. /\ late \in AnyReader
              /\ late.files = x.files /\ late.begun = x.begun /\ late.cur = x.cur
              /\ late.pos = 0 /\ late.seq = x.cur
            BY <1>2, <1>3 DEF AnyReader
        <3> HIDE DEF late
        <3>2. ValidRecords(data, x.cur) \in Nat
            BY <1>3, TypesOf, ValidIs
        <3>3. AtRecord(data, late)
            BY <1>3, <3>1, <3>2 DEF AtRecord
        <3> QED BY <1>3, <2>1, <3>1, <3>3 DEF Moved
    <2>2. CASE ~(x.seq < x.cur)
        <3>1. x.cur <= x.seq
            BY <1>3, <2>2
        <3> QED BY <1>2, <1>3, <2>2, <3>1, TypesOf, StartUploadingIs
    <2> QED BY <2>1, <2>2
<1> HIDE DEF y
<1> QED BY <1>1, <1>2, <1>3, <1>4, HandedKeeps DEF x

\* Any response.
LEMMA CompleteKeeps ==
    ASSUME IInv, NEW r \in Readers, Complete(r),
           UNCHANGED <<disk, first, next, unconfirmed, digest, writing, outdated, resume, history>>
    PROVE  IInv'
<1>1. reader' = [reader EXCEPT ![r] = Idle]
    BY DEF Complete
<1>2. sent' \in -1..writes /\ sent <= sent'
    BY TypesOf DEF IInv, CountsInv, history
<1>3. uploads' \subseteq Ids \X Records /\ Uploaded(data, uploads') /\ UploadsAgree'
    BY TypesOf DEF IInv, UploadsAgree, history
<1>4. /\ data' = data /\ meta' = meta /\ first' = first /\ next' = next /\ unconfirmed' = unconfirmed
      /\ digest' = digest /\ writing' = writing /\ outdated' = outdated
      /\ resume' = resume /\ writes' = writes /\ faults' = faults /\ confirmed' = confirmed
    BY DEF disk, history
<1> QED BY <1>1, <1>2, <1>3, <1>4, IdleType, ReaderStep

\* So does every later step of a reader.
LEMMA NextRecordKeeps ==
    ASSUME IInv, NEW r \in Readers, NextRecord(r)
    PROVE  IInv'
<1> DEFINE x == reader[r]
<1>1. x.begun
    BY DEF NextRecord
<1>2. x # Idle
    BY <1>1 DEF Idle
<1>3. GoodReader(data, x) /\ x \in AnyReader
    BY <1>2, TypesOf DEF IInv, ReadersInv
<1>4. CASE x.cur = NoFile
    BY <1>4, CompleteKeeps DEF NextRecord
<1>5. CASE x.cur # NoFile
    <2>1. Handed(r, x, RecordOrGap(x))
        BY <1>5 DEF NextRecord
    <2>2. x.cur \in x.files /\ x.files \subseteq Files(data) /\ AtRecord(data, x)
        BY <1>1, <1>3, <1>5 DEF GoodReader
    <2>3. Moved(data, x, RecordOrGap(x))
        <3> HIDE DEF x
        <3> QED BY <1>3, <2>2, TypesOf, RecordOrGapIs
    <2> QED BY <1>3, <1>5, <2>1, <2>3, HandedKeeps
<1> QED BY <1>4, <1>5

\* An upload starts at an id that is no later than the first one kept.
LEMMA UploadStartIs ==
    ASSUME IInv
    PROVE  UploadStart \in Ids /\ UploadStart <= first
<1>1. first \in Ids /\ (unconfirmed = Unset \/ unconfirmed \in Ids)
    BY DEF IInv, TypeOK
<1> QED BY <1>1 DEF UploadStart, Ids

\* The reader that PrepareDataFiles() makes of the files d, if it makes one.
NewReader(d) ==
    [files |-> CollectFilesForUpload(d, UploadStart),
     cur |-> LowestOf(CollectFilesForUpload(d, UploadStart)),
     pos |-> 0, seq |-> UploadStart, begun |-> FALSE]

\* A new reader holds closed files only and stands at the start of the first of them.
LEMMA NewReaderIs ==
    ASSUME IInv, NEW d, DataOK(d), Files(d) # {}, ~(UploadStart >= LastFile(d)),
           CollectFilesForUpload(d, UploadStart) # {}
    PROVE  NewReader(d) \in ReaderType /\ GoodReader(d, NewReader(d))
<1> DEFINE files == CollectFilesForUpload(d, UploadStart)
<1>1. files \in SUBSET Files(d) /\ LastFile(d) \notin files
    BY DEF CollectFilesForUpload
<1>2. files \in SUBSET Ids /\ files \in SUBSET Nat
    BY <1>1 DEF DataOK, Ids
<1>3. LowestOf(files) \in files /\ \A g \in files : LowestOf(files) <= g
    <2> HIDE DEF files
    <2> QED BY <1>2, LowestIs DEF files
<1>3a. \A g \in files : g > LowestOf(files) => g > UploadStart
    BY <1>1, <1>3 DEF CollectFilesForUpload
<1>4. UploadStart \in Ids /\ UploadStart \in Nat /\ LastFile(d) \in Nat
    BY UploadStartIs, LastFileIs DEF Ids
<1> HIDE DEF files
<1>5. NewReader(d) = [files |-> files, cur |-> LowestOf(files), pos |-> 0, seq |-> UploadStart, begun |-> FALSE]
    BY DEF NewReader, files
<1>6. NewReader(d) \in ReaderType
    <2>1. files \in SUBSET Ids /\ LowestOf(files) \in {NoFile} \cup Ids
        BY <1>2, <1>3
    <2>2. \A F \in SUBSET Ids, f \in {NoFile} \cup Ids, n \in Ids :
              [files |-> F, cur |-> f, pos |-> 0, seq |-> n, begun |-> FALSE] \in ReaderType
        BY DEF ReaderType
    <2> QED BY <1>4, <1>5, <2>1, <2>2, Zenon
<1>7. LowestOf(files) # NoFile
    BY <1>2, <1>3 DEF NoFile
<1>8. UploadStart <= LastFile(d)
    BY <1>4
<1> QED BY <1>1, <1>3, <1>3a, <1>5, <1>6, <1>7, <1>8 DEF GoodReader

\* Starting an upload, which may close the last file, keeps the invariant and what is readable.
LEMMA StartUploadKeeps ==
    ASSUME IInv, NEW r \in Readers, StartUpload(r)
    PROVE  IInv' /\ Readable(data') = Readable(data)
<1>1. /\ meta' = meta /\ first' = first /\ next' = next /\ unconfirmed' = unconfirmed
      /\ digest' = digest /\ writing' = writing /\ outdated' = outdated /\ resume' = FALSE
      /\ writes' = writes /\ faults' = faults /\ uploads' = uploads /\ sent' = sent
      /\ confirmed' = confirmed
    BY DEF StartUpload, history
<1>2. \/ data' = data /\ reader' = reader
      \/ /\ CanSwitch(data) /\ data' = SwitchLastFileIfNotEmpty(data)
         /\ \/ reader' = reader
            \/ /\ ~(UploadStart >= LastFile(data'))
               /\ CollectFilesForUpload(data', UploadStart) # {}
               /\ reader' = [reader EXCEPT ![r] = NewReader(data')]
    BY DEF StartUpload, NewReader
<1>3. /\ DataOK(data') /\ Layout(data', next) /\ Uploaded(data', uploads)
      /\ \A q \in Readers : reader[q] # Idle => GoodReader(data', reader[q])
      /\ Passed(data', first, confirmed)
      /\ data' = data \/ Files(data') # {}
      /\ Readable(data') = Readable(data)
    <2>1. CASE data' = data
        BY <2>1, TypesOf DEF IInv, ReadersInv
    <2>2. CASE CanSwitch(data) /\ data' = SwitchLastFileIfNotEmpty(data)
        BY <2>2, SwitchStep DEF FilesInv
    <2> QED BY <1>2, <2>1, <2>2
<1>4. \/ reader' = reader
      \/ \E z \in ReaderType : GoodReader(data', z) /\ reader' = [reader EXCEPT ![r] = z]
    <2>1. ASSUME CanSwitch(data), data' = SwitchLastFileIfNotEmpty(data),
                 ~(UploadStart >= LastFile(data')),
                 CollectFilesForUpload(data', UploadStart) # {},
                 reader' = [reader EXCEPT ![r] = NewReader(data')]
          PROVE  \E z \in ReaderType : GoodReader(data', z) /\ reader' = [reader EXCEPT ![r] = z]
        <3>1. Files(data') # {}
            BY <2>1, SwitchStep DEF FilesInv
        <3> QED BY <1>3, <2>1, <3>1, NewReaderIs
    <2> QED BY <1>2, <2>1
<1>5. reader \in [Readers -> ReaderType]
    BY DEF IInv, TypeOK, ReaderType
<1>6. reader' \in [Readers -> ReaderType] /\ ReadersInv'
    <2>1. CASE reader' = reader
        BY <1>3, <1>5, <2>1 DEF ReadersInv
    <2>2. ASSUME NEW z \in ReaderType, GoodReader(data', z), reader' = [reader EXCEPT ![r] = z]
          PROVE  reader' \in [Readers -> ReaderType] /\ ReadersInv'
        <3>1. \A q \in Readers : reader'[q] = IF q = r THEN z ELSE reader[q]
            BY <1>5, <2>2
        <3>2. reader' \in [Readers -> ReaderType]
            BY <1>5, <2>2
        <3> QED BY <1>3, <2>2, <3>1, <3>2 DEF ReadersInv
    <2> QED BY <1>4, <2>1, <2>2
<1>7. TypeOK'
    <2>1. resume' \in BOOLEAN
        BY <1>1
    <2> QED BY <1>1, <1>3, <1>6, <2>1, Zenon DEF IInv, TypeOK, DataOK, ReaderType, Files
<1>8. CountsInv' /\ UploadsAgree'
    BY <1>1 DEF IInv, CountsInv, UploadsAgree
<1>9. StartInv' /\ Layout(data', next') /\ Uploaded(data', uploads') /\ Passed(data', first', confirmed')
    BY <1>1, <1>3 DEF IInv, StartInv
<1> QED BY <1>3, <1>6, <1>7, <1>8, <1>9 DEF IInv

-----------------------------------------------------------------------------
(***************************************************************************)
(* Confirming and shedding.                                                *)
(***************************************************************************)

\* Files are deleted from d when there is no reader, but never the last one.
LEMMA DeleteStep ==
    ASSUME IInv, NEW d, FilesInv(d, next), NEW S, LastFile(d) \notin S, NEW e, e = Without(d, S)
    PROVE  /\ DataOK(e) /\ Layout(e, next) /\ Files(e) # {}
           /\ Files(e) = Files(d) \ S
           /\ Uploaded(e, uploads) /\ Passed(e, first, confirmed)
           /\ \A q \in Readable(d) :
                 \/ q \in Readable(e)
                 \/ \E f \in Files(d) \cap S : \E i \in 1..ValidRecords(d, f) :
                       q = <<d[f][i].id, d[f][i].rec>>
<1>1. DataOK(d) /\ Layout(d, next) /\ Files(d) # {} /\ Uploaded(d, uploads) /\ Passed(d, first, confirmed)
    BY DEF FilesInv
<1>2. /\ DataOK(e) /\ Layout(e, next)
      /\ Files(e) = Files(d) \ S /\ LastFile(e) = LastFile(d) /\ LastFile(d) \in Files(e)
      /\ \A f \in Files(e) : e[f] = d[f] /\ ValidRecords(e, f) = ValidRecords(d, f)
    BY <1>1, WithoutKeeps
<1>3. \A f \in Files(d) : f <= LastFile(d)
    BY <1>1, LastFileIs
<1>4. Uploaded(e, uploads)
    BY <1>1, <1>2, <1>3, TypesOf, UploadedKept
<1>5. Passed(e, first, confirmed)
    BY <1>1, <1>2 DEF Passed
<1>6. ASSUME NEW q \in Readable(d)
      PROVE  \/ q \in Readable(e)
             \/ \E f \in Files(d) \cap S : \E i \in 1..ValidRecords(d, f) : q = <<d[f][i].id, d[f][i].rec>>
    <2>1. PICK f \in Files(d) : \E i \in 1..ValidRecords(d, f) : q = <<d[f][i].id, d[f][i].rec>>
        BY ReadableIs
    <2>2. CASE f \in S
        BY <2>1, <2>2
    <2>3. CASE f \notin S
        <3>1. f \in Files(e) /\ \E i \in 1..ValidRecords(e, f) : q = <<e[f][i].id, e[f][i].rec>>
            BY <1>2, <2>1, <2>3
        <3> QED BY <3>1, ReadableIs
    <2> QED BY <2>2, <2>3
<1> QED BY <1>2, <1>4, <1>5, <1>6

\* When no read is active, files may go without a reader noticing.
LEMMA NoReaders ==
    ASSUME ActiveReads = {}
    PROVE  \A r \in Readers : reader[r] = Idle
BY DEF ActiveReads

\* A confirmation keeps the invariant and deletes records only up to the confirmed id.
LEMMA ConfirmKeeps ==
    ASSUME IInv, NEW id \in {-1} \cup Ids, NEW force \in BOOLEAN, Confirm(id, force)
    PROVE  /\ IInv' /\ reader' = reader
           /\ \A q \in Readable(data) : q \in Readable(data') \/ q[1] <= confirmed'
<1>1. /\ id <= sent /\ confirmed' = (IF id > confirmed THEN id ELSE confirmed)
      /\ meta' = meta /\ next' = next /\ digest' = digest /\ writing' = writing
      /\ outdated' = outdated /\ resume' = resume /\ reader' = reader /\ writes' = writes
      /\ faults' = faults /\ uploads' = uploads /\ sent' = sent
    BY DEF Confirm
<1>2. id \in Int /\ id >= -1 /\ sent <= writes /\ confirmed <= sent
    BY DEF IInv, CountsInv, Ids
<1>3. /\ confirmed' \in Int /\ id <= confirmed' /\ confirmed <= confirmed' /\ confirmed' <= sent
      /\ id + 1 \in Ids
    BY <1>1, <1>2, TypesOf DEF Ids
<1>4. /\ unconfirmed' = unconfirmed \/ unconfirmed' = id + 1
      /\ first' = first \/ first' = id + 1
    BY DEF Confirm
<1>5. /\ DataOK(data') /\ Layout(data', next) /\ Uploaded(data', uploads)
      /\ (Files(data') = {} => Files(data) = {} /\ first' = first)
      /\ Passed(data', first, confirmed)
      /\ \A r \in Readers : reader[r] # Idle => GoodReader(data', reader[r])
      /\ \A q \in Readable(data) : q \in Readable(data') \/ q[1] <= confirmed'
    <2>1. CASE data' = data /\ (first' = first \/ Files(data) # {})
        BY <2>1, TypesOf DEF IInv, ReadersInv
    <2>2. CASE Files(data) # {} /\ ActiveReads = {} /\ data' = Without(data, ConfirmedFiles(id))
        <3>1. FilesInv(data, next)
            BY <2>2, SameFiles
        <3>2. LastFile(data) \notin ConfirmedFiles(id)
            <4>1. LastFile(data) \in Nat /\ \A f \in Files(data) : f \in Nat /\ f <= LastFile(data)
                BY <2>2, TypesOf, LastFileIs
            <4> QED BY <4>1 DEF ConfirmedFiles
        <3>3. /\ DataOK(data') /\ Layout(data', next) /\ Files(data') # {}
              /\ Uploaded(data', uploads) /\ Passed(data', first, confirmed)
              /\ \A q \in Readable(data) :
                    \/ q \in Readable(data')
                    \/ \E f \in Files(data) \cap ConfirmedFiles(id) : \E i \in 1..ValidRecords(data, f) :
                          q = <<data[f][i].id, data[f][i].rec>>
            BY <2>2, <3>1, <3>2, DeleteStep
        <3>4. ASSUME NEW f \in Files(data) \cap ConfirmedFiles(id), NEW i \in 1..ValidRecords(data, f),
                     NEW q, q = <<data[f][i].id, data[f][i].rec>>
              PROVE  q[1] <= confirmed'
            <4>1. PICK g \in Files(data) : g > f /\ g <= id + 1
                BY DEF ConfirmedFiles
            <4>2. /\ f \in Nat /\ g \in Nat /\ ValidRecords(data, f) \in Nat
                  /\ data[f][i].id = f + i - 1
                BY TypesOf, ValidIs
            <4>3. f + ValidRecords(data, f) <= g
                BY <4>1, <4>2, TypesOf DEF Layout
            <4>4. f + i - 1 <= id
                BY <1>2, <4>1, <4>2, <4>3
            <4>5. q[1] = f + i - 1
                BY <3>4, <4>2
            <4> QED BY <1>2, <1>3, <4>2, <4>4, <4>5
        <3>5. \A r \in Readers : reader[r] = Idle
            BY <2>2, NoReaders
        <3> QED BY <2>2, <3>3, <3>4, <3>5
    <2> QED BY <2>1, <2>2 DEF Confirm, RemoveConfirmedData
<1>6. TypeOK'
    <2>1. first' \in Ids /\ unconfirmed' \in {Unset} \cup Ids
        BY <1>3, <1>4 DEF IInv, TypeOK
    <2> QED BY <1>1, <1>5, <2>1, Zenon DEF IInv, TypeOK, DataOK, Files
<1>7. CountsInv'
    BY <1>1, <1>3 DEF IInv, CountsInv
<1>8. StartInv'
    BY <1>1, <1>5 DEF IInv, StartInv
<1>9. Passed(data', first', confirmed')
    <2>1. CASE first' = id + 1
        <3>1. \A a, b \in Int : a <= b => a + 1 <= b + 1
            OBVIOUS
        <3>2. first' <= confirmed' + 1
            BY <1>2, <1>3, <2>1, <3>1, Zenon
        <3> QED BY <3>2 DEF Passed
    <2>2. CASE first' = first
        BY <1>3, <1>5, <2>2, TypesOf DEF Passed
    <2> QED BY <1>4, <2>1, <2>2
<1>10. Layout(data', next') /\ Uploaded(data', uploads') /\ ReadersInv' /\ UploadsAgree'
    BY <1>1, <1>5 DEF IInv, ReadersInv, UploadsAgree
<1> QED BY <1>1, <1>5, <1>6, <1>7, <1>8, <1>9, <1>10 DEF IInv

\* Shedding keeps it and deletes only what it counts as shed.
LEMMA ShedKeeps ==
    ASSUME IInv, Shed
    PROVE  /\ IInv' /\ reader' = reader
           /\ \A q \in Readable(data) : q \in Readable(data') \/ q[1] \in shed'
<1> DEFINE d == IF CanSwitch(data) THEN SwitchLastFileIfNotEmpty(data) ELSE data
<1>1. /\ meta' = meta /\ next' = next /\ unconfirmed' = unconfirmed /\ digest' = digest
      /\ writing' = writing /\ outdated' = outdated /\ resume' = resume /\ reader' = reader
      /\ writes' = writes /\ faults' = faults /\ uploads' = uploads /\ sent' = sent
      /\ confirmed' = confirmed /\ ActiveReads = {} /\ Files(data) # {}
    BY DEF Shed
<1>2. PICK upTo \in Files(d) \ {LastFile(d)} :
          LET S == {f \in Files(d) : f <= upTo}
          IN  /\ data' = Without(d, S) /\ first' = LowestOf(Files(d) \ S)
              /\ shed' = shed \cup {p[1] : p \in Readable([f \in S |-> d[f]])}
    BY DEF Shed, ShedFiles
<1> DEFINE S == {f \in Files(d) : f <= upTo}
<1>3. FilesInv(d, next) /\ Readable(d) = Readable(data)
    BY <1>1, SwitchStep, SameFiles
<1> HIDE DEF d
<1>4. /\ LastFile(d) \in Nat /\ LastFile(d) \in Files(d)
      /\ \A f \in Files(d) : f \in Nat /\ f <= LastFile(d)
    BY <1>3, LastFileIs DEF FilesInv
<1>5. LastFile(d) \notin S
    BY <1>4
<1>6. S \subseteq Files(d)
    OBVIOUS
<1> HIDE DEF S
<1>7. /\ data' = Without(d, S) /\ first' = LowestOf(Files(d) \ S)
      /\ shed' = shed \cup {p[1] : p \in Readable([f \in S |-> d[f]])}
    BY <1>2 DEF S
<1>8. /\ DataOK(data') /\ Layout(data', next) /\ Files(data') # {} /\ Files(data') = Files(d) \ S
      /\ Uploaded(data', uploads)
      /\ \A q \in Readable(d) :
            \/ q \in Readable(data')
            \/ \E f \in Files(d) \cap S : \E i \in 1..ValidRecords(d, f) : q = <<d[f][i].id, d[f][i].rec>>
    BY <1>3, <1>5, <1>7, DeleteStep
<1>9. first' \in Files(data') /\ \A f \in Files(data') : first' <= f
    <2>1. Files(data') \in SUBSET Nat
        BY <1>8 DEF DataOK, Ids
    <2> QED BY <1>7, <1>8, <2>1, LowestIs
<1>10. ASSUME NEW q \in Readable(data), q \notin Readable(data')
       PROVE  q[1] \in shed'
    <2> DEFINE e == [f \in S |-> d[f]]
    <2>1. PICK f \in S : \E i \in 1..ValidRecords(d, f) : q = <<d[f][i].id, d[f][i].rec>>
        BY <1>3, <1>8, <1>10
    <2>2. Files(e) = S /\ e[f] = d[f]
        BY DEF Files
    <2> HIDE DEF e
    <2>3. ValidRecords(e, f) = ValidRecords(d, f)
        BY <2>2, ValidSame
    <2>4. q \in Readable(e)
        BY <2>1, <2>2, <2>3, ReadableIs
    <2>5. shed' = shed \cup {p[1] : p \in Readable(e)}
        BY <1>7 DEF e
    <2> QED BY <2>4, <2>5
<1>11. TypeOK'
    <2>1. first' \in Ids
        BY <1>8, <1>9 DEF DataOK
    <2> QED BY <1>1, <1>8, <2>1, Zenon DEF IInv, TypeOK, DataOK, Files
<1>12. CountsInv' /\ StartInv'
    BY <1>1, <1>8 DEF IInv, CountsInv, StartInv
<1>13. ReadersInv'
    BY <1>1, NoReaders DEF ReadersInv
<1>14. Layout(data', next') /\ Uploaded(data', uploads') /\ UploadsAgree' /\ Passed(data', first', confirmed')
    BY <1>1, <1>8, <1>9 DEF IInv, UploadsAgree, Passed
<1> QED BY <1>1, <1>10, <1>11, <1>12, <1>13, <1>14 DEF IInv

-----------------------------------------------------------------------------
(***************************************************************************)
(* The results.                                                            *)
(***************************************************************************)

\* A step that changes nothing keeps it.
LEMMA StutterKeeps == IInv /\ UNCHANGED vars => IInv'
<1> SUFFICES ASSUME IInv, UNCHANGED vars PROVE IInv'
    OBVIOUS
<1> USE DEF vars, disk, memory, history
<1>1. TypeOK' /\ CountsInv' /\ StartInv'
    BY Zenon DEF IInv, TypeOK, CountsInv, StartInv
<1>2. Layout(data', next') /\ Uploaded(data', uploads') /\ Passed(data', first', confirmed')
    BY Zenon DEF IInv
<1>3. ReadersInv' /\ UploadsAgree'
    BY Zenon DEF IInv, ReadersInv, UploadsAgree
<1> QED BY <1>1, <1>2, <1>3 DEF IInv

\* Every step keeps the invariant.
LEMMA NextIInv == IInv /\ [Next]_vars => IInv'
<1> SUFFICES ASSUME IInv, [Next]_vars PROVE IInv'
    OBVIOUS
<1>1. CASE BeginWrite
    BY <1>1, BeginWriteKeeps
<1>2. CASE FinishWrite
    BY <1>2, FinishWriteKeeps
<1>3. ASSUME NEW keep \in Ids, DeleteOutdatedMetadata(keep) PROVE IInv'
    BY <1>3, DeleteOutdatedMetadataKeeps
<1>4. CASE Crash
    BY <1>4, CrashKeeps
<1>5. ASSUME NEW r \in Readers, StartUpload(r) PROVE IInv'
    BY <1>5, StartUploadKeeps
<1>6. ASSUME NEW r \in Readers, BeginUploading(r) PROVE IInv'
    BY <1>6, BeginUploadingKeeps
<1>7. ASSUME NEW r \in Readers, NextRecord(r) PROVE IInv'
    BY <1>7, NextRecordKeeps
<1>8. ASSUME NEW r \in Readers, StopReading(r) PROVE IInv'
    BY <1>8, CompleteKeeps DEF StopReading
<1>9. ASSUME NEW id \in {-1} \cup Ids, NEW force \in BOOLEAN, Confirm(id, force) PROVE IInv'
    BY <1>9, ConfirmKeeps
<1>10. CASE Shed
    BY <1>10, ShedKeeps
<1>11. CASE UNCHANGED vars
    BY <1>11, StutterKeeps
<1> QED BY <1>1, <1>2, <1>3, <1>4, <1>5, <1>6, <1>7, <1>8, <1>9, <1>10, <1>11 DEF Next

\* The invariant holds in every state of the queue.
THEOREM Inductive == Spec => []IInv
BY InitIInv, NextIInv, PTL DEF Spec

\* Every variable keeps its type: no id, file name or position of a reader leaves
\* its range, over crashes, torn records and confirmations of what is gone.
THEOREM TypeCorrect == Spec => []TypeOK
<1>1. IInv => TypeOK
    BY DEF IInv
<1> QED BY <1>1, Inductive, PTL

\* A sequencing id names one record for ever: crashes, failed appends, repeated
\* uploads and forced confirmations never upload two under one id.
THEOREM IdsNameOneRecord == Spec => []UploadsAgree
<1>1. IInv => UploadsAgree
    BY DEF IInv
<1> QED BY <1>1, Inductive, PTL

\* Neither RemoveConfirmedData() nor ShedFiles() deletes a file under an upload,
\* and WriteHeaderAndBlock() never appends to one.
THEOREM ReadersAreSafe == Spec => []ReadersKeepTheirFiles
<1>1. ASSUME IInv PROVE ReadersKeepTheirFiles
    <2> SUFFICES ASSUME NEW r \in Readers
                 PROVE  /\ reader[r].files \subseteq Files(data)
                        /\ reader[r] # Idle => LastFile(data) \notin reader[r].files
        BY DEF ReadersKeepTheirFiles
    <2>1. CASE reader[r] = Idle
        BY <2>1 DEF Idle
    <2>2. CASE reader[r] # Idle
        BY <1>1, <2>2 DEF IInv, ReadersInv, GoodReader
    <2> QED BY <2>1, <2>2
<1> QED BY <1>1, Inductive, PTL

\* A record that could be read stays readable until the server confirmed it or it
\* was shed: what RemoveConfirmedData() deletes is confirmed to the last record,
\* and DoInit() finds all that was there.
THEOREM RecordsAreKept == Spec => NothingElseIsLost
<1> DEFINE Kept == \A p \in Readable(data) :
                      p \in Readable(data)' \/ p[1] <= confirmed \/ p[1] <= confirmed' \/ p[1] \in shed'
<1>1. ASSUME IInv, [Next]_vars PROVE Kept
    <2>1. CASE BeginWrite
        BY <1>1, <2>1, BeginWriteFiles
    <2>2. CASE FinishWrite
        BY <1>1, <2>2, FinishWriteKeeps
    <2>3. ASSUME NEW keep \in Ids, DeleteOutdatedMetadata(keep) PROVE Kept
        BY <1>1, <2>3, DeleteOutdatedMetadataKeeps
    <2>4. CASE Crash
        BY <1>1, <2>4, CrashKeeps
    <2>5. ASSUME NEW r \in Readers, StartUpload(r) PROVE Kept
        BY <1>1, <2>5, StartUploadKeeps
    <2>6. ASSUME NEW r \in Readers, BeginUploading(r) \/ NextRecord(r) \/ StopReading(r) PROVE Kept
        <3>1. data' = data
            BY <2>6 DEF BeginUploading, NextRecord, StopReading, Handed, disk
        <3> QED BY <3>1
    <2>7. ASSUME NEW id \in {-1} \cup Ids, NEW force \in BOOLEAN, Confirm(id, force) PROVE Kept
        BY <1>1, <2>7, ConfirmKeeps
    <2>8. CASE Shed
        BY <1>1, <2>8, ShedKeeps
    <2>9. CASE UNCHANGED vars
        BY <2>9 DEF vars, disk
    <2> QED BY <1>1, <2>1, <2>2, <2>3, <2>4, <2>5, <2>6, <2>7, <2>8, <2>9 DEF Next
<1> QED BY <1>1, Inductive, PTL DEF Spec, NothingElseIsLost

\* What CollectFilesForUpload() sets aside holds every record of the closed files
\* that the upload's first id does not pass over, and it passes over confirmed
\* ones only.
LEMMA CollectedIs ==
    ASSUME IInv, NEW d, FilesInv(d, next), NEW q \in Readable(d)
    PROVE  \/ q[1] <= confirmed
           \/ q[1] >= LastFile(d)
           \/ /\ q[1] >= NewReader(d).seq
              /\ q \in Readable([f \in NewReader(d).files |-> d[f]])
<1> DEFINE files == CollectFilesForUpload(d, UploadStart)
           e == [f \in files |-> d[f]]
<1>1. DataOK(d) /\ Layout(d, next) /\ Files(d) # {} /\ Passed(d, first, confirmed)
    BY DEF FilesInv
<1>2. PICK f \in Files(d) : \E i \in 1..ValidRecords(d, f) : q = <<d[f][i].id, d[f][i].rec>>
    BY ReadableIs
<1>3. PICK i \in 1..ValidRecords(d, f) : q = <<d[f][i].id, d[f][i].rec>>
    BY <1>2
<1>4. f \in Nat /\ ValidRecords(d, f) \in Nat /\ d[f][i].id = f + i - 1
    BY <1>1, <1>3, ValidIs
<1>5. q[1] = f + i - 1 /\ f <= q[1] /\ q[1] < f + ValidRecords(d, f) /\ q[1] \in Nat
    BY <1>3, <1>4
<1>6. /\ LastFile(d) \in Nat /\ \A g \in Files(d) : g \in Nat
      /\ first \in Nat /\ confirmed \in Int /\ UploadStart \in Nat /\ UploadStart <= first
    BY <1>1, LastFileIs, TypesOf, UploadStartIs DEF Ids
<1> SUFFICES ASSUME ~(q[1] <= confirmed), ~(q[1] >= LastFile(d))
             PROVE  q[1] >= NewReader(d).seq /\ q \in Readable([g \in NewReader(d).files |-> d[g]])
    OBVIOUS
<1>7. first <= q[1]
    <2>1. CASE first <= confirmed + 1
        BY <1>5, <1>6, <2>1
    <2>2. CASE \A g \in Files(d) : first <= g
        BY <1>4, <1>5, <1>6, <2>2
    <2> QED BY <1>1, <2>1, <2>2 DEF Passed
<1>8. f # LastFile(d)
    BY <1>4, <1>5, <1>6
<1>9. ASSUME NEW g \in Files(d), g > f
      PROVE  g > UploadStart
    <2>1. g \in Nat /\ f < g
        BY <1>4, <1>6, <1>9
    <2>2. f + ValidRecords(d, f) <= g
        BY <1>1, <2>1 DEF Layout
    <2> QED BY <1>4, <1>5, <1>6, <1>7, <2>1, <2>2
<1>10. f \in files
    BY <1>8, <1>9 DEF CollectFilesForUpload
<1>11. NewReader(d).seq = UploadStart /\ NewReader(d).files = files
    BY DEF NewReader
<1> HIDE DEF files
<1>12. Files(e) = files /\ e[f] = d[f]
    BY <1>10 DEF Files
<1> HIDE DEF e
<1>13. ValidRecords(e, f) = ValidRecords(d, f)
    BY <1>12, ValidSame
<1>14. q \in Readable(e)
    BY <1>3, <1>10, <1>12, <1>13, ReadableIs
<1>15. [g \in NewReader(d).files |-> d[g]] = e
    BY <1>11 DEF e
<1> QED BY <1>5, <1>6, <1>7, <1>11, <1>14, <1>15

\* A blob that is valid and has the expected id is found.
LEMMA ValidIsOk ==
    ASSUME DataOK(data), NEW f \in Files(data), NEW pos \in Nat, pos < ValidRecords(data, f)
    PROVE  Blob(f, pos, f + pos) = "ok"
<1>1. /\ f \in Nat /\ Len(data[f]) \in Nat /\ ValidRecords(data, f) \in 0..Len(data[f])
      /\ \A i \in 1..ValidRecords(data, f) : data[f][i].id = f + i - 1
    BY ValidIs
<1>2. ~(pos >= Len(data[f])) /\ ~EndsInHeader(f, pos, f + pos)
    BY <1>1 DEF EndsInHeader
<1>3. data[f][pos + 1].id = f + pos
    <2>1. pos + 1 \in 1..ValidRecords(data, f)
        BY <1>1
    <2>2. data[f][pos + 1].id = f + (pos + 1) - 1
        BY <1>1, <2>1
    <2> QED BY <1>1, <2>2
<1> QED BY <1>2, <1>3 DEF Blob

\* A reader that is at a valid record goes on behind it.
LEMMA ValidIsCalled ==
    ASSUME DataOK(data), NEW x \in AnyReader, x.files \subseteq Files(data), x.cur \in x.files,
           AtRecord(data, x), x.pos < ValidRecords(data, x.cur)
    PROVE  LET y == CallRecordOrGap(x)
           IN  y.seq = x.seq + 1 /\ y.cur = x.cur /\ y.pos = x.pos + 1
<1>1. x.seq \in Nat /\ x.pos \in Nat
    BY DEF AnyReader
<1>2. Blob(x.cur, x.pos, x.seq) = "ok"
    BY <1>1, ValidIsOk DEF AtRecord
<1> DEFINE y == CallRecordOrGap(x)
<1>3. y = Placed(x, x.pos + 1, x.seq + 1)
    BY <1>2 DEF CallRecordOrGap, AfterBlob, Placed
<1>4. x.pos + 1 \in Nat /\ x.seq + 1 \in Nat
    BY <1>1
<1> HIDE DEF y
<1>5. y.seq = x.seq + 1 /\ y.cur = x.cur /\ y.pos = x.pos + 1
    BY <1>3, <1>4, PlacedIs
<1> QED BY <1>5 DEF y

\* Whatever file has the record that is due, the reader comes to it: it is in the file
\* the reader is in, or it is the first of the next file and the reader is at the end.
LEMMA DueIsRead ==
    ASSUME DataOK(data), Layout(data, next), NEW x \in AnyReader, x.files \subseteq Files(data),
           x.cur \in x.files, AtRecord(data, x),
           NEW f \in x.files, f <= x.seq, x.seq < f + ValidRecords(data, f)
    PROVE  LET y == RecordOrGap(x)
           IN  y.seq = x.seq + 1 /\ y.cur = f /\ y.pos = x.seq - f + 1
<1> DEFINE valid == ValidRecords(data, x.cur)
           g == FileAfter(x, x.cur)
<1>1. /\ x.seq \in Nat /\ x.pos \in Nat /\ x.cur \in Nat /\ f \in Nat /\ x.cur # NoFile
      /\ x.files \in SUBSET Ids /\ f \in Files(data) /\ f # NoFile
    BY DEF AnyReader, Ids, NoFile
<1>2. /\ valid \in Nat /\ ValidRecords(data, f) \in Nat
      /\ x.seq = x.cur + x.pos /\ x.pos <= valid
    <2>1. valid \in Nat
        BY ValidIs
    <2>2. ValidRecords(data, f) \in Nat
        BY <1>1, ValidIs
    <2> QED BY <2>1, <2>2 DEF AtRecord
<1> HIDE DEF valid
<1>3. CASE f = x.cur
    <2>1. x.pos < valid
        BY <1>1, <1>2, <1>3 DEF valid
    <2> DEFINE y == CallRecordOrGap(x)
    <2>2. y.seq = x.seq + 1 /\ y.cur = x.cur /\ y.pos = x.pos + 1
        BY <2>1, ValidIsCalled DEF valid
    <2> HIDE DEF y
    <2>3. RecordOrGap(x) = y
        <3>1. y.seq # x.seq
            BY <1>1, <2>2
        <3> QED BY <3>1 DEF RecordOrGap, y
    <2> QED BY <1>1, <1>2, <1>3, <2>2, <2>3
<1>4. CASE f < x.cur
    <2>1. f + ValidRecords(data, f) <= x.cur
        BY <1>1, <1>4 DEF Layout
    <2> QED BY <1>1, <1>2, <2>1
<1>5. CASE x.cur < f
    <2>1. \A h \in x.files : h > x.cur => h \in Nat /\ x.cur + valid <= h
        <3> SUFFICES ASSUME NEW h \in x.files, h > x.cur PROVE h \in Nat /\ x.cur + valid <= h
            OBVIOUS
        <3>1. h \in Nat /\ h \in Files(data)
            BY DEF AnyReader, Ids
        <3>2. x.cur < h
            BY <1>1, <3>1
        <3> QED BY <3>1, <3>2 DEF Layout, valid
    <2>2. x.pos = valid /\ x.seq = f
        BY <1>1, <1>2, <1>5, <2>1
    <2>3. g = f
        <3> DEFINE later == {h \in x.files : h > x.cur}
        <3>1. f \in later /\ later \in SUBSET Nat
            BY <1>1, <1>5, <2>1
        <3>2. \A h \in later : f <= h
            BY <1>2, <2>1, <2>2
        <3>3. g = LowestOf(later)
            BY <3>1 DEF FileAfter
        <3> HIDE DEF later
        <3>4. LowestOf(later) \in later /\ \A h \in later : LowestOf(later) <= h
            BY <3>1, LowestIs
        <3>5. LowestOf(later) <= f /\ f <= LowestOf(later) /\ LowestOf(later) \in Nat
            BY <3>1, <3>2, <3>4
        <3> QED BY <1>1, <3>3, <3>5
    <2>4. Blob(f, 0, x.seq) = "ok" /\ 0 < ValidRecords(data, f)
        <3>1. 0 < ValidRecords(data, f) /\ f + 0 = f
            BY <1>1, <1>2, <2>2
        <3>2. Blob(f, 0, f + 0) = "ok"
            BY <1>1, <3>1, ValidIsOk
        <3> QED BY <2>2, <3>1, <3>2
    <2>5. Blob(x.cur, x.pos, x.seq) # "ok"
        <3>1. ~(x.pos < ValidRecords(data, x.cur))
            BY <1>2, <2>2 DEF valid
        <3> QED BY <3>1, BlobOk
    <2> DEFINE moved == [x EXCEPT !.cur = g, !.pos = 0]
    <2>6. /\ moved \in AnyReader /\ moved.files = x.files /\ moved.cur = f
          /\ moved.pos = 0 /\ moved.seq = x.seq
        BY <1>1, <2>3 DEF AnyReader
    <2>7. CASE Blob(x.cur, x.pos, x.seq) = "corrupt"
        <3> DEFINE y == CallRecordOrGap(x)
        <3>1. y = [x EXCEPT !.cur = f, !.pos = 0, !.seq = f]
            BY <1>1, <2>3, <2>5, <2>7 DEF CallRecordOrGap, AfterBlob, GapFrom
        <3>2. /\ y \in AnyReader /\ y.files = x.files /\ y.cur = f
              /\ y.pos = 0 /\ y.seq = f
            <4>1. y = [moved EXCEPT !.seq = f]
                BY <2>3, <3>1
            <4>2. y = Placed(moved, 0, f)
                BY <2>6, <4>1 DEF Placed, AnyReader
            <4> HIDE DEF y, moved
            <4>3. \A z \in AnyReader, n \in Nat :
                      /\ Placed(z, 0, n) \in AnyReader /\ Placed(z, 0, n).files = z.files
                      /\ Placed(z, 0, n).cur = z.cur /\ Placed(z, 0, n).pos = 0
                      /\ Placed(z, 0, n).seq = n
                BY PlacedIs
            <4> QED BY <1>1, <2>6, <4>2, <4>3, Zenon
        <3> HIDE DEF y
        <3>3. RecordOrGap(x) = CallRecordOrGap(y)
            BY <1>1, <2>2, <3>2 DEF RecordOrGap, y
        <3>4. AtRecord(data, y) /\ y.pos < ValidRecords(data, y.cur)
            BY <1>1, <1>2, <2>4, <3>2 DEF AtRecord
        <3> DEFINE z == CallRecordOrGap(y)
        <3>5. z.seq = y.seq + 1 /\ z.cur = y.cur /\ z.pos = y.pos + 1
            BY <3>2, <3>4, ValidIsCalled
        <3> HIDE DEF z
        <3>6. x.seq - f + 1 = 1 /\ y.pos + 1 = 1
            BY <1>1, <2>2, <3>2
        <3> QED BY <2>2, <3>2, <3>3, <3>5, <3>6 DEF z
    <2>8. CASE Blob(x.cur, x.pos, x.seq) # "corrupt"
        <3> DEFINE y == CallRecordOrGap(x)
        <3>1. y = Placed(moved, 1, moved.seq + 1)
            BY <1>1, <2>3, <2>4, <2>5, <2>6, <2>8 DEF CallRecordOrGap, AfterBlob, Placed
        <3> HIDE DEF moved
        <3>2. 1 \in Nat /\ moved.seq + 1 \in Nat
            BY <1>1, <2>6
        <3> HIDE DEF y
        <3>3. y.seq = moved.seq + 1 /\ y.cur = moved.cur /\ y.pos = 1
            <4>1. \A z \in AnyReader, n \in Nat :
                      /\ Placed(z, 1, n).cur = z.cur /\ Placed(z, 1, n).pos = 1
                      /\ Placed(z, 1, n).seq = n
                BY PlacedIs
            <4> QED BY <2>6, <3>1, <3>2, <4>1, Zenon
        <3>4. y.seq # x.seq /\ y.seq = x.seq + 1 /\ y.cur = f
            BY <1>1, <2>6, <3>3
        <3>5. RecordOrGap(x) = y
            BY <3>4 DEF RecordOrGap, y
        <3>6. x.seq - f + 1 = 1
            BY <1>1, <2>2
        <3> QED BY <3>3, <3>4, <3>5, <3>6
    <2> QED BY <2>7, <2>8
<1> QED BY <1>1, <1>3, <1>4, <1>5

\* The record a reader comes to is the one that it hands over.
LEMMA ReadIsHanded ==
    ASSUME NEW r, NEW x, NEW y, Handed(r, x, y), NEW f \in Files(data), DataOK(data), x.seq \in Nat,
           f <= x.seq, x.seq < f + ValidRecords(data, f),
           y.seq = x.seq + 1, y.cur = f, y.pos = x.seq - f + 1
    PROVE  <<x.seq, data[f][x.seq - f + 1].rec>> \in uploads'
<1>1. /\ f \in Nat /\ ValidRecords(data, f) \in Nat
      /\ \A i \in 1..ValidRecords(data, f) : data[f][i].id = f + i - 1
    BY ValidIs
<1>2. x.seq - f + 1 \in 1..ValidRecords(data, f) /\ y.pos > 0 /\ f + (x.seq - f + 1) - 1 = x.seq
    BY <1>1
<1>3. data[y.cur][y.pos].id = x.seq /\ y.cur # NoFile
    BY <1>1, <1>2 DEF NoFile
<1> QED BY <1>2, <1>3 DEF Handed

\* The record that is due, if it can be read from the files that were set aside, is
\* handed over, wherever the reader is.
LEMMA DueIsHanded ==
    ASSUME IInv, NEW r \in Readers, BeginUploading(r) \/ NextRecord(r), reader[r].cur # NoFile
    PROVE  DueRecord(r) \subseteq uploads'
<1> DEFINE x == reader[r]
           e == [f \in x.files |-> data[f]]
<1> SUFFICES ASSUME NEW p \in Readable(e), p[1] = x.seq
             PROVE  p \in uploads'
    BY DEF DueRecord
<1>0. DataOK(data) /\ Layout(data, next)
    BY TypesOf DEF IInv
<1>1. x # Idle
    BY DEF BeginUploading, NextRecord, Idle
<1>2. GoodReader(data, x) /\ x \in AnyReader
    BY <1>1, TypesOf DEF IInv, ReadersInv
<1>3. /\ x.cur \in x.files /\ x.files \subseteq Files(data) /\ x.files \in SUBSET Ids
      /\ x.seq \in Nat /\ x.cur \in Nat
    BY <1>2 DEF GoodReader, AnyReader, Ids, NoFile
<1>4. PICK f \in Files(e) : \E i \in 1..ValidRecords(e, f) : p = <<e[f][i].id, e[f][i].rec>>
    <2> HIDE DEF e
    <2> QED BY ReadableIs
<1>5. f \in x.files /\ e[f] = data[f] /\ f \in Files(data) /\ f \in Nat
    BY <1>3, <1>4 DEF Files, Ids
<1>6. ValidRecords(e, f) = ValidRecords(data, f)
    <2> HIDE DEF e
    <2> QED BY <1>5, ValidSame
<1>7. PICK i \in 1..ValidRecords(data, f) : p = <<data[f][i].id, data[f][i].rec>>
    <2> HIDE DEF e
    <2> QED BY <1>4, <1>5, <1>6
<1>8. /\ ValidRecords(data, f) \in Nat /\ data[f][i].id = f + i - 1
    BY <1>0, <1>5, <1>7, ValidIs
<1>9. /\ f <= x.seq /\ x.seq < f + ValidRecords(data, f) /\ i = x.seq - f + 1
      /\ p = <<x.seq, data[f][x.seq - f + 1].rec>>
    BY <1>3, <1>5, <1>7, <1>8
<1> SUFFICES ASSUME NEW y, Handed(r, x, y), y.seq = x.seq + 1, y.cur = f, y.pos = x.seq - f + 1
             PROVE  p \in uploads'
    <2> HIDE DEF e
    <2>1. CASE NextRecord(r)
        <3>1. Handed(r, x, RecordOrGap(x)) /\ x.begun
            BY <2>1 DEF NextRecord
        <3>2. AtRecord(data, x)
            BY <1>2, <3>1 DEF GoodReader
        <3> DEFINE y == RecordOrGap(x)
        <3>3. y.seq = x.seq + 1 /\ y.cur = f /\ y.pos = x.seq - f + 1
            <4> HIDE DEF x
            <4> QED BY <1>0, <1>2, <1>3, <1>5, <1>9, <3>2, DueIsRead
        <3> QED BY <3>1, <3>3
    <2>2. CASE BeginUploading(r)
        <3>1. ~x.begun /\ Handed(r, x, IF x.seq < x.cur THEN [x EXCEPT !.seq = x.cur] ELSE StartUploading(x))
            BY <2>2 DEF BeginUploading
        <3>2. x.cur <= f /\ (f > x.cur => f > x.seq)
            BY <1>2, <1>5, <3>1 DEF GoodReader
        <3>3. f = x.cur /\ ~(x.seq < x.cur)
            BY <1>3, <1>5, <1>9, <3>2
        <3> DEFINE skip == x.seq - x.cur
                   z == [x EXCEPT !.pos = skip]
        <3>4. skip \in Nat /\ ValidRecords(data, x.cur) >= skip /\ x.seq = x.cur + skip
            BY <1>3, <1>8, <1>9, <3>3
        <3>5. StartUploading(x) = RecordOrGap(z)
            BY <3>4 DEF StartUploading
        <3> HIDE DEF skip
        <3>6. /\ z \in AnyReader /\ z.pos = skip
              /\ z.files = x.files /\ z.cur = x.cur /\ z.seq = x.seq
            BY <1>2, <3>4 DEF AnyReader
        <3> HIDE DEF z, x
        <3>7. AtRecord(data, z)
            BY <1>8, <3>3, <3>4, <3>6 DEF AtRecord
        <3> DEFINE y == RecordOrGap(z)
        <3>8. y.seq = z.seq + 1 /\ y.cur = f /\ y.pos = z.seq - f + 1
            BY <1>0, <1>3, <1>5, <1>9, <3>6, <3>7, DueIsRead
        <3>9. Handed(r, x, y)
            BY <3>1, <3>3, <3>5
        <3> HIDE DEF y
        <3> QED BY <3>6, <3>8, <3>9 DEF x
    <2> QED BY <2>1, <2>2
<1> HIDE DEF x, e
<1> QED BY <1>0, <1>3, <1>5, <1>9, ReadIsHanded

\* An upload sets aside, and starts no later than, every record of the closed files
\* that the server has not confirmed, whatever a forced confirmation, a crash or
\* shedding came before it; and it hands over the record that is due whenever that
\* can be read, so that a gap starts only at a record that is missing.
THEOREM UploadsAreComplete == Spec => UploadsMissNothing
<1> DEFINE Started(r) == reader[r] = Idle /\ reader'[r] # Idle
           Offered(r) == \A p \in Readable(data') :
                            \/ p[1] <= confirmed
                            \/ p[1] >= LastFile(data')
                            \/ /\ p[1] >= reader'[r].seq
                               /\ p \in Readable([f \in reader'[r].files |-> data'[f]])
<1>1. ASSUME IInv, [Next]_vars, NEW r \in Readers, Started(r)
      PROVE  Offered(r)
    <2>8. reader \in [Readers -> ReaderType]
        BY <1>1 DEF IInv, TypeOK, ReaderType
    <2>1. ASSUME NEW q \in Readers, StartUpload(q) PROVE Offered(r)
        <3>1. /\ CanSwitch(data) /\ data' = SwitchLastFileIfNotEmpty(data)
              /\ reader' = [reader EXCEPT ![q] = NewReader(data')]
            BY <1>1, <2>1 DEF StartUpload, NewReader
        <3>2. FilesInv(data', next)
            BY <1>1, <3>1, SwitchStep
        <3>3. q = r /\ reader'[r] = NewReader(data')
            BY <1>1, <2>8, <3>1
        <3> QED BY <1>1, <3>2, <3>3, CollectedIs
    <2>2. CASE reader' = reader \/ reader' = [q \in Readers |-> Idle]
        BY <1>1, <2>2
    <2>3. ASSUME NEW q \in Readers, BeginUploading(q) \/ NextRecord(q) \/ StopReading(q) PROVE FALSE
        <3>1. reader[q] # Idle
            BY <2>3 DEF BeginUploading, NextRecord, StopReading, Idle
        <3>2. \E z : reader' = [reader EXCEPT ![q] = z]
            BY <2>3 DEF BeginUploading, NextRecord, StopReading, Handed, Complete
        <3> QED BY <1>1, <2>8, <3>1, <3>2
    <2>4. CASE BeginWrite \/ FinishWrite \/ Shed \/ UNCHANGED vars
        BY <2>2, <2>4 DEF BeginWrite, FinishWrite, Shed, vars, memory
    <2>5. ASSUME NEW keep \in Ids, DeleteOutdatedMetadata(keep) PROVE Offered(r)
        BY <2>2, <2>5 DEF DeleteOutdatedMetadata
    <2>6. CASE Crash
        BY <2>2, <2>6 DEF Crash, DoInit
    <2>7. ASSUME NEW id \in {-1} \cup Ids, NEW force \in BOOLEAN, Confirm(id, force) PROVE Offered(r)
        BY <2>2, <2>7 DEF Confirm
    <2> QED BY <1>1, <2>1, <2>3, <2>4, <2>5, <2>6, <2>7 DEF Next
<1>2. ASSUME IInv, [Next]_vars
      PROVE  \A r \in Readers : SetsAside(r) /\ HandsOver(r)
    <2>1. \A r \in Readers : Started(r) => Offered(r)
        BY <1>1, <1>2
    <2>2. \A r \in Readers : HandsOver(r)
        BY <1>2, DueIsHanded DEF HandsOver
    <2> QED BY <2>1, <2>2 DEF SetsAside
<1> QED BY <1>2, Inductive, PTL DEF Spec, UploadsMissNothing

=============================================================================
