----------------------------- MODULE AuditLogProofs -----------------------------
(* Proofs about AuditLog: that no durable row is lost but those a prune had    *)
(* not read, and that Follow copies nothing out twice, for any number of       *)
(* shims, prunes, followers, rows and power losses.                            *)
EXTENDS AuditLog, SequenceTheorems, WellFoundedInduction, TLAPS

-----------------------------------------------------------------------------
(* Lines and rows                                                            *)

HeadOf(r) == [row |-> r, part |-> "head"]
TailOf(r) == [row |-> r, part |-> "tail"]

LEMMA LineParts ==
    ASSUME NEW r \in Row
    PROVE  /\ Line(r)[1] = HeadOf(r) /\ Line(r)[2] = TailOf(r)
           /\ HeadOf(r) \in Piece /\ TailOf(r) \in Piece
           /\ Line(r) \in Seq(Piece) /\ Len(Line(r)) = 2
BY DEF Line, HeadOf, TailOf, Piece

\* Content lays row k out at the places 2k - 1 and 2k, and nothing else.
LEMMA ContentAt ==
    ASSUME NEW rows \in Seq(Row)
    PROVE  /\ Content(rows) \in Seq(Piece) /\ Len(Content(rows)) = 2 * Len(rows)
           /\ \A k \in 1..Len(rows) : /\ 2 * k - 1 \in 1..(2 * Len(rows))
                                      /\ 2 * k \in 1..(2 * Len(rows))
                                      /\ Content(rows)[2 * k - 1] = HeadOf(rows[k])
                                      /\ Content(rows)[2 * k] = TailOf(rows[k])
           /\ \A i \in 1..(2 * Len(rows)) : \E k \in 1..Len(rows) : i = 2 * k - 1 \/ i = 2 * k
<1>1. \A i \in 1..(2 * Len(rows)) : /\ (i + 1) \div 2 \in 1..Len(rows)
                                    /\ 2 - (i % 2) \in {1, 2}
  OBVIOUS
<1>2. \A k \in 1..Len(rows) : /\ (2 * k - 1 + 1) \div 2 = k /\ (2 * k - 1) % 2 = 1
                              /\ (2 * k + 1) \div 2 = k /\ (2 * k) % 2 = 0
  OBVIOUS
<1>3. \A i \in 1..(2 * Len(rows)) : i = 2 * ((i + 1) \div 2) - 1 \/ i = 2 * ((i + 1) \div 2)
  OBVIOUS
<1>4. \A k \in 1..Len(rows) : rows[k] \in Row
  OBVIOUS
<1>5. \A i \in 1..(2 * Len(rows)) : Content(rows)[i] = Line(rows[(i + 1) \div 2])[2 - (i % 2)]
  BY DEF Content
<1>6. Content(rows) = [i \in 1..(2 * Len(rows)) |-> Content(rows)[i]] /\ 2 * Len(rows) \in Nat
  BY DEF Content
<1>7. \A i \in 1..(2 * Len(rows)) : Content(rows)[i] \in Piece
  BY <1>1, <1>4, <1>5, LineParts
<1>8. Content(rows) \in Seq(Piece) /\ Len(Content(rows)) = 2 * Len(rows)
  BY <1>6, <1>7
<1>9. ASSUME NEW k \in 1..Len(rows)
      PROVE  /\ 2 * k - 1 \in 1..(2 * Len(rows)) /\ 2 * k \in 1..(2 * Len(rows))
             /\ Content(rows)[2 * k - 1] = HeadOf(rows[k])
             /\ Content(rows)[2 * k] = TailOf(rows[k])
  <2>1. 2 * k - 1 \in 1..(2 * Len(rows)) /\ 2 * k \in 1..(2 * Len(rows))
    OBVIOUS
  <2>2. rows[k] \in Row
    BY <1>4
  <2>3. Content(rows)[2 * k - 1] = Line(rows[k])[1]
    <3>1. (2 * k - 1 + 1) \div 2 = k /\ 2 - ((2 * k - 1) % 2) = 1
      BY <1>2
    <3>2. Content(rows)[2 * k - 1] = Line(rows[(2 * k - 1 + 1) \div 2])[2 - ((2 * k - 1) % 2)]
      BY <1>5, <2>1
    <3> QED BY <3>1, <3>2
  <2>4. Content(rows)[2 * k] = Line(rows[k])[2]
    <3>1. (2 * k + 1) \div 2 = k /\ 2 - ((2 * k) % 2) = 2
      BY <1>2
    <3>2. Content(rows)[2 * k] = Line(rows[(2 * k + 1) \div 2])[2 - ((2 * k) % 2)]
      BY <1>5, <2>1
    <3> QED BY <3>1, <3>2
  <2> QED BY <2>1, <2>2, <2>3, <2>4, LineParts
<1> QED BY <1>1, <1>3, <1>8, <1>9

\* In a log that parses, a row both of whose pieces are there is one of RowsOf.
LEMMA ParsedRows ==
    ASSUME NEW pieces \in Seq(Piece), Parses(pieces)
    PROVE  /\ RowsOf(pieces) \in Seq(Row) /\ pieces = Content(RowsOf(pieces))
           /\ \A r \in Row : Holds(pieces, r) => r \in Range(RowsOf(pieces))
<1> DEFINE rows == RowsOf(pieces)
<1>1. Len(pieces) \div 2 \in Nat /\ \A i \in 1..(Len(pieces) \div 2) : 2 * i \in 1..Len(pieces)
  OBVIOUS
<1>2. \A i \in 1..(Len(pieces) \div 2) : pieces[2 * i].row \in Row
  <2> SUFFICES ASSUME NEW i \in 1..(Len(pieces) \div 2) PROVE pieces[2 * i].row \in Row
    OBVIOUS
  <2>1. pieces[2 * i] \in Piece
    BY <1>1
  <2> QED BY <2>1 DEF Piece
<1>3. rows \in Seq(Row) /\ Len(rows) = Len(pieces) \div 2
  BY <1>1, <1>2 DEF RowsOf
<1>4. pieces = Content(rows)
  BY DEF Parses
<1>5. ASSUME NEW r \in Row, Holds(pieces, r) PROVE r \in Range(rows)
  <2>1. PICK j \in 1..Len(pieces) : pieces[j] = TailOf(r)
    BY <1>5, LineParts DEF Holds
  <2>2. j \in 1..(2 * Len(rows)) /\ pieces[j] = Content(rows)[j]
    BY <1>3, <1>4, ContentAt
  <2>3. PICK k \in 1..Len(rows) : j = 2 * k - 1 \/ j = 2 * k
    BY <1>3, <2>2, ContentAt
  <2>4. Content(rows)[2 * k - 1] = HeadOf(rows[k]) /\ Content(rows)[2 * k] = TailOf(rows[k])
    BY <1>3, ContentAt
  <2>5. TailOf(r) \in {HeadOf(rows[k]), TailOf(rows[k])}
    BY <2>1, <2>2, <2>3, <2>4
  <2> HIDE DEF rows
  <2>6. rows[k] = r
    BY <2>5 DEF HeadOf, TailOf
  <2>7. DOMAIN rows = 1..Len(rows)
    BY <1>3
  <2> QED BY <2>6, <2>7 DEF Range
<1> QED BY <1>3, <1>4, <1>5

\* A file written from rows holds each of them.
LEMMA ContentHolds ==
    ASSUME NEW rows \in Seq(Row), NEW r \in Range(rows)
    PROVE  Holds(Content(rows), r)
<1>1. PICK k \in 1..Len(rows) : rows[k] = r
  BY DEF Range
<1>2. r \in Row
  BY <1>1
<1>3. /\ 2 * k - 1 \in DOMAIN Content(rows) /\ 2 * k \in DOMAIN Content(rows) /\ 2 * k - 1 < 2 * k
      /\ Content(rows)[2 * k - 1] = HeadOf(r) /\ Content(rows)[2 * k] = TailOf(r)
  <2>1. DOMAIN Content(rows) = 1..(2 * Len(rows))
    BY ContentAt
  <2>2. 2 * k - 1 < 2 * k
    OBVIOUS
  <2> QED BY <1>1, <2>1, <2>2, ContentAt
<1> QED BY <1>2, <1>3, LineParts DEF Holds

-----------------------------------------------------------------------------
(* What a prune keeps                                                        *)

LEMMA LeastElement ==
    ASSUME NEW S \in SUBSET Nat, S # {}
    PROVE  \E m \in S : \A k \in S : m <= k
<1>1. IsWellFoundedOn(OpToRel(<, Nat), Nat)
  BY NatLessThanWellFounded
<1>2. PICK m \in S : \A k \in S : <<k, m>> \notin OpToRel(<, Nat)
  BY <1>1, WFMin
<1>3. ASSUME NEW k \in S PROVE m <= k
  <2>1. ~(k < m)
    BY <1>2 DEF OpToRel
  <2> QED BY <2>1
<1> QED BY <1>3

\* The loop's step.
Keep(rows, f, n) ==
    IF n = 0 THEN <<>> ELSE IF rows[n] \in Old THEN f[n - 1] ELSE Append(f[n - 1], rows[n])

LEMMA LoopExists ==
    ASSUME NEW rows, NEW n \in Nat
    PROVE  \E f : f = [k \in 0..n |-> Keep(rows, f, k)]
<1> DEFINE Missing == {m \in Nat : ~\E f : f = [k \in 0..m |-> Keep(rows, f, k)]}
<1> SUFFICES ASSUME Missing # {} PROVE FALSE
  OBVIOUS
<1>1. PICK m \in Missing : \A k \in Missing : m <= k
  BY LeastElement
<1>2. m # 0
  <2> DEFINE f == [k \in 0..0 |-> <<>>]
  <2>1. f = [k \in 0..0 |-> Keep(rows, f, k)]
    BY DEF Keep
  <2> QED BY <2>1
<1>3. m - 1 \in Nat /\ m - 1 \notin Missing
  BY <1>1, <1>2
<1>4. PICK f : f = [k \in 0..(m - 1) |-> Keep(rows, f, k)]
  BY <1>3
<1> DEFINE g == [k \in 0..m |-> IF k < m THEN f[k] ELSE Keep(rows, f, m)]
<1>5. ASSUME NEW k \in 0..m PROVE g[k] = Keep(rows, g, k)
  <2>1. k # 0 => k - 1 \in 0..(m - 1) /\ g[k - 1] = f[k - 1]
    OBVIOUS
  <2>2. Keep(rows, g, k) = Keep(rows, f, k)
    BY <2>1 DEF Keep
  <2>3. k < m => f[k] = Keep(rows, f, k)
    BY <1>4
  <2> QED BY <2>2, <2>3
<1>6. g = [k \in 0..m |-> Keep(rows, g, k)]
  BY <1>5
<1> QED BY <1>1, <1>6

LEMMA RecentEquation ==
    ASSUME NEW rows \in Seq(Row)
    PROVE  /\ Recent(rows)[0] = <<>>
           /\ \A n \in 1..Len(rows) :
                 Recent(rows)[n] = IF rows[n] \in Old THEN Recent(rows)[n - 1]
                                   ELSE Append(Recent(rows)[n - 1], rows[n])
<1> DEFINE F == CHOOSE f : f = [k \in 0..Len(rows) |-> Keep(rows, f, k)]
<1>1. F = [k \in 0..Len(rows) |-> Keep(rows, F, k)]
  BY LoopExists
<1>2. Recent(rows) = F
  BY DEF Recent, Keep
<1> HIDE DEF F
<1>3. \A k \in 0..Len(rows) : F[k] = Keep(rows, F, k)
  BY <1>1
<1> QED BY <1>2, <1>3 DEF Keep

\* What the loop has kept of the first n rows: they are recent, each stands no
\* further on than it stood, and none is left out.
KeptOf(rows, n, kept) ==
    /\ kept \in Seq(Row) /\ Len(kept) <= n
    /\ \A m \in 1..Len(kept) : kept[m] \notin Old /\ \E k \in m..n : rows[k] = kept[m]
    /\ \A k \in 1..n : rows[k] \notin Old => \E m \in 1..Len(kept) : kept[m] = rows[k]

LEMMA RecentKept ==
    ASSUME NEW rows \in Seq(Row)
    PROVE  \A n \in 0..Len(rows) : KeptOf(rows, n, Recent(rows)[n])
<1> DEFINE Bad == {n \in 0..Len(rows) : ~KeptOf(rows, n, Recent(rows)[n])}
<1> SUFFICES ASSUME Bad # {} PROVE FALSE
  OBVIOUS
<1>1. PICK n \in Bad : \A k \in Bad : n <= k
  <2>1. Bad \in SUBSET Nat
    OBVIOUS
  <2> QED BY <2>1, LeastElement
<1>2. n # 0
  <2>1. KeptOf(rows, 0, <<>>)
    BY DEF KeptOf
  <2> QED BY <1>1, <2>1, RecentEquation
<1>3. n \in 1..Len(rows) /\ n - 1 \in 0..Len(rows) /\ n - 1 \notin Bad /\ rows[n] \in Row
  BY <1>1, <1>2
<1> DEFINE before == Recent(rows)[n - 1]
           kept == Recent(rows)[n]
<1>4. KeptOf(rows, n - 1, before)
  BY <1>3
<1>5. kept = IF rows[n] \in Old THEN before ELSE Append(before, rows[n])
  BY <1>3, RecentEquation
<1> HIDE DEF before, kept, Bad
<1>6. ASSUME rows[n] \in Old PROVE KeptOf(rows, n, kept)
  <2>1. kept = before
    BY <1>5, <1>6
  <2>2. \A m \in 1..Len(kept) : kept[m] \notin Old /\ \E k \in m..n : rows[k] = kept[m]
    <3> SUFFICES ASSUME NEW m \in 1..Len(kept)
                 PROVE  kept[m] \notin Old /\ \E k \in m..n : rows[k] = kept[m]
      OBVIOUS
    <3>1. PICK k \in m..(n - 1) : rows[k] = kept[m] /\ kept[m] \notin Old
      BY <1>4, <2>1 DEF KeptOf
    <3>2. k \in m..n
      BY <1>3
    <3> QED BY <3>1, <3>2
  <2>3. \A k \in 1..n : rows[k] \notin Old => k \in 1..(n - 1)
    BY <1>3, <1>6
  <2>4. kept \in Seq(Row) /\ Len(kept) <= n
    BY <1>3, <1>4, <2>1 DEF KeptOf
  <2> QED BY <1>4, <2>1, <2>2, <2>3, <2>4 DEF KeptOf
<1>7. ASSUME rows[n] \notin Old PROVE KeptOf(rows, n, kept)
  <2>1. /\ kept \in Seq(Row) /\ Len(kept) = Len(before) + 1 /\ kept[Len(kept)] = rows[n]
        /\ Len(before) \in Nat /\ Len(before) <= n - 1
        /\ \A m \in 1..Len(before) : kept[m] = before[m]
    BY <1>3, <1>4, <1>5, <1>7 DEF KeptOf
  <2>2. ASSUME NEW m \in 1..Len(kept)
        PROVE  kept[m] \notin Old /\ \E k \in m..n : rows[k] = kept[m]
    <3>1. CASE m = Len(kept)
      BY <1>3, <1>7, <2>1, <3>1
    <3>2. CASE m # Len(kept)
      <4>1. m \in 1..Len(before)
        BY <2>1, <3>2
      <4>2. PICK k \in m..(n - 1) : rows[k] = before[m]
        BY <1>4, <4>1 DEF KeptOf
      <4>3. k \in m..n
        BY <1>3
      <4>4. before[m] \notin Old
        BY <1>4, <4>1 DEF KeptOf
      <4>5. kept[m] = before[m]
        BY <2>1, <4>1
      <4> QED BY <4>2, <4>3, <4>4, <4>5
    <3> QED BY <3>1, <3>2
  <2>3. ASSUME NEW k \in 1..n, rows[k] \notin Old PROVE \E m \in 1..Len(kept) : kept[m] = rows[k]
    <3>1. CASE k = n
      BY <2>1, <3>1
    <3>2. CASE k # n
      <4>1. k \in 1..(n - 1)
        BY <1>3, <3>2
      <4>2. PICK m \in 1..Len(before) : before[m] = rows[k]
        BY <1>4, <2>3, <4>1 DEF KeptOf
      <4>3. m \in 1..Len(kept) /\ kept[m] = rows[k]
        BY <2>1, <4>2
      <4> QED BY <4>3
    <3> QED BY <3>1, <3>2
  <2> QED BY <1>3, <2>1, <2>2, <2>3 DEF KeptOf
<1>8. KeptOf(rows, n, kept)
  BY <1>6, <1>7
<1> QED BY <1>1, <1>8 DEF Bad, kept

-----------------------------------------------------------------------------
(* Types                                                                     *)

\* What a copy writes is a part of the log that begins behind the offset.
LEMMA PartOf ==
    ASSUME NEW S, NEW log \in Seq(S), NEW k \in Nat, NEW n \in k..Len(log),
           NEW x \in Range(SubSeq(log, k + 1, n))
    PROVE  x \in S /\ \E i \in (k + 1)..n : i \in 1..Len(log) /\ x = log[i]
<1> DEFINE part == SubSeq(log, k + 1, n)
<1>1. /\ k + 1 \in 1..(Len(log) + 1) /\ n \in (k + 1) - 1..Len(log) /\ Len(log) \in Nat
  OBVIOUS
<1>2. /\ part \in Seq(S)
      /\ Len(part) = IF k + 1 <= n THEN n - (k + 1) + 1 ELSE 0
      /\ \A i \in 1..(n - (k + 1) + 1) : part[i] = log[(k + 1) + i - 1]
  BY <1>1, SubSeqProperties
<1> HIDE DEF part
<1>3. PICK j \in 1..Len(part) : x = part[j]
  BY <1>2 DEF Range, part
<1>4. /\ j \in 1..(n - (k + 1) + 1) /\ k + j \in (k + 1)..n /\ k + j \in 1..Len(log)
      /\ (k + 1) + j - 1 = k + j
  BY <1>1, <1>2, <1>3
<1>5. x = log[k + j]
  BY <1>2, <1>3, <1>4
<1> QED BY <1>4, <1>5

LEMMA LogType ==
    ASSUME TypeOK
    PROVE  Log \in Seq(Piece)
BY DEF TypeOK, Log

LEMMA KeptType ==
    ASSUME TypeOK, NEW p \in Pruner
    PROVE  /\ Kept(p) \in Seq(Row)
           /\ \A r \in Range(records[p]) \ Old : r \in Range(Kept(p))
<1>1. records[p] \in Seq(Row)
  BY DEF TypeOK
<1>2. KeptOf(records[p], Len(records[p]), Kept(p))
  BY <1>1, RecentKept DEF Kept
<1>3. ASSUME NEW r \in Range(records[p]) \ Old PROVE r \in Range(Kept(p))
  <2>1. PICK k \in 1..Len(records[p]) : records[p][k] = r
    BY <1>1, <1>3 DEF Range
  <2>2. PICK m \in 1..Len(Kept(p)) : Kept(p)[m] = r
    BY <1>2, <1>3, <2>1 DEF KeptOf
  <2>3. DOMAIN Kept(p) = 1..Len(Kept(p))
    BY <1>2 DEF KeptOf
  <2> QED BY <2>2, <2>3 DEF Range
<1> QED BY <1>2, <1>3 DEF KeptOf

LEMMA InitType ==
    ASSUME Init
    PROVE  TypeOK
<1>1. Past \in Seq(Row)
  BY RowAssumption DEF Row
<1>2. Content(Past) \in Seq(Piece) /\ <<>> \in Seq(Piece) /\ <<>> \in Seq(Row)
  BY <1>1, ContentAt
<1>3. content \in [Inode -> Seq(Piece)]
  BY <1>2 DEF Init
<1>4. synced \in [Inode -> Nat] /\ \A i \in Inode : synced[i] <= Len(content[i])
  BY <1>3 DEF Init
<1>5. path \in Inode \cup {None}
  BY DEF Init, Inode
<1> QED BY <1>2, <1>3, <1>4, <1>5, LossAssumption DEF Init, TypeOK

\* A power loss leaves each file a part of it that has all of what was durable.
LEMMA Survivors ==
    ASSUME TypeOK, PowerLoss
    PROVE  /\ content' \in [Inode -> Seq(Piece)] /\ synced' \in [Inode -> Nat]
           /\ \A i \in Inode : /\ synced'[i] = Len(content'[i])
                               /\ synced[i] <= Len(content'[i]) /\ Len(content'[i]) <= Len(content[i])
                               /\ \A n \in 1..Len(content'[i]) : content'[i][n] = content[i][n]
<1>1. ASSUME NEW i \in Inode
      PROVE  /\ content'[i] \in Seq(Piece)
             /\ synced[i] <= Len(content'[i]) /\ Len(content'[i]) <= Len(content[i])
             /\ \A n \in 1..Len(content'[i]) : content'[i][n] = content[i][n]
  <2>1. content[i] \in Seq(Piece) /\ synced[i] \in Nat /\ Len(content[i]) \in Nat
    BY DEF TypeOK
  <2>2. PICK n \in synced[i]..Len(content[i]) : content'[i] = SubSeq(content[i], 1, n)
    BY DEF PowerLoss, Survives
  <2>3. n \in 0..Len(content[i])
    BY <2>1, <2>2
  <2>4. /\ SubSeq(content[i], 1, n) \in Seq(Piece) /\ Len(SubSeq(content[i], 1, n)) = n
        /\ \A k \in 1..n : SubSeq(content[i], 1, n)[k] = content[i][k]
    BY <2>1, <2>3, SubSeqProperties
  <2> QED BY <2>1, <2>2, <2>3, <2>4
<1>2. content' \in [Inode -> Seq(Piece)]
  <2>1. content' = [i \in Inode |-> content'[i]]
    BY DEF PowerLoss
  <2> QED BY <1>1, <2>1
<1>3. synced' = [i \in Inode |-> Len(content'[i])]
  BY DEF PowerLoss
<1>4. \A i \in Inode : Len(content'[i]) \in Nat
  BY <1>2
<1> QED BY <1>1, <1>2, <1>3, <1>4

LEMMA GrowType ==
    ASSUME TypeOK, NEW i \in Inode, NEW pieces \in Seq(Piece), Grow(i, pieces)
    PROVE  /\ content' \in [Inode -> Seq(Piece)]
           /\ \A j \in Inode : /\ Len(content'[j]) = Len(content[j]) + IF j = i THEN Len(pieces) ELSE 0
                               /\ \A n \in 1..Len(content[j]) : content'[j][n] = content[j][n]
           /\ \A n \in 1..Len(pieces) : content'[i][Len(content[i]) + n] = pieces[n]
<1>1. content' = [content EXCEPT ![i] = content[i] \o pieces] /\ content[i] \in Seq(Piece)
  BY DEF Grow, TypeOK
<1>2. /\ content[i] \o pieces \in Seq(Piece) /\ Len(content[i] \o pieces) = Len(content[i]) + Len(pieces)
      /\ \A n \in 1..Len(content[i]) : (content[i] \o pieces)[n] = content[i][n]
      /\ \A n \in 1..Len(pieces) : (content[i] \o pieces)[Len(content[i]) + n] = pieces[n]
  BY <1>1
<1>3. \A j \in Inode : Len(content[j]) \in Nat
  BY DEF TypeOK
<1>4. content'[i] = content[i] \o pieces /\ \A j \in Inode \ {i} : content'[j] = content[j]
  BY <1>1 DEF TypeOK
<1>5. content' \in [Inode -> Seq(Piece)]
  BY <1>1, <1>2 DEF TypeOK
<1>6. ASSUME NEW j \in Inode
      PROVE  /\ Len(content'[j]) = Len(content[j]) + IF j = i THEN Len(pieces) ELSE 0
             /\ \A n \in 1..Len(content[j]) : content'[j][n] = content[j][n]
  <2>1. CASE j = i
    BY <1>2, <1>4, <2>1
  <2>2. CASE j # i
    BY <1>3, <1>4, <2>2
  <2> QED BY <2>1, <2>2
<1> QED BY <1>2, <1>4, <1>5, <1>6

LEMMA FileSteps ==
    ASSUME TypeOK, NEW w \in Writer, fd[w] \in Inode, WriteAll(w) \/ WriteHead(w) \/ WriteTail(w)
    PROVE  \E pieces \in Seq(Piece) : Grow(fd[w], pieces)
<1>1. w \in Row
  BY DEF Row
<1>2. Line(w) \in Seq(Piece) /\ <<Line(w)[1]>> \in Seq(Piece) /\ <<Line(w)[2]>> \in Seq(Piece)
  BY <1>1, LineParts
<1> QED BY <1>2 DEF WriteAll, WriteHead, WriteTail

\* Each writer that has got as far has a file open.
FdOK == \A w \in Writer : writer[w] \in {"open", "torn", "written", "logged"} => fd[w] \in Inode

\* Nothing is in a prune's temp file before the prune writes it.
TempUnwritten == \A p \in Pruner : pruner[p] \in {"start", "read"} => content[p] = <<>> /\ synced[p] = 0

LEMMA TypeStep ==
    ASSUME TypeOK, FdOK, TempUnwritten, [Next]_vars
    PROVE  TypeOK'
<1> USE DEF TypeOK
<1>1. ASSUME NEW w \in Writer, WriteAll(w) \/ WriteHead(w) \/ WriteTail(w) PROVE TypeOK'
  <2>1. fd[w] \in Inode
    BY <1>1 DEF FdOK, WriteAll, WriteHead, WriteTail
  <2>2. PICK pieces \in Seq(Piece) : Grow(fd[w], pieces)
    BY <1>1, <2>1, FileSteps
  <2>3. /\ content' \in [Inode -> Seq(Piece)]
        /\ \A j \in Inode : Len(content'[j]) = Len(content[j])
                               + IF j = fd[w] THEN Len(pieces) ELSE 0
    BY <2>1, <2>2, GrowType
  <2>4. \A j \in Inode : Len(content[j]) \in Nat /\ Len(pieces) \in Nat
    OBVIOUS
  <2>5. \A i \in Inode : synced[i] <= Len(content'[i])
    BY <2>3, <2>4
  <2>6. /\ writer' \in [Writer -> {"start", "open", "torn", "written", "logged", "failed"}]
        /\ UNCHANGED <<path, synced, losses, fd, prunerVars, followerVars>>
    BY <1>1 DEF WriteAll, WriteHead, WriteTail
  <2> QED BY <2>3, <2>5, <2>6 DEF prunerVars, followerVars
<1>2. ASSUME NEW w \in Writer, Open(w) PROVE TypeOK'
  BY <1>2 DEF Open, prunerVars, followerVars, Inode
<1>3. ASSUME NEW w \in Writer, SyncLog(w) PROVE TypeOK'
  <2>1. fd[w] \in Inode /\ \A i \in Inode : Len(content[i]) \in Nat
    BY <1>3 DEF FdOK, SyncLog
  <2>2. synced' \in [Inode -> Nat] /\ \A i \in Inode : synced'[i] <= Len(content[i])
    BY <1>3, <2>1 DEF SyncLog
  <2> QED BY <1>3, <2>2 DEF SyncLog, prunerVars, followerVars
<1>4. ASSUME NEW w \in Writer, FailLog(w) PROVE TypeOK'
  BY <1>4 DEF FailLog, fileVars, prunerVars, followerVars
<1>5. ASSUME NEW p \in Pruner, ReadRecords(p) PROVE TypeOK'
  <2>1. Parses(Log) => RowsOf(Log) \in Seq(Row)
    BY LogType, ParsedRows
  <2> QED BY <1>5, <2>1 DEF ReadRecords, fileVars, writerVars, followerVars
<1>6. ASSUME NEW p \in Pruner, WriteTemp(p) PROVE TypeOK'
  <2>1. p \in Inode /\ Content(Kept(p)) \in Seq(Piece)
    BY KeptType, ContentAt DEF Inode
  <2>2. content' \in [Inode -> Seq(Piece)] /\ \A i \in Inode \ {p} : content'[i] = content[i]
    BY <1>6, <2>1 DEF WriteTemp
  <2>3. synced[p] = 0
    BY <1>6 DEF TempUnwritten, WriteTemp
  <2>4. ASSUME NEW i \in Inode PROVE synced[i] <= Len(content'[i])
    <3>1. CASE i = p
      <4>1. content'[i] \in Seq(Piece)
        BY <2>2
      <4> QED BY <2>3, <3>1, <4>1
    <3>2. CASE i # p
      BY <2>2, <3>2
    <3> QED BY <3>1, <3>2
  <2> QED BY <1>6, <2>2, <2>4 DEF WriteTemp, writerVars, followerVars
<1>7. ASSUME NEW p \in Pruner, SyncTemp(p) PROVE TypeOK'
  <2>1. p \in Inode /\ \A i \in Inode : Len(content[i]) \in Nat
    BY DEF Inode
  <2>2. synced' \in [Inode -> Nat] /\ \A i \in Inode : synced'[i] <= Len(content[i])
    BY <1>7, <2>1 DEF SyncTemp
  <2> QED BY <1>7, <2>2 DEF SyncTemp, writerVars, followerVars
<1>8. ASSUME NEW p \in Pruner, Rename(p) \/ FailPrune(p) PROVE TypeOK'
  BY <1>8 DEF Rename, FailPrune, fileVars, writerVars, followerVars, Inode
<1>9. ASSUME NEW o \in Follower, List(o) PROVE TypeOK'
  <2>1. Parses(Log) => RowsOf(Log) \in Seq(Row)
    BY LogType, ParsedRows
  <2> QED BY <1>9, <2>1 DEF List, fileVars, writerVars, prunerVars
<1>10. ASSUME NEW o \in Follower, Follow(o) PROVE TypeOK'
  <2>1. Log \in Seq(Piece) /\ Len(Log) \in Nat
    BY LogType
  <2> QED BY <1>10, <2>1 DEF Follow, fileVars, writerVars, prunerVars
<1>11. ASSUME NEW o \in Follower, Poll(o) PROVE TypeOK'
  <2>1. Log \in Seq(Piece) /\ Len(Log) \in Nat
    BY LogType
  <2>2. offset[o] + 1 \in 1..(Len(Log) + 1) \/ offset[o] + 1 > Len(Log)
    BY <2>1
  <2>3. SubSeq(Log, offset[o] + 1, Len(Log)) \in Seq(Piece)
    BY <2>1
  <2>4. shown[o] \o SubSeq(Log, offset[o] + 1, Len(Log)) \in Seq(Piece)
    BY <2>3
  <2>5. /\ shown' \in [Follower -> Seq(Piece)] /\ offset' \in [Follower -> Nat]
        /\ cut' \in [Follower -> SUBSET Piece]
    BY <1>11, <2>1, <2>4 DEF Poll
  <2> QED BY <1>11, <2>5 DEF Poll, fileVars, writerVars, prunerVars
<1>12. ASSUME NEW o \in Follower, PollFails(o) \/ StopFollowing(o) PROVE TypeOK'
  <2>1. CASE PollFails(o)
    <3>1. Log \in Seq(Piece) /\ offset[o] \in Nat
      BY LogType
    <3>2. PICK n \in offset[o]..Len(Log) :
             cut' = [cut EXCEPT ![o] = @ \cup Range(SubSeq(Log, offset[o] + 1, n))]
      BY <2>1 DEF PollFails
    <3>3. \A x \in Range(SubSeq(Log, offset[o] + 1, n)) : x \in Piece
      BY <3>1, PartOf
    <3>4. cut' \in [Follower -> SUBSET Piece]
      BY <3>2, <3>3
    <3> QED BY <2>1, <3>4 DEF PollFails, fileVars, writerVars, prunerVars
  <2>2. CASE StopFollowing(o)
    BY <2>2 DEF StopFollowing, fileVars, writerVars, prunerVars
  <2> QED BY <1>12, <2>1, <2>2
<1>13. CASE PowerLoss
  <2>1. /\ content' \in [Inode -> Seq(Piece)] /\ synced' \in [Inode -> Nat]
        /\ \A i \in Inode : synced'[i] <= Len(content'[i])
    BY <1>13, Survivors
  <2>2. losses' \in 0..MaxLosses
    <3>1. losses < MaxLosses /\ losses' = losses + 1 /\ losses \in 0..MaxLosses
      BY <1>13 DEF PowerLoss
    <3> QED BY <3>1, LossAssumption
  <2>3. UNCHANGED <<path, fd, records, listed, base, offset, shown, cut>>
    BY <1>13 DEF PowerLoss
  <2>4. writer' \in [Writer -> {"start", "open", "torn", "written", "logged", "failed"}]
    BY <1>13 DEF PowerLoss
  <2>5. pruner' \in [Pruner -> {"start", "read", "temp", "synced", "pruned", "failed"}]
    BY <1>13 DEF PowerLoss
  <2>6. follower' \in [Follower -> {"start", "listed", "following", "failed"}]
    BY <1>13 DEF PowerLoss
  <2> QED BY <2>1, <2>2, <2>3, <2>4, <2>5, <2>6
<1>14. CASE UNCHANGED vars
  BY <1>14 DEF vars, fileVars, writerVars, prunerVars, followerVars
<1>15. ASSUME NEW w \in Writer, Write(w) PROVE TypeOK'
  BY <1>1, <1>2, <1>3, <1>4, <1>15 DEF Write
<1>16. ASSUME NEW p \in Pruner, Prune(p) PROVE TypeOK'
  BY <1>5, <1>6, <1>7, <1>8, <1>16 DEF Prune
<1>17. ASSUME NEW o \in Follower, Audit(o) PROVE TypeOK'
  BY <1>9, <1>10, <1>11, <1>12, <1>17 DEF Audit
<1> QED BY <1>13, <1>14, <1>15, <1>16, <1>17 DEF Next


-----------------------------------------------------------------------------
(* The rows that are kept                                                    *)

\* Both pieces of r are among the first n pieces, in order.
InFirst(pieces, n, r) ==
    \E j, k \in 1..n : j < k /\ pieces[j] = HeadOf(r) /\ pieces[k] = TailOf(r)

\* What the log path has come to name is no prune's unpublished file, ...
PathOK ==
    /\ path \in Pruner => pruner[path] = "pruned"
    /\ path = None => Past = <<>>

\* ... nor is what a shim has open, and it has in it what was written to it.
OpenOK ==
    \A w \in Writer :
        /\ writer[w] \in {"open", "torn", "written", "logged"} /\ fd[w] \in Pruner =>
               pruner[fd[w]] = "pruned"
        /\ writer[w] = "torn" =>
               \E j \in 1..Len(content[fd[w]]) : content[fd[w]][j] = HeadOf(w)
        /\ writer[w] = "written" => InFirst(content[fd[w]], Len(content[fd[w]]), w)
        /\ writer[w] = "logged" => InFirst(content[fd[w]], synced[fd[w]], w)

PastOK == \A r \in Range(Past) : InFirst(content["log"], synced["log"], r)

\* A prune read every recent row of before, its temp file is what it kept of
\* the rows it read, and they are durable in it when the path names it.
PrunerOK ==
    \A p \in Pruner :
        /\ pruner[p] \in {"read", "temp", "synced", "pruned"} =>
               \A r \in Range(Past) \ Old : r \in Range(records[p])
        /\ pruner[p] \in {"temp", "synced"} => content[p] = Content(Kept(p))
        /\ pruner[p] = "synced" => synced[p] = Len(content[p])
        /\ pruner[p] = "pruned" =>
               \A r \in Range(records[p]) \ Old : InFirst(content[p], synced[p], r)

KInv == TypeOK /\ FdOK /\ TempUnwritten /\ PathOK /\ OpenOK /\ PastOK /\ PrunerOK

LEMMA HoldsInFirst ==
    ASSUME NEW pieces \in Seq(Piece), NEW r \in Row
    PROVE  Holds(pieces, r) <=> InFirst(pieces, Len(pieces), r)
<1>1. DOMAIN pieces = 1..Len(pieces) /\ Line(r)[1] = HeadOf(r) /\ Line(r)[2] = TailOf(r)
  BY LineParts
<1> QED BY <1>1 DEF Holds, InFirst

\* What two pieces of a file say stays said while they stay where they are.
LEMMA StaysInFirst ==
    ASSUME NEW f, NEW g, NEW m \in Nat, NEW n \in Nat, m <= n,
           \A k \in 1..m : g[k] = f[k], NEW r, InFirst(f, m, r)
    PROVE  InFirst(g, n, r)
<1>1. PICK j, k \in 1..m : j < k /\ f[j] = HeadOf(r) /\ f[k] = TailOf(r)
  BY DEF InFirst
<1>2. j \in 1..n /\ k \in 1..n
  OBVIOUS
<1> QED BY <1>1, <1>2 DEF InFirst

LEMMA InitKept ==
    ASSUME Init
    PROVE  KInv
<1>1. TypeOK
  BY InitType
<1>2. Past \in Seq(Row)
  BY RowAssumption DEF Row
<1>3. PastOK
  <2>1. content["log"] = Content(Past) /\ synced["log"] = Len(Content(Past))
    BY DEF Init, Inode
  <2> SUFFICES ASSUME NEW r \in Range(Past)
               PROVE  InFirst(content["log"], synced["log"], r)
    BY DEF PastOK
  <2>2. Holds(Content(Past), r) /\ r \in Row
    BY <1>2, ContentHolds DEF Row
  <2>3. Content(Past) \in Seq(Piece)
    BY <1>2, ContentAt
  <2> QED BY <2>1, <2>2, <2>3, HoldsInFirst
<1>4. TempUnwritten
  BY InodeAssumption DEF Init, Inode, TempUnwritten
<1>5. FdOK /\ OpenOK /\ PrunerOK
  BY DEF Init, FdOK, OpenOK, PrunerOK
<1>6. PathOK
  BY InodeAssumption DEF Init, PathOK
<1> QED BY <1>1, <1>3, <1>4, <1>5, <1>6 DEF KInv

\* Everything in the files stays where it is.
Extends == \A i \in Inode : /\ Len(content[i]) <= Len(content'[i]) /\ synced[i] <= synced'[i]
                           /\ \A n \in 1..Len(content[i]) : content'[i][n] = content[i][n]

\* ... or at least what is durable there.
KeepsSynced == \A i \in Inode : /\ synced[i] <= synced'[i]
                               /\ \A n \in 1..synced[i] : content'[i][n] = content[i][n]

LEMMA Extending ==
    ASSUME TypeOK, TypeOK', Extends
    PROVE  /\ KeepsSynced
           /\ \A i \in Inode, r \in Row : InFirst(content[i], Len(content[i]), r) =>
                                             InFirst(content'[i], Len(content'[i]), r)
           /\ \A i \in Inode, r \in Row :
                 (\E j \in 1..Len(content[i]) : content[i][j] = HeadOf(r)) =>
                    \E j \in 1..Len(content'[i]) : content'[i][j] = HeadOf(r)
<1>1. \A i \in Inode : /\ Len(content[i]) \in Nat /\ Len(content'[i]) \in Nat /\ synced[i] \in Nat
                       /\ synced[i] <= Len(content[i])
  BY DEF TypeOK
<1>2. KeepsSynced
  BY <1>1 DEF Extends, KeepsSynced
<1>3. ASSUME NEW i \in Inode, NEW r \in Row, InFirst(content[i], Len(content[i]), r)
      PROVE  InFirst(content'[i], Len(content'[i]), r)
  BY <1>1, <1>3, StaysInFirst DEF Extends
<1>4. ASSUME NEW i \in Inode, NEW j \in 1..Len(content[i])
      PROVE  j \in 1..Len(content'[i]) /\ content'[i][j] = content[i][j]
  BY <1>1 DEF Extends
<1> QED BY <1>2, <1>3, <1>4

LEMMA StaysDurable ==
    ASSUME TypeOK, TypeOK', KeepsSynced, NEW i \in Inode, NEW r \in Row,
           InFirst(content[i], synced[i], r)
    PROVE  InFirst(content'[i], synced'[i], r)
<1>1. synced[i] \in Nat /\ synced'[i] \in Nat
  BY DEF TypeOK
<1> QED BY <1>1, StaysInFirst DEF KeepsSynced

LEMMA Lengths ==
    ASSUME TypeOK
    PROVE  \A i \in Inode : /\ Len(content[i]) \in Nat /\ synced[i] \in Nat
                            /\ synced[i] <= Len(content[i])
BY DEF TypeOK

LEMMA UnchangedExtends ==
    ASSUME TypeOK, UNCHANGED <<content, synced>>
    PROVE  Extends
BY Lengths DEF Extends

LEMMA WriteExtends ==
    ASSUME TypeOK, FdOK, NEW w \in Writer, WriteAll(w) \/ WriteHead(w) \/ WriteTail(w)
    PROVE  Extends
<1>1. fd[w] \in Inode /\ UNCHANGED synced
  BY DEF FdOK, WriteAll, WriteHead, WriteTail
<1>2. PICK pieces \in Seq(Piece) : Grow(fd[w], pieces)
  BY <1>1, FileSteps
<1>3. \A j \in Inode : /\ Len(content'[j]) = Len(content[j]) + IF j = fd[w] THEN Len(pieces) ELSE 0
                       /\ \A n \in 1..Len(content[j]) : content'[j][n] = content[j][n]
  BY <1>1, <1>2, GrowType
<1>4. ASSUME NEW j \in Inode
      PROVE  /\ Len(content[j]) <= Len(content'[j]) /\ synced[j] <= synced'[j]
             /\ \A n \in 1..Len(content[j]) : content'[j][n] = content[j][n]
  <2>1. Len(pieces) \in Nat /\ Len(content[j]) \in Nat /\ synced[j] \in Nat
    BY Lengths
  <2>2. Len(content[j]) <= Len(content'[j])
    <3>1. j = fd[w] => Len(content'[j]) = Len(content[j]) + Len(pieces)
      BY <1>3
    <3>2. j # fd[w] => Len(content'[j]) = Len(content[j]) + 0
      BY <1>3
    <3> QED BY <2>1, <3>1, <3>2
  <2>3. synced[j] <= synced'[j]
    BY <1>1, <2>1
  <2> QED BY <1>3, <2>2, <2>3
<1> QED BY <1>4 DEF Extends

LEMMA SyncExtends ==
    ASSUME TypeOK, FdOK, NEW w \in Writer, SyncLog(w)
    PROVE  Extends
<1>1. fd[w] \in Inode /\ UNCHANGED content
  BY DEF FdOK, SyncLog
<1>2. \A i \in Inode : synced[i] <= synced'[i]
  BY <1>1, Lengths DEF SyncLog, TypeOK
<1> QED BY <1>1, <1>2, Lengths DEF Extends

LEMMA TempExtends ==
    ASSUME TypeOK, TypeOK', TempUnwritten, NEW p \in Pruner, WriteTemp(p) \/ SyncTemp(p)
    PROVE  Extends
<1>1. CASE WriteTemp(p)
  <2>1. content[p] = <<>> /\ UNCHANGED synced /\ p \in Inode
    BY <1>1 DEF TempUnwritten, WriteTemp, Inode
  <2>2. \A i \in Inode \ {p} : content'[i] = content[i]
    BY <1>1 DEF WriteTemp, TypeOK
  <2>3. Len(content'[p]) \in Nat /\ Len(content[p]) = 0
    BY <2>1 DEF TypeOK
  <2>4. ASSUME NEW i \in Inode
        PROVE  /\ Len(content[i]) <= Len(content'[i]) /\ synced[i] <= synced'[i]
               /\ \A n \in 1..Len(content[i]) : content'[i][n] = content[i][n]
    BY <2>1, <2>2, <2>3, Lengths
  <2> QED BY <2>4 DEF Extends
<1>2. CASE SyncTemp(p)
  <2>1. UNCHANGED content /\ \A i \in Inode : synced[i] <= synced'[i]
    BY <1>2, Lengths DEF SyncTemp, TypeOK, Inode
  <2> QED BY <2>1, Lengths DEF Extends
<1> QED BY <1>1, <1>2

\* What a step leaves of the invariant that only growing files are asked for.
LEMMA PastStays ==
    ASSUME TypeOK, TypeOK', KeepsSynced, PastOK
    PROVE  PastOK'
<1>1. "log" \in Inode /\ \A r \in Range(Past) : r \in Row
  BY DEF Inode, Row
<1> QED BY <1>1, StaysDurable DEF PastOK

\* The step changes nothing a prune does.
LEMMA PrunersStay ==
    ASSUME TypeOK, TypeOK', KeepsSynced, PrunerOK, UNCHANGED prunerVars,
           \A p \in Pruner : pruner[p] \in {"temp", "synced"} =>
               content'[p] = content[p] /\ synced'[p] = synced[p]
    PROVE  PrunerOK'
<1> SUFFICES ASSUME NEW p \in Pruner
             PROVE  /\ pruner[p] \in {"read", "temp", "synced", "pruned"} =>
                           \A r \in Range(Past) \ Old : r \in Range(records[p])
                    /\ pruner[p] \in {"temp", "synced"} => content'[p] = Content(Kept(p))
                    /\ pruner[p] = "synced" => synced'[p] = Len(content'[p])
                    /\ pruner[p] = "pruned" =>
                           \A r \in Range(records[p]) \ Old : InFirst(content'[p], synced'[p], r)
  BY DEF PrunerOK, prunerVars, Kept
<1>1. p \in Inode /\ \A r \in Range(records[p]) : r \in Row
  <2>1. records[p] \in Seq(Row)
    BY DEF TypeOK
  <2> QED BY <2>1 DEF Inode, Range
<1>2. pruner[p] = "pruned" =>
         \A r \in Range(records[p]) \ Old : InFirst(content'[p], synced'[p], r)
  BY <1>1, StaysDurable DEF PrunerOK
<1> QED BY <1>2 DEF PrunerOK

LEMMA OpenStays ==
    ASSUME TypeOK, TypeOK', FdOK, Extends, OpenOK, NEW w \in Writer,
           fd'[w] = fd[w], writer'[w] \in {writer[w], "failed"},
           \A p \in Pruner : pruner[p] = "pruned" => pruner'[p] = "pruned"
    PROVE  /\ writer'[w] \in {"open", "torn", "written", "logged"} /\ fd'[w] \in Pruner =>
                  pruner'[fd'[w]] = "pruned"
           /\ writer'[w] = "torn" =>
                  \E j \in 1..Len(content'[fd'[w]]) : content'[fd'[w]][j] = HeadOf(w)
           /\ writer'[w] = "written" => InFirst(content'[fd'[w]], Len(content'[fd'[w]]), w)
           /\ writer'[w] = "logged" => InFirst(content'[fd'[w]], synced'[fd'[w]], w)
<1>1. w \in Row
  BY DEF Row
<1>2. CASE writer'[w] = "failed"
  BY <1>2
<1>3. CASE writer'[w] = writer[w] /\ writer[w] \in {"open", "torn", "written", "logged"}
  <2>1. fd[w] \in Inode
    BY <1>3 DEF FdOK
  <2>2. KeepsSynced
    BY Extending
  <2>3. writer[w] = "logged" => InFirst(content'[fd[w]], synced'[fd[w]], w)
    BY <1>1, <2>1, <2>2, StaysDurable DEF OpenOK
  <2>4. writer[w] = "written" => InFirst(content'[fd[w]], Len(content'[fd[w]]), w)
    BY <1>1, <2>1, Extending DEF OpenOK
  <2>5. writer[w] = "torn" => \E j \in 1..Len(content'[fd[w]]) : content'[fd[w]][j] = HeadOf(w)
    BY <1>1, <2>1, Extending DEF OpenOK
  <2> QED BY <1>3, <2>3, <2>4, <2>5 DEF OpenOK
<1>4. CASE writer'[w] = writer[w] /\ writer[w] \notin {"open", "torn", "written", "logged"}
  BY <1>4
<1> QED BY <1>2, <1>3, <1>4

LEMMA WriteKeeps ==
    ASSUME KInv, TypeOK', NEW w \in Writer, Write(w)
    PROVE  KInv'
<1> USE DEF KInv
<1>1. /\ w \in Row /\ \A i \in Inode : Len(content[i]) \in Nat /\ Len(content'[i]) \in Nat
  BY DEF Row, TypeOK
<1>2. Extends
  <2>1. CASE WriteAll(w) \/ WriteHead(w) \/ WriteTail(w)
    BY <2>1, WriteExtends
  <2>2. CASE SyncLog(w)
    BY <2>2, SyncExtends
  <2>3. CASE Open(w) \/ FailLog(w)
    BY <2>3, UnchangedExtends DEF Open, FailLog, fileVars
  <2> QED BY <2>1, <2>2, <2>3 DEF Write
<1>3. KeepsSynced
  BY <1>2, Extending
<1>4. UNCHANGED prunerVars /\ (writer'[w] \in {"open", "torn", "written", "logged"} => fd'[w] \in Inode)
  <2>1. CASE Open(w)
    BY <2>1, InodeAssumption DEF Open, TypeOK, Inode
  <2>2. CASE WriteAll(w) \/ WriteHead(w) \/ WriteTail(w) \/ SyncLog(w)
    BY <2>2 DEF WriteAll, WriteHead, WriteTail, SyncLog, FdOK
  <2>3. CASE FailLog(w)
    BY <2>3 DEF FailLog, TypeOK
  <2> QED BY <2>1, <2>2, <2>3 DEF Write
<1>5. \A v \in Writer \ {w} : writer'[v] = writer[v] /\ fd'[v] = fd[v]
  BY DEF Write, Open, WriteAll, WriteHead, WriteTail, SyncLog, FailLog, TypeOK
<1>6. FdOK'
  BY <1>4, <1>5 DEF FdOK
<1>7. UNCHANGED pruner /\ UNCHANGED records
  BY <1>4 DEF prunerVars
<1>8. PathOK'
  BY <1>7, InodeAssumption DEF Write, Open, WriteAll, WriteHead, WriteTail, SyncLog, FailLog, fileVars, PathOK
<1>9. \A p \in Pruner : pruner[p] # "pruned" => content'[p] = content[p] /\ synced'[p] = synced[p]
  <2> SUFFICES ASSUME NEW p \in Pruner, pruner[p] # "pruned"
               PROVE  content'[p] = content[p] /\ synced'[p] = synced[p]
    OBVIOUS
  <2>1. CASE Open(w) \/ FailLog(w)
    BY <2>1 DEF Open, FailLog, fileVars
  <2>2. CASE WriteAll(w) \/ WriteHead(w) \/ WriteTail(w) \/ SyncLog(w)
    <3>1. fd[w] # p
      BY <2>2 DEF OpenOK, WriteAll, WriteHead, WriteTail, SyncLog
    <3> QED BY <2>2, <3>1 DEF WriteAll, WriteHead, WriteTail, SyncLog, Grow, TypeOK, Inode
  <2> QED BY <2>1, <2>2 DEF Write
<1>10. TempUnwritten'
  BY <1>7, <1>9 DEF TempUnwritten
<1>11. PrunerOK'
  BY <1>3, <1>4, <1>9, PrunersStay
<1>12. PastOK'
  BY <1>3, PastStays
<1>13. /\ writer'[w] \in {"open", "torn", "written", "logged"} /\ fd'[w] \in Pruner =>
              pruner'[fd'[w]] = "pruned"
       /\ writer'[w] = "torn" =>
              \E j \in 1..Len(content'[fd'[w]]) : content'[fd'[w]][j] = HeadOf(w)
       /\ writer'[w] = "written" => InFirst(content'[fd'[w]], Len(content'[fd'[w]]), w)
       /\ writer'[w] = "logged" => InFirst(content'[fd'[w]], synced'[fd'[w]], w)
  <2>1. CASE Open(w)
    BY <2>1, <1>7, InodeAssumption DEF Open, TypeOK, PathOK
  <2>2. CASE WriteAll(w) \/ WriteHead(w) \/ WriteTail(w)
    <3> DEFINE i == fd[w]
               n == Len(content[i])
    <3>1. i \in Inode /\ fd'[w] = i /\ (i \in Pruner => pruner'[i] = "pruned")
      BY <2>2, <1>7 DEF WriteAll, WriteHead, WriteTail, FdOK, OpenOK
    <3>2. CASE WriteAll(w)
      <4>1. content'[i][n + 1] = HeadOf(w) /\ content'[i][n + 2] = TailOf(w) /\ Len(content'[i]) = n + 2
        <5>1. /\ Line(w) \in Seq(Piece) /\ Len(Line(w)) = 2
              /\ Line(w)[1] = HeadOf(w) /\ Line(w)[2] = TailOf(w)
          BY <1>1, LineParts
        <5>2. Grow(i, Line(w))
          BY <3>2 DEF WriteAll
        <5>3. /\ Len(content'[i]) = Len(content[i]) + IF i = i THEN Len(Line(w)) ELSE 0
              /\ \A k \in 1..Len(Line(w)) : content'[i][Len(content[i]) + k] = Line(w)[k]
          BY <3>1, <5>1, <5>2, GrowType
        <5> QED BY <1>1, <5>1, <5>3
      <4>2. InFirst(content'[i], Len(content'[i]), w)
        BY <1>1, <3>1, <4>1 DEF InFirst
      <4>3. writer'[w] = "written"
        BY <3>2 DEF WriteAll, TypeOK
      <4> QED BY <3>1, <4>2, <4>3
    <3>3. CASE WriteHead(w)
      <4>1. content'[i][n + 1] = HeadOf(w) /\ Len(content'[i]) = n + 1
        <5>1. <<HeadOf(w)>> \in Seq(Piece) /\ Len(<<HeadOf(w)>>) = 1 /\ <<HeadOf(w)>>[1] = HeadOf(w)
          BY <1>1, LineParts
        <5>2. Grow(i, <<HeadOf(w)>>)
          BY <3>3, <1>1, LineParts DEF WriteHead
        <5>3. /\ Len(content'[i]) = Len(content[i]) + IF i = i THEN Len(<<HeadOf(w)>>) ELSE 0
              /\ \A k \in 1..Len(<<HeadOf(w)>>) : content'[i][Len(content[i]) + k] = <<HeadOf(w)>>[k]
          BY <3>1, <5>1, <5>2, GrowType
        <5> QED BY <1>1, <5>1, <5>3
      <4>2. writer'[w] = "torn" /\ n + 1 \in 1..(n + 1)
        BY <3>1, <3>3, <1>1 DEF WriteHead, TypeOK
      <4> QED BY <3>1, <4>1, <4>2
    <3>4. CASE WriteTail(w)
      <4>1. content'[i][n + 1] = TailOf(w) /\ Len(content'[i]) = n + 1
        <5>1. <<TailOf(w)>> \in Seq(Piece) /\ Len(<<TailOf(w)>>) = 1 /\ <<TailOf(w)>>[1] = TailOf(w)
          BY <1>1, LineParts
        <5>2. Grow(i, <<TailOf(w)>>)
          BY <3>4, <1>1, LineParts DEF WriteTail
        <5>3. /\ Len(content'[i]) = Len(content[i]) + IF i = i THEN Len(<<TailOf(w)>>) ELSE 0
              /\ \A k \in 1..Len(<<TailOf(w)>>) : content'[i][Len(content[i]) + k] = <<TailOf(w)>>[k]
          BY <3>1, <5>1, <5>2, GrowType
        <5> QED BY <1>1, <5>1, <5>3
      <4>2. PICK j \in 1..n : content[i][j] = HeadOf(w)
        BY <3>4 DEF WriteTail, OpenOK
      <4>3. content'[i][j] = HeadOf(w)
        BY <1>2, <3>1, <4>2 DEF Extends
      <4>4. InFirst(content'[i], Len(content'[i]), w)
        BY <1>1, <3>1, <4>1, <4>2, <4>3 DEF InFirst
      <4>5. writer'[w] = "written"
        BY <3>4 DEF WriteTail, TypeOK
      <4> QED BY <3>1, <4>4, <4>5
    <3> QED BY <2>2, <3>2, <3>3, <3>4
  <2>3. CASE SyncLog(w)
    <3>1. /\ writer'[w] = "logged" /\ fd'[w] = fd[w] /\ fd[w] \in Inode /\ content' = content
          /\ synced'[fd[w]] = Len(content[fd[w]])
      BY <2>3 DEF SyncLog, FdOK, TypeOK
    <3> QED BY <2>3, <3>1, <1>7 DEF SyncLog, OpenOK
  <2>4. CASE FailLog(w)
    BY <2>4 DEF FailLog, TypeOK
  <2> QED BY <2>1, <2>2, <2>3, <2>4 DEF Write
<1>14. OpenOK'
  <2> SUFFICES ASSUME NEW v \in Writer, v # w
               PROVE  /\ writer'[v] \in {"open", "torn", "written", "logged"} /\ fd'[v] \in Pruner =>
                             pruner'[fd'[v]] = "pruned"
                      /\ writer'[v] = "torn" =>
                             \E j \in 1..Len(content'[fd'[v]]) : content'[fd'[v]][j] = HeadOf(v)
                      /\ writer'[v] = "written" => InFirst(content'[fd'[v]], Len(content'[fd'[v]]), v)
                      /\ writer'[v] = "logged" => InFirst(content'[fd'[v]], synced'[fd'[v]], v)
    BY <1>13 DEF OpenOK
  <2> QED BY <1>2, <1>5, <1>7, OpenStays
<1> QED BY <1>6, <1>8, <1>10, <1>11, <1>12, <1>14

LEMMA ReadKeeps ==
    ASSUME KInv, NEW p \in Pruner, ReadRecords(p)
    PROVE  PrunerOK'
<1> USE DEF KInv
<1>1. /\ UNCHANGED <<content, synced>> /\ pruner[p] = "start" /\ pruner'[p] \in {"read", "failed"}
      /\ \A q \in Pruner \ {p} : pruner'[q] = pruner[q] /\ records'[q] = records[q]
  BY DEF ReadRecords, fileVars, TypeOK
<1>2. CASE pruner'[p] = "failed"
  <2>1. records'[p] = records[p]
    BY <1>2 DEF ReadRecords, TypeOK
  <2> QED BY <1>1, <1>2, <2>1 DEF PrunerOK, Kept
<1>3. CASE pruner'[p] = "read"
  <2>1. Parses(Log) /\ records'[p] = RowsOf(Log)
    BY <1>3 DEF ReadRecords, TypeOK
  <2>2. ASSUME NEW r \in Range(Past) \ Old PROVE r \in Range(RowsOf(Log))
    <3>1. r \in Row /\ path # None
      BY <2>2 DEF Row, PathOK, Range
    <3>2. path \in Inode /\ Log = content[path] /\ content[path] \in Seq(Piece)
      BY <3>1 DEF TypeOK, Log
    <3>3. InFirst(content[path], synced[path], r)
      <4>1. CASE path = "log"
        BY <2>2, <4>1 DEF PastOK
      <4>2. CASE path \in Pruner
        BY <2>2, <4>2 DEF PathOK, PrunerOK
      <4> QED BY <3>2, <4>1, <4>2 DEF Inode
    <3>4. InFirst(content[path], Len(content[path]), r)
      BY <3>2, <3>3, Lengths, StaysInFirst
    <3>5. Holds(Log, r)
      BY <3>1, <3>2, <3>4, HoldsInFirst
    <3> QED BY <2>1, <3>1, <3>2, <3>5, ParsedRows
  <2> QED BY <1>1, <1>3, <2>1, <2>2 DEF PrunerOK, Kept
<1> QED BY <1>1, <1>2, <1>3

LEMMA RenameDurable ==
    ASSUME KInv, NEW p \in Pruner, pruner[p] = "synced", NEW r \in Range(records[p]) \ Old
    PROVE  InFirst(content[p], synced[p], r)
<1> USE DEF KInv
<1>1. /\ content[p] = Content(Kept(p)) /\ synced[p] = Len(content[p])
      /\ Kept(p) \in Seq(Row) /\ r \in Range(Kept(p))
  BY KeptType DEF PrunerOK
<1>2. Holds(content[p], r) /\ r \in Row
  <2>1. r \in Row
    BY <1>1 DEF Range
  <2> QED BY <1>1, <2>1, ContentHolds
<1>3. content[p] \in Seq(Piece)
  BY <1>1, ContentAt
<1> QED BY <1>1, <1>2, <1>3, HoldsInFirst

LEMMA PruneKeeps ==
    ASSUME KInv, TypeOK', NEW p \in Pruner, Prune(p)
    PROVE  KInv'
<1> USE DEF KInv
<1>1. Extends
  <2>1. CASE WriteTemp(p) \/ SyncTemp(p)
    BY <2>1, TempExtends
  <2>2. CASE ReadRecords(p) \/ Rename(p) \/ FailPrune(p)
    BY <2>2, UnchangedExtends DEF ReadRecords, Rename, FailPrune, fileVars
  <2> QED BY <2>1, <2>2 DEF Prune
<1>2. KeepsSynced
  BY <1>1, Extending
<1>3. UNCHANGED <<writer, fd>> /\ p \in Inode
  BY DEF Prune, ReadRecords, WriteTemp, SyncTemp, Rename, FailPrune, writerVars, Inode
<1>4. /\ pruner[p] # "pruned"
      /\ \A q \in Pruner \ {p} : /\ pruner'[q] = pruner[q] /\ records'[q] = records[q]
                                 /\ content'[q] = content[q] /\ synced'[q] = synced[q]
  <2>1. CASE ReadRecords(p)
    BY <2>1 DEF ReadRecords, fileVars, TypeOK
  <2>2. CASE WriteTemp(p)
    BY <2>2 DEF WriteTemp, TypeOK, Inode
  <2>3. CASE SyncTemp(p)
    BY <2>3 DEF SyncTemp, TypeOK, Inode
  <2>4. CASE Rename(p) \/ FailPrune(p)
    BY <2>4 DEF Rename, FailPrune, fileVars, TypeOK
  <2> QED BY <2>1, <2>2, <2>3, <2>4 DEF Prune
<1>5. \A q \in Pruner : pruner[q] = "pruned" => pruner'[q] = "pruned"
  BY <1>4
<1>6. FdOK'
  BY <1>3 DEF FdOK
<1>7. OpenOK'
  <2> SUFFICES ASSUME NEW v \in Writer
               PROVE  /\ writer'[v] \in {"open", "torn", "written", "logged"} /\ fd'[v] \in Pruner =>
                             pruner'[fd'[v]] = "pruned"
                      /\ writer'[v] = "torn" =>
                             \E j \in 1..Len(content'[fd'[v]]) : content'[fd'[v]][j] = HeadOf(v)
                      /\ writer'[v] = "written" => InFirst(content'[fd'[v]], Len(content'[fd'[v]]), v)
                      /\ writer'[v] = "logged" => InFirst(content'[fd'[v]], synced'[fd'[v]], v)
    BY DEF OpenOK
  <2> QED BY <1>1, <1>3, <1>5, OpenStays
<1>8. PastOK'
  BY <1>2, PastStays
<1>9. TempUnwritten'
  <2>1. pruner'[p] \in {"start", "read"} => content'[p] = <<>> /\ synced'[p] = 0
    BY DEF Prune, ReadRecords, WriteTemp, SyncTemp, Rename, FailPrune, fileVars, TypeOK, TempUnwritten
  <2> QED BY <1>4, <2>1 DEF TempUnwritten
<1>10. PathOK'
  <2>1. CASE Rename(p)
    BY <2>1, InodeAssumption DEF Rename, TypeOK, PathOK
  <2>2. CASE ~Rename(p)
    <3>1. path' = path
      BY <2>2 DEF Prune, ReadRecords, WriteTemp, SyncTemp, FailPrune, fileVars
    <3> QED BY <1>5, <3>1 DEF PathOK
  <2> QED BY <2>1, <2>2
<1>11. PrunerOK'
  <2>1. CASE ReadRecords(p)
    BY <2>1, ReadKeeps
  <2>2. CASE ~ReadRecords(p)
    <3>1. UNCHANGED records
      BY <2>2 DEF Prune, WriteTemp, SyncTemp, Rename, FailPrune
    <3>2. \A r \in Range(records[p]) : r \in Row
      <4>1. records[p] \in Seq(Row)
        BY DEF TypeOK
      <4> QED BY <4>1 DEF Range
    <3>3. /\ pruner'[p] \in {"read", "temp", "synced", "pruned"} =>
                 \A r \in Range(Past) \ Old : r \in Range(records[p])
          /\ pruner'[p] \in {"temp", "synced"} => content'[p] = Content(Kept(p))
          /\ pruner'[p] = "synced" => synced'[p] = Len(content'[p])
          /\ pruner'[p] = "pruned" =>
                 \A r \in Range(records[p]) \ Old : InFirst(content'[p], synced'[p], r)
      <4>1. CASE WriteTemp(p)
        BY <1>3, <4>1 DEF WriteTemp, TypeOK, PrunerOK
      <4>2. CASE SyncTemp(p)
        BY <1>3, <4>2 DEF SyncTemp, TypeOK, PrunerOK
      <4>3. CASE Rename(p)
        BY <4>3, RenameDurable DEF Rename, TypeOK, PrunerOK
      <4>4. CASE FailPrune(p)
        BY <4>4 DEF FailPrune, TypeOK
      <4> QED BY <2>2, <4>1, <4>2, <4>3, <4>4 DEF Prune
    <3> QED BY <1>4, <3>1, <3>3 DEF PrunerOK, Kept
  <2> QED BY <2>1, <2>2
<1> QED BY <1>6, <1>7, <1>8, <1>9, <1>10, <1>11

LEMMA LossKeeps ==
    ASSUME KInv, TypeOK', PowerLoss
    PROVE  KInv'
<1> USE DEF KInv
<1>1. KeepsSynced
  <2>1. ASSUME NEW i \in Inode
        PROVE  /\ synced[i] <= synced'[i]
               /\ \A n \in 1..synced[i] : content'[i][n] = content[i][n]
    <3>1. /\ synced'[i] = Len(content'[i]) /\ synced[i] <= Len(content'[i])
          /\ \A n \in 1..Len(content'[i]) : content'[i][n] = content[i][n]
      BY Survivors
    <3>2. synced[i] \in Nat /\ Len(content'[i]) \in Nat
      BY DEF TypeOK
    <3> QED BY <3>1, <3>2
  <2> QED BY <2>1 DEF KeepsSynced
<1>2. /\ UNCHANGED <<path, fd, records>>
      /\ \A w \in Writer : writer'[w] = IF Running(w) THEN "failed" ELSE writer[w]
      /\ \A p \in Pruner : pruner'[p] = IF pruner[p] \in {"read", "temp", "synced"}
                                        THEN "failed" ELSE pruner[p]
  BY DEF PowerLoss
<1>3. FdOK' /\ PathOK'
  BY <1>2 DEF FdOK, PathOK, Running
<1>4. PastOK'
  BY <1>1, PastStays
<1>5. TempUnwritten'
  <2> SUFFICES ASSUME NEW p \in Pruner, pruner[p] = "start"
               PROVE  content'[p] = <<>> /\ synced'[p] = 0
    BY <1>2 DEF TempUnwritten
  <2>1. p \in Inode /\ content[p] = <<>>
    BY DEF Inode, TempUnwritten
  <2>2. Len(content'[p]) <= Len(content[p]) /\ synced'[p] = Len(content'[p]) /\ content'[p] \in Seq(Piece)
    BY <2>1, Survivors
  <2>3. Len(content'[p]) = 0
    BY <2>1, <2>2
  <2> QED BY <2>2, <2>3
<1>6. OpenOK'
  <2> SUFFICES ASSUME NEW w \in Writer
               PROVE  /\ writer'[w] \notin {"open", "torn", "written"}
                      /\ writer'[w] = "logged" =>
                             /\ fd[w] \in Pruner => pruner'[fd[w]] = "pruned"
                             /\ InFirst(content'[fd[w]], synced'[fd[w]], w)
    BY <1>2 DEF OpenOK
  <2>1. writer'[w] \notin {"open", "torn", "written"} /\ (writer'[w] = "logged" => writer[w] = "logged")
    BY <1>2 DEF Running
  <2>2. w \in Row /\ (writer[w] = "logged" => fd[w] \in Inode)
    BY DEF Row, FdOK
  <2>3. writer[w] = "logged" => InFirst(content'[fd[w]], synced'[fd[w]], w)
    BY <1>1, <2>2, StaysDurable DEF OpenOK
  <2> QED BY <1>2, <2>1, <2>3 DEF OpenOK
<1>7. PrunerOK'
  <2> SUFFICES ASSUME NEW p \in Pruner, pruner'[p] \notin {"start", "failed"}
               PROVE  /\ pruner'[p] = "pruned"
                      /\ \A r \in Range(Past) \ Old : r \in Range(records[p])
                      /\ \A r \in Range(records[p]) \ Old : InFirst(content'[p], synced'[p], r)
    BY <1>2 DEF PrunerOK, Kept
  <2>1. pruner[p] = "pruned" /\ pruner'[p] = "pruned" /\ p \in Inode
    BY <1>2 DEF Inode, TypeOK
  <2>2. \A r \in Range(records[p]) : r \in Row
    <3>1. records[p] \in Seq(Row)
      BY DEF TypeOK
    <3> QED BY <3>1 DEF Range
  <2> QED BY <1>1, <2>1, <2>2, StaysDurable DEF PrunerOK
<1> QED BY <1>3, <1>4, <1>5, <1>6, <1>7

LEMMA StepKept ==
    ASSUME KInv, [Next]_vars
    PROVE  KInv'
<1>1. TypeOK'
  BY TypeStep DEF KInv
<1>2. CASE UNCHANGED <<fileVars, writerVars, prunerVars>>
  BY <1>1, <1>2 DEF KInv, FdOK, TempUnwritten, PathOK, OpenOK, PastOK, PrunerOK, Kept,
                    fileVars, writerVars, prunerVars
<1>3. ASSUME NEW o \in Follower, Audit(o) PROVE UNCHANGED <<fileVars, writerVars, prunerVars>>
  BY <1>3 DEF Audit, List, Follow, Poll, PollFails, StopFollowing
<1>4. UNCHANGED vars => UNCHANGED <<fileVars, writerVars, prunerVars>>
  BY DEF vars
<1> QED BY <1>1, <1>2, <1>3, <1>4, WriteKeeps, PruneKeeps, LossKeeps DEF Next

LEMMA KeptImplies ==
    ASSUME KInv
    PROVE  RowsKept
<1> USE DEF KInv
<1> SUFFICES ASSUME NEW r \in Row \ Old,
                    \/ r \in Range(Past)
                    \/ writer[r] = "logged" /\ (fd[r] = path \/ InPrunedFile(r))
             PROVE  Holds(Log, r)
  BY DEF RowsKept
<1>1. path \in Inode /\ InFirst(content[path], synced[path], r)
  <2>1. CASE r \in Range(Past)
    <3>1. path \in Inode
      BY <2>1 DEF TypeOK, PathOK, Range
    <3>2. CASE path = "log"
      BY <2>1, <3>2, <3>1 DEF PastOK
    <3>3. CASE path \in Pruner
      BY <2>1, <3>1, <3>3 DEF PathOK, PrunerOK
    <3> QED BY <3>1, <3>2, <3>3 DEF Inode
  <2>2. CASE r \notin Range(Past) /\ fd[r] = path
    <3>1. r \in Writer /\ writer[r] = "logged"
      BY <2>2 DEF Row
    <3> QED BY <2>2, <3>1 DEF FdOK, OpenOK
  <2>3. CASE InPrunedFile(r)
    BY <2>3 DEF InPrunedFile, PathOK, PrunerOK, Inode
  <2> QED BY <2>1, <2>2, <2>3
<1>2. Log = content[path] /\ content[path] \in Seq(Piece)
  BY <1>1, InodeAssumption DEF Log, TypeOK, Inode
<1>3. InFirst(content[path], Len(content[path]), r)
  BY <1>1, <1>2, Lengths, StaysInFirst
<1> QED BY <1>2, <1>3, HoldsInFirst

THEOREM AuditLogInvariant == Spec => []KInv
<1>1. Init => KInv
  BY InitKept
<1>2. KInv /\ [Next]_vars => KInv'
  BY StepKept
<1> QED BY <1>1, <1>2, PTL DEF Spec

\* A row from before, or one that Log reported as durable, is in the log unless
\* it is too old or a prune that had read the log before the row was there
\* replaced the file. (Log, Prune)
THEOREM AuditLogRowsKept == Spec => []RowsKept
<1>1. KInv => RowsKept
  BY KeptImplies
<1> QED BY <1>1, AuditLogInvariant, PTL

-----------------------------------------------------------------------------
(* More about what a prune keeps                                             *)

\* It depends on the rows it has been through only.
LEMMA RecentAgrees ==
    ASSUME NEW a \in Seq(Row), NEW b \in Seq(Row), NEW len \in Nat,
           len <= Len(a), len <= Len(b), \A k \in 1..len : a[k] = b[k]
    PROVE  Recent(a)[len] = Recent(b)[len]
<1> DEFINE Bad == {n \in 0..len : Recent(a)[n] # Recent(b)[n]}
<1> SUFFICES ASSUME Bad # {} PROVE FALSE
  OBVIOUS
<1>1. PICK n \in Bad : \A k \in Bad : n <= k
  <2>1. Bad \in SUBSET Nat
    OBVIOUS
  <2> QED BY <2>1, LeastElement
<1>2. n # 0
  BY <1>1, RecentEquation
<1>3. n - 1 \in 0..len /\ n - 1 \notin Bad /\ n \in 1..Len(a) /\ n \in 1..Len(b) /\ a[n] = b[n]
  BY <1>1, <1>2
<1>4. Recent(a)[n] = IF a[n] \in Old THEN Recent(a)[n - 1] ELSE Append(Recent(a)[n - 1], a[n])
  BY <1>3, RecentEquation
<1>5. Recent(b)[n] = IF b[n] \in Old THEN Recent(b)[n - 1] ELSE Append(Recent(b)[n - 1], b[n])
  BY <1>3, RecentEquation
<1> QED BY <1>1, <1>3, <1>4, <1>5

\* g goes on where f ends.
BeginsWith(g, f) == Len(f) <= Len(g) /\ \A n \in 1..Len(f) : g[n] = f[n]

\* Going through more rows appends to it.
LEMMA RecentGrows ==
    ASSUME NEW rows \in Seq(Row), NEW m \in 0..Len(rows)
    PROVE  BeginsWith(Recent(rows)[Len(rows)], Recent(rows)[m])
<1> DEFINE Bad == {n \in Nat : n <= Len(rows) /\ m <= n /\ ~BeginsWith(Recent(rows)[n], Recent(rows)[m])}
<1> SUFFICES ASSUME Bad # {} PROVE FALSE
  OBVIOUS
<1>1. PICK n \in Bad : \A k \in Bad : n <= k
  BY LeastElement
<1>2. n # m
  <2>1. Recent(rows)[m] \in Seq(Row)
    BY RecentKept DEF KeptOf
  <2>2. BeginsWith(Recent(rows)[m], Recent(rows)[m])
    BY <2>1 DEF BeginsWith
  <2> QED BY <1>1, <2>2
<1>3. n \in 1..Len(rows) /\ n - 1 \in 0..Len(rows) /\ m <= n - 1 /\ n - 1 \notin Bad /\ rows[n] \in Row
  BY <1>1, <1>2
<1> DEFINE first == Recent(rows)[m]
           before == Recent(rows)[n - 1]
           kept == Recent(rows)[n]
<1>4. BeginsWith(before, first) /\ before \in Seq(Row) /\ first \in Seq(Row)
  <2>1. BeginsWith(before, first)
    BY <1>3
  <2>2. before \in Seq(Row) /\ first \in Seq(Row)
    BY <1>3, RecentKept DEF KeptOf
  <2> QED BY <2>1, <2>2
<1>5. kept = before \/ kept = Append(before, rows[n])
  BY <1>3, RecentEquation
<1> HIDE DEF first, before, kept
<1>6. Len(before) <= Len(kept) /\ \A k \in 1..Len(before) : kept[k] = before[k]
  BY <1>3, <1>4, <1>5
<1>7. Len(first) \in Nat /\ Len(before) \in Nat /\ Len(kept) \in Nat
  BY <1>3, <1>4, <1>5
<1>8. BeginsWith(kept, first)
  <2>1. Len(first) <= Len(before) /\ \A k \in 1..Len(first) : before[k] = first[k]
    BY <1>4 DEF BeginsWith
  <2>2. ASSUME NEW k \in 1..Len(first) PROVE kept[k] = first[k]
    <3>1. k \in 1..Len(before)
      BY <1>7, <2>1
    <3> QED BY <1>6, <2>1, <3>1
  <2>3. Len(first) <= Len(kept)
    BY <1>6, <1>7, <2>1
  <2> QED BY <2>2, <2>3 DEF BeginsWith
<1> QED BY <1>1, <1>8 DEF kept, first

\* No row twice in, no row twice out.
LEMMA RecentOnce ==
    ASSUME NEW rows \in Seq(Row), \A i, j \in 1..Len(rows) : rows[i] = rows[j] => i = j
    PROVE  \A n \in 0..Len(rows) :
              \A i, j \in 1..Len(Recent(rows)[n]) : Recent(rows)[n][i] = Recent(rows)[n][j] => i = j
<1> DEFINE Once(n) == \A i, j \in 1..Len(Recent(rows)[n]) :
                         Recent(rows)[n][i] = Recent(rows)[n][j] => i = j
           Bad == {n \in 0..Len(rows) : ~Once(n)}
<1> SUFFICES ASSUME Bad # {} PROVE FALSE
  OBVIOUS
<1>0. Once(0)
  BY RecentEquation
<1> HIDE DEF Once
<1>1. PICK n \in Bad : \A k \in Bad : n <= k
  <2>1. Bad \in SUBSET Nat
    OBVIOUS
  <2> QED BY <2>1, LeastElement
<1>2. n # 0
  BY <1>0, <1>1
<1>3. n \in 1..Len(rows) /\ n - 1 \in 0..Len(rows) /\ n - 1 \notin Bad /\ rows[n] \in Row
  BY <1>1, <1>2
<1> USE DEF Once
<1> DEFINE before == Recent(rows)[n - 1]
           kept == Recent(rows)[n]
<1>4. KeptOf(rows, n - 1, before) /\ \A i, j \in 1..Len(before) : before[i] = before[j] => i = j
  BY <1>3, RecentKept
<1>5. kept = before \/ kept = Append(before, rows[n])
  BY <1>3, RecentEquation
<1>6. ~(\A i, j \in 1..Len(kept) : kept[i] = kept[j] => i = j)
  BY <1>1
<1> HIDE DEF before, kept, Bad, Once
<1>7. kept = Append(before, rows[n])
  BY <1>4, <1>5, <1>6
<1>8. before \in Seq(Row) /\ Len(before) \in Nat
  BY <1>4 DEF KeptOf
<1>9. \A i \in 1..Len(before) : before[i] # rows[n]
  <2> SUFFICES ASSUME NEW i \in 1..Len(before) PROVE before[i] # rows[n]
    OBVIOUS
  <2>1. PICK k \in i..(n - 1) : rows[k] = before[i]
    BY <1>4 DEF KeptOf
  <2>2. k \in 1..Len(rows) /\ k # n /\ n \in 1..Len(rows)
    BY <1>3
  <2> QED BY <2>1, <2>2
<1>10. Len(kept) = Len(before) + 1 /\ kept[Len(before) + 1] = rows[n]
       /\ \A i \in 1..Len(before) : kept[i] = before[i]
  BY <1>3, <1>7, <1>8
<1> QED BY <1>4, <1>6, <1>8, <1>9, <1>10

\* A prune with nothing to leave out copies what it read.
LEMMA RecentAll ==
    ASSUME NEW rows \in Seq(Row), \A k \in 1..Len(rows) : rows[k] \notin Old
    PROVE  Recent(rows)[Len(rows)] = rows
<1> DEFINE All(n) == Len(Recent(rows)[n]) = n /\ \A k \in 1..n : Recent(rows)[n][k] = rows[k]
           Bad == {n \in 0..Len(rows) : ~All(n)}
<1>1. Bad = {}
  <2> SUFFICES ASSUME Bad # {} PROVE FALSE
    OBVIOUS
  <2>1. PICK n \in Bad : \A k \in Bad : n <= k
    <3>1. Bad \in SUBSET Nat
      OBVIOUS
    <3> QED BY <3>1, LeastElement
  <2>2. n # 0
    <3>1. All(0)
      BY RecentEquation
    <3> QED BY <2>1, <3>1
  <2>3. n \in 1..Len(rows) /\ n - 1 \in 0..Len(rows) /\ n - 1 \notin Bad /\ rows[n] \in Row
    BY <2>1, <2>2
  <2> DEFINE before == Recent(rows)[n - 1]
             kept == Recent(rows)[n]
  <2>4. /\ before \in Seq(Row) /\ Len(before) = n - 1 /\ \A k \in 1..(n - 1) : before[k] = rows[k]
        /\ kept = Append(before, rows[n])
    BY <2>3, RecentKept, RecentEquation DEF KeptOf
  <2> HIDE DEF before, kept
  <2>5. Len(kept) = n /\ \A k \in 1..n : kept[k] = rows[k]
    <3>1. Len(kept) = Len(before) + 1 /\ kept[Len(before) + 1] = rows[n]
      BY <2>3, <2>4
    <3>2. \A k \in 1..Len(before) : kept[k] = before[k]
      BY <2>3, <2>4
    <3>3. n \in Nat /\ Len(before) = n - 1
      BY <2>3, <2>4
    <3>4. ASSUME NEW k \in 1..n PROVE kept[k] = rows[k]
      <4>1. CASE k = n
        BY <3>1, <3>3, <4>1
      <4>2. CASE k # n
        <5>1. k \in 1..(n - 1)
          BY <3>3, <4>2
        <5> QED BY <2>4, <3>2, <3>3, <5>1
      <4> QED BY <4>1, <4>2
    <3> QED BY <3>1, <3>3, <3>4
  <2> QED BY <2>1, <2>5 DEF kept
<1>2. All(Len(rows)) /\ Recent(rows)[Len(rows)] \in Seq(Row)
  BY <1>1, RecentKept DEF KeptOf
<1> QED BY <1>2

-----------------------------------------------------------------------------
(* Where a piece stands in two files                                         *)

In(x, f) == \E n \in 1..Len(f) : f[n] = x
AtMost(x, f, k) == \A n \in 1..Len(f) : f[n] = x => n <= k

\* What is in both has the same place in both, or none further on in f.
SameAt(f, g) == \A m \in 1..Len(f), n \in 1..Len(g) : f[m] = g[n] => m = n
NoLaterAt(f, g) == \A m \in 1..Len(f), n \in 1..Len(g) : f[m] = g[n] => m <= n

LEMMA ContentPlaces ==
    ASSUME NEW rows \in Seq(Row), NEW n \in 1..Len(Content(rows))
    PROVE  \E k \in 1..Len(rows) : /\ Content(rows)[n].row = rows[k]
                                   /\ \/ n = 2 * k - 1 /\ Content(rows)[n].part = "head"
                                      \/ n = 2 * k /\ Content(rows)[n].part = "tail"
<1>1. Len(Content(rows)) = 2 * Len(rows)
  BY ContentAt
<1>2. PICK k \in 1..Len(rows) : n = 2 * k - 1 \/ n = 2 * k
  BY <1>1, ContentAt
<1>3. Content(rows)[2 * k - 1] = HeadOf(rows[k]) /\ Content(rows)[2 * k] = TailOf(rows[k])
  BY ContentAt
<1>4. n = 2 * k - 1 => Content(rows)[n].row = rows[k] /\ Content(rows)[n].part = "head"
  BY <1>3 DEF HeadOf
<1>5. n = 2 * k => Content(rows)[n].row = rows[k] /\ Content(rows)[n].part = "tail"
  BY <1>3 DEF TailOf
<1>6. /\ Content(rows)[n].row = rows[k]
      /\ \/ n = 2 * k - 1 /\ Content(rows)[n].part = "head"
         \/ n = 2 * k /\ Content(rows)[n].part = "tail"
  <2>1. CASE n = 2 * k - 1
    BY <1>4, <2>1
  <2>2. CASE n = 2 * k
    BY <1>5, <2>2
  <2> QED BY <1>2, <2>1, <2>2
<1> WITNESS k \in 1..Len(rows)
<1> QED BY <1>6

LEMMA ContentSameAt ==
    ASSUME NEW a \in Seq(Row), NEW b \in Seq(Row)
    PROVE  SameAt(a, b) <=> SameAt(Content(a), Content(b))
<1>1. ASSUME SameAt(a, b) PROVE SameAt(Content(a), Content(b))
  <2> SUFFICES ASSUME NEW m \in 1..Len(Content(a)), NEW n \in 1..Len(Content(b)),
                      Content(a)[m] = Content(b)[n]
               PROVE  m = n
    BY DEF SameAt
  <2>1. PICK j \in 1..Len(a) : /\ Content(a)[m].row = a[j]
                               /\ \/ m = 2 * j - 1 /\ Content(a)[m].part = "head"
                                  \/ m = 2 * j /\ Content(a)[m].part = "tail"
    BY ContentPlaces
  <2>2. PICK k \in 1..Len(b) : /\ Content(b)[n].row = b[k]
                               /\ \/ n = 2 * k - 1 /\ Content(b)[n].part = "head"
                                  \/ n = 2 * k /\ Content(b)[n].part = "tail"
    BY ContentPlaces
  <2>3. j = k
    BY <1>1, <2>1, <2>2 DEF SameAt
  <2> QED BY <2>1, <2>2, <2>3
<1>2. ASSUME SameAt(Content(a), Content(b)) PROVE SameAt(a, b)
  <2> SUFFICES ASSUME NEW m \in 1..Len(a), NEW n \in 1..Len(b), a[m] = b[n]
               PROVE  m = n
    BY DEF SameAt
  <2>1. Content(a)[2 * m] = TailOf(a[m]) /\ 2 * m \in 1..Len(Content(a))
    BY ContentAt
  <2>2. Content(b)[2 * n] = TailOf(b[n]) /\ 2 * n \in 1..Len(Content(b))
    BY ContentAt
  <2>3. 2 * m = 2 * n
    BY <1>2, <2>1, <2>2 DEF SameAt
  <2> QED BY <2>3
<1> QED BY <1>1, <1>2

\* Each piece a prune writes stood in what it read, at its place or later.
LEMMA PrunedPlaces ==
    ASSUME NEW rows \in Seq(Row), NEW n \in 1..Len(Content(Recent(rows)[Len(rows)]))
    PROVE  \E m \in 1..Len(Content(rows)) :
              n <= m /\ Content(rows)[m] = Content(Recent(rows)[Len(rows)])[n]
<1> DEFINE kept == Recent(rows)[Len(rows)]
<1>1. KeptOf(rows, Len(rows), kept)
  BY RecentKept
<1>2. kept \in Seq(Row)
  BY <1>1 DEF KeptOf
<1> HIDE DEF kept
<1>3. PICK j \in 1..Len(kept) : n = 2 * j - 1 \/ n = 2 * j
  BY <1>2, ContentAt DEF kept
<1>4. PICK k \in j..Len(rows) : rows[k] = kept[j]
  BY <1>1 DEF KeptOf
<1>5. k \in 1..Len(rows) /\ j <= k
  OBVIOUS
<1>6. /\ 2 * k - 1 \in 1..Len(Content(rows)) /\ 2 * k \in 1..Len(Content(rows))
      /\ Content(rows)[2 * k - 1] = HeadOf(kept[j]) /\ Content(rows)[2 * k] = TailOf(kept[j])
  BY <1>4, <1>5, ContentAt
<1>7. Content(kept)[2 * j - 1] = HeadOf(kept[j]) /\ Content(kept)[2 * j] = TailOf(kept[j])
  BY <1>2, ContentAt
<1>8. CASE n = 2 * j - 1
  <2>1. n <= 2 * k - 1
    BY <1>5, <1>8
  <2> QED BY <1>6, <1>7, <1>8, <2>1 DEF kept
<1>9. CASE n = 2 * j
  <2>1. n <= 2 * k
    BY <1>5, <1>9
  <2> QED BY <1>6, <1>7, <1>9, <2>1 DEF kept
<1> QED BY <1>3, <1>8, <1>9

\* f's places in a file that g begins with are its places in g.
LEMMA PrefixSameAt ==
    ASSUME NEW f \in Seq(Piece), NEW g \in Seq(Piece), BeginsWith(g, f), SameAt(g, g)
    PROVE  SameAt(g, f) /\ SameAt(f, g)
<1>1. Len(f) \in Nat /\ Len(g) \in Nat
  OBVIOUS
<1>2. \A n \in 1..Len(f) : n \in 1..Len(g) /\ g[n] = f[n]
  BY <1>1 DEF BeginsWith
<1> QED BY <1>2 DEF SameAt

LEMMA ContentBegins ==
    ASSUME NEW a \in Seq(Row), NEW b \in Seq(Row), BeginsWith(b, a)
    PROVE  BeginsWith(Content(b), Content(a))
<1>1. Len(Content(a)) = 2 * Len(a) /\ Len(Content(b)) = 2 * Len(b)
  BY ContentAt
<1>2. Len(a) <= Len(b) /\ \A k \in 1..Len(a) : b[k] = a[k]
  BY DEF BeginsWith
<1>3. ASSUME NEW n \in 1..Len(Content(a)) PROVE Content(b)[n] = Content(a)[n]
  <2>1. PICK k \in 1..Len(a) : n = 2 * k - 1 \/ n = 2 * k
    BY <1>1, ContentAt
  <2>2. k \in 1..Len(b) /\ b[k] = a[k]
    BY <1>2
  <2>3. Content(a)[2 * k - 1] = HeadOf(a[k]) /\ Content(a)[2 * k] = TailOf(a[k])
    BY ContentAt
  <2>4. Content(b)[2 * k - 1] = HeadOf(b[k]) /\ Content(b)[2 * k] = TailOf(b[k])
    BY <2>2, ContentAt
  <2> QED BY <2>1, <2>2, <2>3, <2>4
<1> QED BY <1>1, <1>2, <1>3 DEF BeginsWith

-----------------------------------------------------------------------------
(* What Follow has shown                                                     *)

\* A prune whose file may still replace the log, and what it has or will write.
Pending(p) == pruner[p] \in {"read", "temp", "synced"}
Copy(p) == Content(Kept(p))

\* Before the first shim opens the log there is nothing in it.
NamedOnce ==
    path = None => content["log"] = <<>> /\ \A w \in Writer : writer[w] \in {"start", "failed"}

\* Nothing is twice in the log, and nothing old in it once it was pruned.
LogOnce ==
    /\ SameAt(Log, Log)
    /\ path \in Pruner => \A n \in 1..Len(Log) : Log[n].row \notin Old

\* What is in two files that may be the log has its place in both. The log as
\* it was before it was pruned is the exception: what stands in it comes
\* earlier in the copies, and it still begins with what the prunes read.
CopiesAgree ==
    \A p \in Pruner : Pending(p) =>
        /\ \A q \in Pruner : Pending(q) => SameAt(Copy(p), Copy(q))
        /\ path \in Pruner => SameAt(Copy(p), Log)
        /\ path \notin Pruner => NoLaterAt(Copy(p), Log) /\ BeginsWith(Log, Content(records[p]))

\* What a shim has not written yet is nowhere.
FreshOK ==
    \A w \in Writer : \A x \in {HeadOf(w), TailOf(w)} :
        \/ writer[w] \in {"start", "open"}
        \/ writer[w] = "torn" /\ x = TailOf(w)
        => /\ ~In(x, Log)
           /\ \A p \in Pruner : Pending(p) => ~In(x, Copy(p))
           /\ \A o \in Follower : ~In(x, shown[o])

\* What was shown has its place before the offset in every such file.
ShownOK ==
    \A o \in Follower :
        /\ follower[o] \in {"start", "listed"} => shown[o] = <<>>
        /\ SameAt(shown[o], shown[o])
        /\ \A n \in 1..Len(shown[o]) :
              /\ AtMost(shown[o][n], Log, offset[o])
              /\ \A p \in Pruner : Pending(p) => AtMost(shown[o][n], Copy(p), offset[o])

FInv == KInv /\ NamedOnce /\ LogOnce /\ CopiesAgree /\ FreshOK /\ ShownOK

LEMMA InitFollow ==
    ASSUME Init
    PROVE  FInv
<1>1. KInv
  BY InitKept
<1>2. Past \in Seq(Row) /\ Content(<<>>) = <<>>
  BY RowAssumption DEF Row, Content
<1>3. Log = Content(Past)
  BY <1>2, InodeAssumption DEF Init, Log, Inode
<1>4. NamedOnce
  BY <1>2, InodeAssumption DEF Init, NamedOnce, Inode
<1>5. LogOnce
  <2>1. SameAt(Past, Past)
    BY <1>2, RowAssumption DEF SameAt, IsInjective
  <2>2. path \notin Pruner
    BY InodeAssumption DEF Init
  <2> QED BY <1>2, <1>3, <2>1, <2>2, ContentSameAt DEF LogOnce
<1>6. CopiesAgree
  BY DEF Init, CopiesAgree, Pending
<1>7. ShownOK
  BY DEF Init, ShownOK, SameAt
<1>8. FreshOK
  <2> SUFFICES ASSUME NEW w \in Writer, NEW x \in {HeadOf(w), TailOf(w)}
               PROVE  ~In(x, Log)
    BY DEF Init, FreshOK, Pending, In
  <2> SUFFICES ASSUME NEW n \in 1..Len(Content(Past)), Content(Past)[n] = x PROVE FALSE
    BY <1>3 DEF In
  <2>1. x.row = w
    BY DEF HeadOf, TailOf
  <2>2. PICK k \in 1..Len(Past) : Content(Past)[n].row = Past[k]
    BY <1>2, ContentPlaces
  <2>3. Past[k] \in Range(Past)
    BY <1>2 DEF Range
  <2> QED BY <2>1, <2>2, <2>3, RowAssumption
<1> QED BY <1>1, <1>4, <1>5, <1>6, <1>7, <1>8 DEF FInv

\* A step under which nothing new can be seen.
Quiet ==
    /\ Log' = Log /\ UNCHANGED <<records, offset, shown>> /\ (path' \in Pruner <=> path \in Pruner)
    /\ \A p \in Pruner : pruner'[p] \in {"read", "temp", "synced"} => Pending(p)
    /\ \A o \in Follower : follower'[o] \in {"start", "listed"} => follower[o] \in {"start", "listed"}
    /\ \A w \in Writer : /\ writer'[w] \in {"start", "open"} => writer[w] \in {"start", "open"}
                         /\ writer'[w] = "torn" => writer[w] \in {"open", "torn"}

LEMMA QuietKeeps ==
    ASSUME Quiet, LogOnce, CopiesAgree, FreshOK, ShownOK
    PROVE  LogOnce' /\ CopiesAgree' /\ FreshOK' /\ ShownOK'
<1>1. /\ Log' = Log /\ UNCHANGED <<records, offset, shown>> /\ (path' \in Pruner <=> path \in Pruner)
      /\ \A p \in Pruner : Pending(p)' => Pending(p)
      /\ \A p \in Pruner : Copy(p)' = Copy(p)
  BY DEF Quiet, Pending, Copy, Kept
<1>2. LogOnce'
  BY <1>1 DEF LogOnce
<1>3. CopiesAgree'
  BY <1>1 DEF CopiesAgree
<1>4. FreshOK'
  BY <1>1 DEF FreshOK, Quiet
<1>5. ShownOK'
  BY <1>1 DEF ShownOK, Quiet
<1> QED BY <1>2, <1>3, <1>4, <1>5

\* The log as a shim's write to it leaves it: new pieces come last.
LEMMA LogGrows ==
    ASSUME TypeOK, NEW i \in Inode, NEW pieces \in Seq(Piece), Grow(i, pieces),
           path' = path, path = i
    PROVE  Log' = Log \o pieces /\ Log \in Seq(Piece)
<1>1. content'[i] = content[i] \o pieces
  BY DEF Grow, TypeOK
<1> QED BY <1>1, InodeAssumption DEF Log, TypeOK, Inode

LEMMA FileGrows ==
    ASSUME TypeOK, NEW i \in Inode, NEW pieces \in Seq(Piece), Grow(i, pieces),
           path' = path, path # i
    PROVE  Log' = Log
BY DEF Grow, TypeOK, Log

\* Pieces of one row that were nowhere are appended to the log.
LEMMA AppendKeeps ==
    ASSUME FInv, NEW w \in Writer, NEW i \in Inode, path = i,
           NEW pieces \in Seq(Piece), Grow(i, pieces),
           SameAt(pieces, pieces), \A k \in 1..Len(pieces) : pieces[k] \in {HeadOf(w), TailOf(w)},
           writer[w] \in {"open", "torn"}, writer[w] = "torn" => pieces = <<TailOf(w)>>,
           writer'[w] = "written" \/ (writer'[w] = "torn" /\ pieces = <<HeadOf(w)>>),
           \A v \in Writer \ {w} : writer'[v] = writer[v],
           UNCHANGED <<path, prunerVars, followerVars>>
    PROVE  LogOnce' /\ CopiesAgree' /\ FreshOK' /\ ShownOK'
<1> DEFINE len == Len(Log)
<1>1. Log' = Log \o pieces /\ Log \in Seq(Piece)
  BY LogGrows DEF FInv, KInv
<1>2. /\ len \in Nat /\ Len(pieces) \in Nat /\ Len(Log') = len + Len(pieces)
      /\ \A n \in 1..len : Log'[n] = Log[n]
      /\ \A k \in 1..Len(pieces) : Log'[len + k] = pieces[k]
  BY <1>1
<1>3. /\ UNCHANGED <<pruner, records, follower, offset, shown>>
      /\ \A p \in Pruner : Pending(p)' <=> Pending(p)
      /\ \A p \in Pruner : Copy(p)' = Copy(p)
  BY DEF prunerVars, followerVars, Pending, Copy, Kept
<1>4. ASSUME NEW k \in 1..Len(pieces)
      PROVE  /\ ~In(pieces[k], Log)
             /\ \A p \in Pruner : Pending(p) => ~In(pieces[k], Copy(p))
             /\ \A o \in Follower : ~In(pieces[k], shown[o])
  <2>1. pieces[k] \in {HeadOf(w), TailOf(w)}
    OBVIOUS
  <2>2. ASSUME writer[w] = "torn" PROVE pieces[k] = TailOf(w)
    <3>1. pieces = <<TailOf(w)>>
      BY <2>2
    <3>2. k = 1
      BY <3>1
    <3> QED BY <3>1, <3>2
  <2>3. writer[w] \in {"start", "open"} \/ (writer[w] = "torn" /\ pieces[k] = TailOf(w))
    BY <2>2
  <2> QED BY <2>1, <2>3 DEF FInv, FreshOK
<1> HIDE DEF len
<1>5. \A n \in 1..Len(Log') :
         \/ n \in 1..len /\ Log'[n] = Log[n]
         \/ \E k \in 1..Len(pieces) : n = len + k /\ Log'[n] = pieces[k]
  <2> SUFFICES ASSUME NEW n \in 1..Len(Log'), n \notin 1..len
               PROVE  \E k \in 1..Len(pieces) : n = len + k /\ Log'[n] = pieces[k]
    BY <1>2
  <2>1. n - len \in 1..Len(pieces) /\ n = len + (n - len)
    BY <1>2
  <2>2. Log'[len + (n - len)] = pieces[n - len]
    BY <1>2, <2>1
  <2> QED BY <2>1, <2>2
<1>6. LogOnce'
  <2>1. ASSUME NEW m \in 1..Len(Log'), NEW n \in 1..Len(Log'), Log'[m] = Log'[n] PROVE m = n
    <3>1. CASE m \in 1..len /\ n \in 1..len
      BY <1>2, <2>1, <3>1 DEF FInv, LogOnce, SameAt, len
    <3>2. CASE m \in 1..len /\ n \notin 1..len
      <4>1. PICK k \in 1..Len(pieces) : Log'[n] = pieces[k]
        BY <1>5, <3>2
      <4>2. In(pieces[k], Log)
        BY <1>2, <2>1, <3>2, <4>1 DEF In, len
      <4> QED BY <1>4, <4>2
    <3>3. CASE m \notin 1..len /\ n \in 1..len
      <4>1. PICK k \in 1..Len(pieces) : Log'[m] = pieces[k]
        BY <1>5, <3>3
      <4>2. In(pieces[k], Log)
        BY <1>2, <2>1, <3>3, <4>1 DEF In, len
      <4> QED BY <1>4, <4>2
    <3>4. CASE m \notin 1..len /\ n \notin 1..len
      <4>1. PICK k \in 1..Len(pieces) : m = len + k /\ Log'[m] = pieces[k]
        BY <1>5, <3>4
      <4>2. PICK l \in 1..Len(pieces) : n = len + l /\ Log'[n] = pieces[l]
        BY <1>5, <3>4
      <4>3. k = l
        BY <2>1, <4>1, <4>2 DEF SameAt
      <4> QED BY <4>1, <4>2, <4>3
    <3> QED BY <3>1, <3>2, <3>3, <3>4
  <2>2. ASSUME path \in Pruner, NEW n \in 1..Len(Log') PROVE Log'[n].row \notin Old
    <3>1. CASE n \in 1..len
      BY <1>2, <2>2, <3>1 DEF FInv, LogOnce, len
    <3>2. CASE n \notin 1..len
      <4>1. PICK k \in 1..Len(pieces) : Log'[n] = pieces[k]
        BY <1>5, <3>2
      <4>2. pieces[k] \in {HeadOf(w), TailOf(w)}
        OBVIOUS
      <4>3. Log'[n].row = w
        BY <4>1, <4>2 DEF HeadOf, TailOf
      <4> QED BY <4>3, RowAssumption, OldAssumption
    <3> QED BY <3>1, <3>2
  <2> QED BY <2>1, <2>2 DEF LogOnce, SameAt
<1>7. CopiesAgree'
  <2> SUFFICES ASSUME NEW p \in Pruner, Pending(p)
               PROVE  /\ \A q \in Pruner : Pending(q) => SameAt(Copy(p), Copy(q))
                      /\ path \in Pruner => SameAt(Copy(p), Log')
                      /\ path \notin Pruner => /\ NoLaterAt(Copy(p), Log')
                                               /\ BeginsWith(Log', Content(records[p]))
    BY <1>3 DEF CopiesAgree
  <2>1. ASSUME NEW m \in 1..Len(Copy(p)), NEW n \in 1..Len(Log'), Copy(p)[m] = Log'[n]
        PROVE  n \in 1..len /\ Log'[n] = Log[n]
    <3> SUFFICES ASSUME n \notin 1..len PROVE FALSE
      BY <1>2
    <3>1. PICK k \in 1..Len(pieces) : Log'[n] = pieces[k]
      BY <1>5
    <3>2. In(pieces[k], Copy(p))
      BY <2>1, <3>1 DEF In
    <3> QED BY <1>4, <3>2
  <2>2. path \in Pruner => SameAt(Copy(p), Log')
    BY <2>1 DEF FInv, CopiesAgree, SameAt, len
  <2>3. path \notin Pruner => NoLaterAt(Copy(p), Log')
    BY <2>1 DEF FInv, CopiesAgree, NoLaterAt, len
  <2>4. path \notin Pruner => BeginsWith(Log', Content(records[p]))
    <3>1. records[p] \in Seq(Row)
      BY DEF FInv, KInv, TypeOK
    <3>2. Len(Content(records[p])) \in Nat
      BY <3>1, ContentAt
    <3> SUFFICES ASSUME path \notin Pruner PROVE BeginsWith(Log', Content(records[p]))
      OBVIOUS
    <3>3. Len(Content(records[p])) <= len /\ \A n \in 1..Len(Content(records[p])) : Log[n] = Content(records[p])[n]
      BY DEF FInv, CopiesAgree, BeginsWith, len
    <3>4. Len(Content(records[p])) <= Len(Log')
      BY <1>2, <3>2, <3>3
    <3>5. \A n \in 1..Len(Content(records[p])) : n \in 1..len
      BY <1>2, <3>2, <3>3
    <3> QED BY <1>2, <3>3, <3>4, <3>5 DEF BeginsWith
  <2> QED BY <2>2, <2>3, <2>4 DEF FInv, CopiesAgree
<1>8. FreshOK'
  <2> SUFFICES ASSUME NEW v \in Writer, NEW x \in {HeadOf(v), TailOf(v)},
                      \/ writer'[v] \in {"start", "open"}
                      \/ writer'[v] = "torn" /\ x = TailOf(v)
               PROVE  /\ ~In(x, Log')
                      /\ \A p \in Pruner : Pending(p) => ~In(x, Copy(p))
                      /\ \A o \in Follower : ~In(x, shown[o])
    BY <1>3 DEF FreshOK
  <2>1. writer[v] \in {"start", "open"} \/ (writer[v] = "torn" /\ x = TailOf(v))
    OBVIOUS
  <2>2. /\ ~In(x, Log)
        /\ \A p \in Pruner : Pending(p) => ~In(x, Copy(p))
        /\ \A o \in Follower : ~In(x, shown[o])
    BY <2>1 DEF FInv, FreshOK
  <2>3. ASSUME NEW k \in 1..Len(pieces) PROVE pieces[k] # x
    <3>1. pieces[k] \in {HeadOf(w), TailOf(w)} /\ pieces[k].row = w /\ x.row = v
      BY DEF HeadOf, TailOf
    <3>2. CASE v = w
      <4>1. pieces[k] = HeadOf(w) /\ x = TailOf(w)
        BY <3>2
      <4> QED BY <4>1 DEF HeadOf, TailOf
    <3> QED BY <3>1, <3>2
  <2>4. ~In(x, Log')
    BY <1>2, <1>5, <2>2, <2>3 DEF In, len
  <2> QED BY <2>2, <2>4
<1>9. ShownOK'
  <2> SUFFICES ASSUME NEW o \in Follower, NEW n \in 1..Len(shown[o])
               PROVE  AtMost(shown[o][n], Log', offset[o])
    BY <1>3 DEF ShownOK, FInv
  <2> SUFFICES ASSUME NEW m \in 1..Len(Log'), Log'[m] = shown[o][n] PROVE m <= offset[o]
    BY DEF AtMost
  <2>1. m \in 1..len
    <3> SUFFICES ASSUME m \notin 1..len PROVE FALSE
      OBVIOUS
    <3>1. PICK k \in 1..Len(pieces) : Log'[m] = pieces[k]
      BY <1>5
    <3>2. In(pieces[k], shown[o])
      BY <3>1 DEF In
    <3> QED BY <1>4, <3>2
  <2> QED BY <1>2, <2>1 DEF FInv, ShownOK, AtMost, len
<1> QED BY <1>6, <1>7, <1>8, <1>9

LEMMA WriteFollow ==
    ASSUME FInv, KInv', NEW w \in Writer, Write(w)
    PROVE  FInv'
<1> USE DEF FInv
<1>1. TypeOK /\ TypeOK' /\ w \in Row /\ UNCHANGED <<prunerVars, followerVars>>
  BY DEF KInv, Row, Write, Open, WriteAll, WriteHead, WriteTail, SyncLog, FailLog
<1>2. \A v \in Writer \ {w} : writer'[v] = writer[v]
  BY <1>1 DEF Write, Open, WriteAll, WriteHead, WriteTail, SyncLog, FailLog, TypeOK
<1>3. UNCHANGED <<pruner, records, follower, offset, shown>>
  BY <1>1 DEF prunerVars, followerVars
<1>4. ASSUME Log' = Log, path' \in Pruner <=> path \in Pruner,
             writer'[w] \in {"start", "open"} => writer[w] \in {"start", "open"},
             writer'[w] = "torn" => writer[w] \in {"open", "torn"}
      PROVE  LogOnce' /\ CopiesAgree' /\ FreshOK' /\ ShownOK'
  <2>1. Quiet
    BY <1>2, <1>3, <1>4 DEF Quiet, Pending
  <2> QED BY <2>1, QuietKeeps
<1>5. CASE Open(w)
  <2>1. writer[w] = "start" /\ writer'[w] = "open" /\ UNCHANGED content
    BY <1>1, <1>5 DEF Open, TypeOK
  <2>2. path # None => path' = path
    BY <1>5 DEF Open
  <2>3. path = None => path' = "log" /\ content["log"] = <<>>
    BY <1>5 DEF Open, NamedOnce
  <2>4. Log' = Log /\ (path' \in Pruner <=> path \in Pruner) /\ path' # None
    BY <2>1, <2>2, <2>3, InodeAssumption DEF Log
  <2> QED BY <1>4, <2>1, <2>4 DEF NamedOnce
<1>6. CASE SyncLog(w) \/ FailLog(w)
  <2>1. UNCHANGED <<path, content>> /\ writer'[w] \in {"logged", "failed"}
    BY <1>1, <1>6 DEF SyncLog, FailLog, fileVars, TypeOK
  <2>2. Log' = Log
    BY <2>1 DEF Log
  <2>3. NamedOnce'
    <3>1. SyncLog(w) => path # None
      BY <1>6 DEF SyncLog, NamedOnce
    <3>2. FailLog(w) => writer'[w] = "failed"
      BY <1>1 DEF FailLog, TypeOK
    <3> QED BY <1>2, <1>6, <2>1, <3>1, <3>2 DEF NamedOnce
  <2> QED BY <1>4, <2>1, <2>2, <2>3
<1>7. CASE WriteAll(w) \/ WriteHead(w) \/ WriteTail(w)
  <2> DEFINE i == fd[w]
             pieces == IF WriteAll(w) THEN Line(w)
                       ELSE IF WriteHead(w) THEN <<HeadOf(w)>> ELSE <<TailOf(w)>>
  <2>1. Line(w)[1] = HeadOf(w) /\ Line(w)[2] = TailOf(w) /\ HeadOf(w) \in Piece /\ TailOf(w) \in Piece
        /\ Line(w) = <<HeadOf(w), TailOf(w)>> /\ HeadOf(w) # TailOf(w)
    BY <1>1, LineParts DEF Line, HeadOf, TailOf
  <2>2. Grow(i, pieces) /\ UNCHANGED path /\ i \in Inode
    BY <1>7, <2>1 DEF WriteAll, WriteHead, WriteTail, KInv, FdOK
  <2>3. pieces \in Seq(Piece) /\ \A k \in 1..Len(pieces) : pieces[k] \in {HeadOf(w), TailOf(w)}
    BY <2>1
  <2>4. SameAt(pieces, pieces)
    BY <2>1 DEF SameAt
  <2>5. /\ writer[w] \in {"open", "torn"} /\ (writer[w] = "torn" => pieces = <<TailOf(w)>>)
        /\ writer'[w] = "written" \/ (writer'[w] = "torn" /\ pieces = <<HeadOf(w)>> /\ writer[w] = "open")
    <3>1. CASE WriteAll(w)
      BY <1>1, <3>1 DEF WriteAll, TypeOK
    <3>2. CASE WriteHead(w)
      BY <1>1, <3>2 DEF WriteHead, WriteAll, TypeOK
    <3>3. CASE WriteTail(w)
      BY <1>1, <3>3 DEF WriteTail, WriteHead, WriteAll, TypeOK
    <3> QED BY <1>7, <3>1, <3>2, <3>3
  <2>6. path # None /\ NamedOnce'
    BY <2>2, <2>5 DEF NamedOnce
  <2> HIDE DEF pieces
  <2>7. CASE path = i
    BY <1>1, <1>2, <2>2, <2>3, <2>4, <2>5, <2>6, <2>7, AppendKeeps
  <2>8. CASE path # i
    <3>1. Log' = Log
      BY <1>1, <2>2, <2>3, <2>8, FileGrows
    <3> QED BY <1>4, <2>2, <2>5, <2>6, <3>1
  <2> QED BY <2>7, <2>8
<1> QED BY <1>5, <1>6, <1>7 DEF Write

\* A prune reads the log: what it is to write stands no further on than there,
\* and where the other prunes have it.
LEMMA ReadFollow ==
    ASSUME FInv, NEW p \in Pruner, ReadRecords(p)
    PROVE  LogOnce' /\ CopiesAgree' /\ FreshOK' /\ ShownOK'
<1> USE DEF FInv
<1>1. TypeOK /\ Log' = Log /\ UNCHANGED <<path, writer, follower, offset, shown>>
  BY DEF KInv, ReadRecords, fileVars, writerVars, followerVars, Log
<1>2. CASE pruner'[p] # "read"
  <2>1. /\ records' = records
        /\ \A q \in Pruner : pruner'[q] \in {"read", "temp", "synced"} => Pending(q)
    BY <1>1, <1>2 DEF ReadRecords, TypeOK, Pending
  <2>2. Quiet
    BY <1>1, <2>1 DEF Quiet
  <2> QED BY <2>2, QuietKeeps
<1>3. CASE pruner'[p] = "read"
  <2> DEFINE rows == RowsOf(Log)
             kept == Recent(rows)[Len(rows)]
             copy == Content(kept)
  <2>1. Parses(Log) /\ records'[p] = rows
    BY <1>1, <1>3 DEF ReadRecords, TypeOK
  <2>2. rows \in Seq(Row) /\ Log = Content(rows)
    BY <1>1, <2>1, LogType, ParsedRows
  <2>3. KeptOf(rows, Len(rows), kept)
    BY <2>2, RecentKept
  <2>4. kept \in Seq(Row) /\ copy \in Seq(Piece)
    BY <2>3, ContentAt DEF KeptOf
  <2> HIDE DEF rows
  <2>5. /\ Copy(p)' = copy /\ \A q \in Pruner \ {p} : Copy(q)' = Copy(q) /\ records'[q] = records[q]
        /\ Pending(p)' /\ \A q \in Pruner \ {p} : Pending(q)' <=> Pending(q)
    <3>1. \A q \in Pruner \ {p} : records'[q] = records[q] /\ pruner'[q] = pruner[q]
      BY <1>1 DEF ReadRecords, TypeOK
    <3> QED BY <1>3, <2>1, <3>1 DEF Copy, Kept, Pending
  <2> HIDE DEF kept, copy
  <2>6. ASSUME NEW n \in 1..Len(copy)
        PROVE  \E m \in 1..Len(Log) : n <= m /\ Log[m] = copy[n]
    BY <2>2, PrunedPlaces DEF copy, kept
  <2>7. SameAt(rows, rows)
    BY <2>2, ContentSameAt DEF LogOnce
  <2>8. SameAt(copy, copy)
    <3>1. \A i, j \in 1..Len(kept) : kept[i] = kept[j] => i = j
      <4>1. \A i, j \in 1..Len(rows) : rows[i] = rows[j] => i = j
        BY <2>7 DEF SameAt
      <4>2. Len(rows) \in 0..Len(rows)
        BY <2>2
      <4> QED BY <2>2, <4>1, <4>2, RecentOnce DEF kept
    <3> QED BY <2>4, <3>1, ContentSameAt DEF SameAt, copy
  <2>9. NoLaterAt(copy, Log)
    <3> SUFFICES ASSUME NEW n \in 1..Len(copy), NEW k \in 1..Len(Log), copy[n] = Log[k]
                 PROVE  n <= k
      BY DEF NoLaterAt
    <3>1. PICK m \in 1..Len(Log) : n <= m /\ Log[m] = copy[n]
      BY <2>6
    <3>2. m = k
      BY <3>1 DEF LogOnce, SameAt
    <3> QED BY <3>1, <3>2
  <2>10. path \in Pruner => copy = Log
    <3> SUFFICES ASSUME path \in Pruner PROVE copy = Log
      OBVIOUS
    <3>1. ASSUME NEW k \in 1..Len(rows) PROVE rows[k] \notin Old
      <4>1. 2 * k \in 1..Len(Log) /\ Log[2 * k] = TailOf(rows[k])
        BY <2>2, ContentAt
      <4>2. Log[2 * k].row \notin Old
        BY <4>1 DEF LogOnce
      <4> QED BY <4>1, <4>2 DEF TailOf
    <3>2. kept = rows
      BY <2>2, <3>1, RecentAll DEF kept
    <3> QED BY <2>2, <3>2 DEF copy
  <2>11. ASSUME NEW q \in Pruner, q # p, Pending(q)
         PROVE  SameAt(copy, Copy(q)) /\ SameAt(Copy(q), copy)
    <3>1. CASE path \in Pruner
      <4>1. SameAt(Copy(q), Log)
        BY <2>11, <3>1 DEF CopiesAgree
      <4> QED BY <2>10, <3>1, <4>1 DEF SameAt
    <3>2. CASE path \notin Pruner
      <4> DEFINE read == records[q]
                 len == Len(read)
      <4>1. read \in Seq(Row) /\ len \in Nat
        BY <1>1 DEF TypeOK
      <4>2. BeginsWith(Content(rows), Content(read))
        BY <2>2, <2>11, <3>2 DEF CopiesAgree
      <4> HIDE DEF read, len
      <4>3. len <= Len(rows)
        <5>1. Len(Content(rows)) = 2 * Len(rows) /\ Len(Content(read)) = 2 * len
          BY <2>2, <4>1, ContentAt DEF len
        <5>2. 2 * len <= 2 * Len(rows) /\ Len(rows) \in Nat
          BY <2>2, <4>2, <5>1 DEF BeginsWith
        <5> QED BY <4>1, <5>2
      <4>4. ASSUME NEW k \in 1..len PROVE rows[k] = read[k]
        <5>1. 2 * k \in 1..Len(Content(read)) /\ Content(read)[2 * k] = TailOf(read[k])
          BY <4>1, ContentAt DEF len
        <5>2. k \in 1..Len(rows) /\ Content(rows)[2 * k] = TailOf(rows[k])
          <6>1. k \in 1..Len(rows)
            BY <2>2, <4>1, <4>3
          <6> QED BY <2>2, <6>1, ContentAt
        <5>3. TailOf(rows[k]) = TailOf(read[k])
          BY <4>2, <5>1, <5>2 DEF BeginsWith
        <5> QED BY <5>3 DEF TailOf
      <4>5. Recent(read)[len] = Recent(rows)[len]
        BY <2>2, <4>1, <4>3, <4>4, RecentAgrees DEF len
      <4>6. BeginsWith(kept, Recent(rows)[len])
        <5>1. len \in 0..Len(rows)
          BY <2>2, <4>1, <4>3
        <5> QED BY <2>2, <5>1, RecentGrows DEF kept
      <4>7. Kept(q) = Recent(read)[len] /\ Kept(q) \in Seq(Row)
        BY <1>1, KeptType DEF Kept, read, len
      <4>8. BeginsWith(copy, Copy(q)) /\ Copy(q) \in Seq(Piece)
        BY <2>4, <4>5, <4>6, <4>7, ContentBegins, ContentAt DEF copy, Copy
      <4> QED BY <2>4, <2>8, <4>8, PrefixSameAt
    <3> QED BY <3>1, <3>2
  <2>12. LogOnce'
    BY <1>1 DEF LogOnce
  <2>13. CopiesAgree'
    <3>1. /\ path \in Pruner => SameAt(copy, Log)
          /\ path \notin Pruner => NoLaterAt(copy, Log) /\ BeginsWith(Log, Content(rows))
      BY <2>2, <2>8, <2>9, <2>10 DEF BeginsWith
    <3>2. ASSUME NEW q \in Pruner, Pending(q)'
          PROVE  /\ \A t \in Pruner : Pending(t)' => SameAt(Copy(q)', Copy(t)')
                 /\ path' \in Pruner => SameAt(Copy(q)', Log')
                 /\ path' \notin Pruner => NoLaterAt(Copy(q)', Log') /\ BeginsWith(Log', Content(records'[q]))
      <4>1. CASE q = p
        BY <1>1, <2>1, <2>5, <2>8, <2>11, <3>1, <4>1
      <4>2. CASE q # p
        BY <1>1, <2>5, <2>11, <3>2, <4>2 DEF CopiesAgree
      <4> QED BY <4>1, <4>2
    <3> QED BY <3>2 DEF CopiesAgree
  <2>14. FreshOK'
    <3>1. \A x : ~In(x, Log) => ~In(x, copy)
      BY <2>6 DEF In
    <3> QED BY <1>1, <2>5, <3>1 DEF FreshOK
  <2>15. ShownOK'
    <3>1. ASSUME NEW o \in Follower, NEW n \in 1..Len(shown[o])
          PROVE  AtMost(shown[o][n], copy, offset[o])
      <4> SUFFICES ASSUME NEW m \in 1..Len(copy), copy[m] = shown[o][n] PROVE m <= offset[o]
        BY DEF AtMost
      <4>1. PICK k \in 1..Len(Log) : m <= k /\ Log[k] = copy[m]
        BY <2>6
      <4>2. k <= offset[o] /\ offset[o] \in Nat
        BY <1>1, <4>1 DEF ShownOK, AtMost, TypeOK
      <4> QED BY <4>1, <4>2
    <3> QED BY <1>1, <2>5, <3>1 DEF ShownOK
  <2> QED BY <2>12, <2>13, <2>14, <2>15
<1> QED BY <1>2, <1>3

\* A prune's copy replaces the log.
LEMMA RenameFollow ==
    ASSUME FInv, NEW p \in Pruner, Rename(p)
    PROVE  LogOnce' /\ CopiesAgree' /\ FreshOK' /\ ShownOK'
<1> USE DEF FInv
<1>1. /\ TypeOK /\ path' = p /\ pruner[p] = "synced" /\ pruner'[p] = "pruned"
      /\ \A q \in Pruner \ {p} : pruner'[q] = pruner[q]
      /\ UNCHANGED <<content, records, writer, follower, offset, shown>>
  BY DEF KInv, Rename, TypeOK, writerVars, followerVars
<1>2. Log' = Copy(p) /\ Pending(p)
  BY <1>1, InodeAssumption DEF Log, KInv, PrunerOK, Copy, Pending
<1>3. /\ \A q \in Pruner : Pending(q)' => Pending(q)
      /\ \A q \in Pruner : Copy(q)' = Copy(q)
  BY <1>1 DEF Pending, Copy, Kept
<1>4. LogOnce'
  <2>1. SameAt(Copy(p), Copy(p))
    BY <1>2 DEF CopiesAgree
  <2>2. ASSUME NEW n \in 1..Len(Copy(p)) PROVE Copy(p)[n].row \notin Old
    <3>1. records[p] \in Seq(Row)
      BY <1>1 DEF TypeOK
    <3>2. KeptOf(records[p], Len(records[p]), Kept(p))
      BY <3>1, RecentKept DEF Kept
    <3>3. PICK k \in 1..Len(Kept(p)) : Copy(p)[n].row = Kept(p)[k]
      BY <3>2, ContentPlaces DEF KeptOf, Copy
    <3> QED BY <3>2, <3>3 DEF KeptOf
  <2> QED BY <1>2, <2>1, <2>2 DEF LogOnce
<1>5. CopiesAgree'
  BY <1>1, <1>2, <1>3 DEF CopiesAgree
<1>6. FreshOK'
  BY <1>1, <1>2, <1>3 DEF FreshOK
<1>7. ShownOK'
  BY <1>1, <1>2, <1>3 DEF ShownOK
<1> QED BY <1>4, <1>5, <1>6, <1>7

LEMMA PruneFollow ==
    ASSUME FInv, KInv', NEW p \in Pruner, Prune(p)
    PROVE  FInv'
<1> USE DEF FInv
<1>1. TypeOK /\ UNCHANGED <<writer, follower, offset, shown>>
  BY DEF KInv, Prune, ReadRecords, WriteTemp, SyncTemp, Rename, FailPrune, writerVars, followerVars
<1>2. NamedOnce'
  <2>1. content'["log"] = content["log"]
    <3>1. p # "log" /\ "log" \in Inode
      BY InodeAssumption DEF Inode
    <3> QED BY <1>1, <3>1 DEF Prune, ReadRecords, WriteTemp, SyncTemp, Rename, FailPrune, fileVars, TypeOK
  <2>2. path' = path \/ path' # None
    BY InodeAssumption DEF Prune, ReadRecords, WriteTemp, SyncTemp, Rename, FailPrune, fileVars
  <2> QED BY <1>1, <2>1, <2>2 DEF NamedOnce
<1>3. CASE ReadRecords(p)
  BY <1>2, <1>3, ReadFollow
<1>4. CASE Rename(p)
  BY <1>2, <1>4, RenameFollow
<1>5. CASE WriteTemp(p) \/ SyncTemp(p) \/ FailPrune(p)
  <2>1. UNCHANGED <<path, records>> /\ path # p
    BY <1>5, InodeAssumption DEF WriteTemp, SyncTemp, FailPrune, fileVars, KInv, PathOK
  <2>2. Log' = Log
    <3>1. path # None => content'[path] = content[path]
      BY <1>1, <1>5, <2>1 DEF WriteTemp, SyncTemp, FailPrune, fileVars, TypeOK
    <3> QED BY <2>1, <3>1 DEF Log
  <2>3. \A q \in Pruner : pruner'[q] \in {"read", "temp", "synced"} => Pending(q)
    BY <1>1, <1>5 DEF WriteTemp, SyncTemp, FailPrune, TypeOK, Pending
  <2>4. Quiet
    BY <1>1, <2>1, <2>2, <2>3 DEF Quiet
  <2> QED BY <1>2, <2>4, QuietKeeps
<1> QED BY <1>3, <1>4, <1>5 DEF Prune

\* Follow copies out what stands behind its offset, where nothing it has shown
\* stands in any file that is or may be the log.
LEMMA PollFollow ==
    ASSUME FInv, NEW o \in Follower, Poll(o)
    PROVE  ShownOK'
<1> USE DEF FInv
<1>1. /\ TypeOK /\ Log' = Log /\ UNCHANGED <<path, pruner, records, follower>>
      /\ follower[o] = "following" /\ Log \in Seq(Piece)
      /\ \A f \in Follower \ {o} : offset'[f] = offset[f] /\ shown'[f] = shown[f]
  BY LogType DEF KInv, Poll, fileVars, prunerVars, TypeOK, Log
<1> DEFINE k == offset[o]
           old == shown[o]
           more == SubSeq(Log, k + 1, Len(Log))
<1>2. /\ k \in Nat /\ old \in Seq(Piece) /\ Len(old) \in Nat /\ Len(Log) \in Nat
      /\ shown'[o] = old \o more /\ offset'[o] = IF k > Len(Log) THEN k ELSE Len(Log)
  <2>1. k \in Nat /\ old \in Seq(Piece) /\ Len(old) \in Nat /\ Len(Log) \in Nat
    BY <1>1 DEF TypeOK
  <2>2. shown'[o] = old \o more
    BY <1>1 DEF Poll, TypeOK
  <2>3. offset'[o] = IF k > Len(Log) THEN k ELSE Len(Log)
    BY <1>1 DEF Poll, TypeOK
  <2> QED BY <2>1, <2>2, <2>3
<1>3. /\ more \in Seq(Piece) /\ Len(more) = IF k + 1 <= Len(Log) THEN Len(Log) - k ELSE 0
      /\ \A n \in 1..Len(more) : more[n] = Log[k + n] /\ k + n \in 1..Len(Log)
  <2>1. CASE k + 1 <= Len(Log)
    <3>1. k + 1 \in 1..(Len(Log) + 1) /\ Len(Log) \in (k + 1) - 1..Len(Log)
      BY <1>2, <2>1
    <3>2. /\ more \in Seq(Piece) /\ Len(more) = IF k + 1 <= Len(Log) THEN Len(Log) - (k + 1) + 1 ELSE 0
          /\ \A n \in 1..(Len(Log) - (k + 1) + 1) : more[n] = Log[(k + 1) + n - 1]
      BY <1>1, <3>1, SubSeqProperties
    <3> HIDE DEF k, more
    <3>3. Len(more) = Len(Log) - k
      BY <1>2, <2>1, <3>2
    <3>4. ASSUME NEW n \in 1..Len(more) PROVE more[n] = Log[k + n] /\ k + n \in 1..Len(Log)
      <4>1. n \in 1..(Len(Log) - (k + 1) + 1) /\ (k + 1) + n - 1 = k + n /\ k + n \in 1..Len(Log)
        BY <1>2, <3>3
      <4> QED BY <3>2, <4>1
    <3> QED BY <2>1, <3>2, <3>3, <3>4
  <2>2. CASE ~(k + 1 <= Len(Log))
    BY <1>1, <1>2, <2>2, SubSeqProperties
  <2> QED BY <2>1, <2>2
<1> HIDE DEF k, old, more
<1>4. k <= offset'[o] /\ Len(Log) <= offset'[o] /\ offset'[o] \in Nat
  BY <1>2
<1>5. /\ Len(old \o more) = Len(old) + Len(more)
      /\ \A n \in 1..Len(old) : (old \o more)[n] = old[n]
      /\ \A n \in 1..Len(old \o more) : n \in 1..Len(old) \/
            \E j \in 1..Len(more) : n = Len(old) + j /\ (old \o more)[n] = more[j]
  <2>1. /\ Len(old \o more) = Len(old) + Len(more) /\ Len(more) \in Nat
        /\ \A n \in 1..Len(old) : (old \o more)[n] = old[n]
        /\ \A j \in 1..Len(more) : (old \o more)[Len(old) + j] = more[j]
    <3>1. old \in Seq(Piece) /\ more \in Seq(Piece)
      BY <1>2, <1>3
    <3> QED BY <3>1
  <2>2. ASSUME NEW n \in 1..Len(old \o more), n \notin 1..Len(old)
        PROVE  \E j \in 1..Len(more) : n = Len(old) + j /\ (old \o more)[n] = more[j]
    <3>1. n - Len(old) \in 1..Len(more) /\ n = Len(old) + (n - Len(old))
      BY <1>2, <2>1, <2>2
    <3>2. (old \o more)[Len(old) + (n - Len(old))] = more[n - Len(old)]
      BY <2>1, <3>1
    <3> QED BY <3>1, <3>2
  <2> QED BY <2>1, <2>2
<1>6. ASSUME NEW n \in 1..Len(old), NEW j \in 1..Len(more) PROVE old[n] # more[j]
  <2>1. AtMost(old[n], Log, k)
    BY DEF ShownOK, old, k
  <2>2. k + j \in 1..Len(Log) /\ more[j] = Log[k + j] /\ ~(k + j <= k)
    BY <1>2, <1>3
  <2> QED BY <2>1, <2>2 DEF AtMost
<1>7. ASSUME NEW i \in 1..Len(more), NEW j \in 1..Len(more), more[i] = more[j] PROVE i = j
  <2>1. k + i = k + j
    BY <1>3, <1>7 DEF LogOnce, SameAt
  <2> QED BY <1>2, <2>1
<1>8. SameAt(shown'[o], shown'[o])
  <2> SUFFICES ASSUME NEW m \in 1..Len(old \o more), NEW n \in 1..Len(old \o more),
                      (old \o more)[m] = (old \o more)[n]
               PROVE  m = n
    BY <1>2 DEF SameAt
  <2>1. CASE m \in 1..Len(old) /\ n \in 1..Len(old)
    <3>1. SameAt(old, old)
      BY DEF ShownOK, old
    <3> QED BY <1>5, <2>1, <3>1 DEF SameAt
  <2>2. CASE m \in 1..Len(old) /\ n \notin 1..Len(old)
    BY <1>5, <1>6, <2>2
  <2>3. CASE m \notin 1..Len(old) /\ n \in 1..Len(old)
    BY <1>5, <1>6, <2>3
  <2>4. CASE m \notin 1..Len(old) /\ n \notin 1..Len(old)
    <3>1. PICK i \in 1..Len(more) : m = Len(old) + i /\ (old \o more)[m] = more[i]
      BY <1>5, <2>4
    <3>2. PICK j \in 1..Len(more) : n = Len(old) + j /\ (old \o more)[n] = more[j]
      BY <1>5, <2>4
    <3>3. i = j
      BY <1>7, <3>1, <3>2
    <3> QED BY <3>1, <3>2, <3>3
  <2> QED BY <2>1, <2>2, <2>3, <2>4
<1>9. ASSUME NEW n \in 1..Len(old \o more)
      PROVE  /\ AtMost((old \o more)[n], Log, offset'[o])
             /\ \A p \in Pruner : Pending(p) => AtMost((old \o more)[n], Copy(p), offset'[o])
  <2> DEFINE x == (old \o more)[n]
  <2>1. CASE n \in 1..Len(old)
    <3>1. x = old[n] /\ AtMost(old[n], Log, k)
          /\ \A p \in Pruner : Pending(p) => AtMost(old[n], Copy(p), k)
      BY <1>5, <2>1 DEF ShownOK, old, k
    <3>2. \A f : Len(f) \in Nat /\ AtMost(x, f, k) => AtMost(x, f, offset'[o])
      BY <1>2, <1>4 DEF AtMost
    <3>3. \A p \in Pruner : Len(Copy(p)) \in Nat
      BY <1>1, KeptType, ContentAt DEF Copy
    <3> QED BY <1>2, <3>1, <3>2, <3>3
  <2>2. CASE n \notin 1..Len(old)
    <3>1. PICK j \in 1..Len(more) : x = more[j]
      BY <1>5, <2>2
    <3>2. k + j \in 1..Len(Log) /\ Log[k + j] = x
      BY <1>3, <3>1
    <3>3. AtMost(x, Log, offset'[o])
      BY <1>2, <1>4 DEF AtMost
    <3>4. ASSUME NEW p \in Pruner, Pending(p), NEW m \in 1..Len(Copy(p)), Copy(p)[m] = x
          PROVE  m <= offset'[o]
      <4>1. m <= k + j
        <5>1. CASE path \in Pruner
          <6>1. SameAt(Copy(p), Log)
            BY <3>4, <5>1 DEF CopiesAgree
          <6>2. m = k + j
            BY <3>2, <3>4, <6>1 DEF SameAt
          <6> QED BY <3>2, <6>2
        <5>2. CASE path \notin Pruner
          <6>1. NoLaterAt(Copy(p), Log)
            BY <3>4, <5>2 DEF CopiesAgree
          <6> QED BY <3>2, <3>4, <6>1 DEF NoLaterAt
        <5> QED BY <5>1, <5>2
      <4>2. Len(Copy(p)) \in Nat
        BY <1>1, KeptType, ContentAt DEF Copy
      <4> QED BY <1>2, <1>4, <3>2, <4>1, <4>2
    <3> QED BY <3>3, <3>4 DEF AtMost
  <2> QED BY <2>1, <2>2
<1>10. \A p \in Pruner : (Pending(p)' <=> Pending(p)) /\ Copy(p)' = Copy(p)
  BY <1>1 DEF Pending, Copy, Kept
<1>11. ASSUME NEW f \in Follower
       PROVE  /\ follower'[f] \in {"start", "listed"} => shown'[f] = <<>>
              /\ SameAt(shown'[f], shown'[f])
              /\ \A n \in 1..Len(shown'[f]) :
                    /\ AtMost(shown'[f][n], Log', offset'[f])
                    /\ \A p \in Pruner : Pending(p)' => AtMost(shown'[f][n], Copy(p)', offset'[f])
  <2>1. CASE f = o
    BY <1>1, <1>2, <1>8, <1>9, <1>10, <2>1
  <2>2. CASE f # o
    BY <1>1, <1>10, <2>2 DEF ShownOK
  <2> QED BY <2>1, <2>2
<1> QED BY <1>11 DEF ShownOK

LEMMA AuditFollow ==
    ASSUME FInv, KInv', NEW o \in Follower, Audit(o)
    PROVE  FInv'
<1> USE DEF FInv
<1>1. TypeOK /\ Log' = Log /\ UNCHANGED <<path, content, writer, pruner, records>>
  BY DEF KInv, Audit, List, Follow, Poll, PollFails, StopFollowing, fileVars, writerVars, prunerVars, Log
<1>2. NamedOnce'
  BY <1>1 DEF NamedOnce
<1>3. /\ \A p \in Pruner : Pending(p)' <=> Pending(p)
      /\ \A p \in Pruner : Copy(p)' = Copy(p)
  BY <1>1 DEF Pending, Copy, Kept
<1>4. CASE List(o) \/ PollFails(o) \/ StopFollowing(o)
  <2>1. /\ UNCHANGED <<offset, shown>>
        /\ \A f \in Follower : follower'[f] \in {"start", "listed"} => follower[f] \in {"start", "listed"}
    BY <1>1, <1>4 DEF List, PollFails, StopFollowing, TypeOK
  <2>2. Quiet
    BY <1>1, <2>1 DEF Quiet, Pending
  <2> QED BY <1>2, <2>2, QuietKeeps
<1>5. CASE Follow(o)
  <2>1. LogOnce' /\ CopiesAgree' /\ FreshOK'
    BY <1>1, <1>3, <1>5 DEF LogOnce, CopiesAgree, FreshOK, Follow
  <2>2. /\ shown' = shown /\ shown[o] = <<>> /\ follower'[o] = "following"
        /\ \A f \in Follower \ {o} : offset'[f] = offset[f] /\ follower'[f] = follower[f]
    BY <1>1, <1>5 DEF Follow, ShownOK, TypeOK
  <2>3. ShownOK'
    BY <1>1, <1>3, <2>2 DEF ShownOK
  <2> QED BY <1>2, <2>1, <2>3
<1>6. CASE Poll(o)
  <2>1. ShownOK'
    BY <1>6, PollFollow
  <2>2. LogOnce' /\ CopiesAgree'
    BY <1>1, <1>3 DEF LogOnce, CopiesAgree
  <2>3. FreshOK'
    <3>1. ASSUME NEW x, ~In(x, Log), ~In(x, shown[o]) PROVE ~In(x, shown'[o])
      <4> DEFINE more == SubSeq(Log, offset[o] + 1, Len(Log))
      <4>1. /\ shown'[o] = shown[o] \o more /\ shown[o] \in Seq(Piece) /\ Log \in Seq(Piece)
            /\ offset[o] \in Nat
        BY <1>1, <1>6, LogType DEF Poll, TypeOK
      <4>2. /\ more \in Seq(Piece) /\ \A n \in 1..Len(more) : \E k \in 1..Len(Log) : more[n] = Log[k]
        <5>1. \A i \in (offset[o] + 1)..Len(Log) : i \in 1..Len(Log) /\ Log[i] \in Range(Log)
          BY <4>1 DEF Range
        <5>2. more \in Seq(Range(Log))
          BY <4>1, <5>1, SubSeqProperties
        <5>3. \A y \in Range(Log) : y \in Piece /\ \E k \in 1..Len(Log) : y = Log[k]
          BY <4>1 DEF Range
        <5>4. \A n \in 1..Len(more) : more[n] \in Range(Log)
          BY <5>2
        <5>5. more \in Seq(Piece)
          BY <5>2, <5>3
        <5> QED BY <5>3, <5>4, <5>5
      <4> HIDE DEF more
      <4>3. ASSUME NEW n \in 1..Len(shown'[o]) PROVE shown'[o][n] # x
        <5>1. /\ Len(shown[o] \o more) = Len(shown[o]) + Len(more)
              /\ Len(shown[o]) \in Nat /\ Len(more) \in Nat
              /\ (shown[o] \o more)[n] = IF n <= Len(shown[o]) THEN shown[o][n]
                                         ELSE more[n - Len(shown[o])]
          <6>1. n \in 1..(Len(shown[o]) + Len(more))
            BY <4>1, <4>2, ConcatProperties
          <6> QED BY <4>1, <4>2, <6>1, ConcatProperties
        <5>2. CASE n <= Len(shown[o])
          <6>1. n \in 1..Len(shown[o])
            BY <5>1, <5>2
          <6> QED BY <3>1, <4>1, <5>1, <5>2, <6>1 DEF In
        <5>3. CASE ~(n <= Len(shown[o]))
          <6>1. n - Len(shown[o]) \in 1..Len(more)
            BY <4>1, <5>1, <5>3
          <6> QED BY <3>1, <4>1, <4>2, <5>1, <5>3, <6>1 DEF In
        <5> QED BY <5>2, <5>3, <5>1
      <4> QED BY <4>3 DEF In
    <3>2. \A f \in Follower \ {o} : shown'[f] = shown[f]
      BY <1>1, <1>6 DEF Poll, TypeOK
    <3> SUFFICES ASSUME NEW w \in Writer, NEW x \in {HeadOf(w), TailOf(w)},
                        \/ writer[w] \in {"start", "open"}
                        \/ writer[w] = "torn" /\ x = TailOf(w)
                 PROVE  /\ ~In(x, Log)
                        /\ \A p \in Pruner : Pending(p) => ~In(x, Copy(p))
                        /\ \A f \in Follower : ~In(x, shown'[f])
      BY <1>1, <1>3 DEF FreshOK
    <3>3. /\ ~In(x, Log)
          /\ \A p \in Pruner : Pending(p) => ~In(x, Copy(p))
          /\ \A f \in Follower : ~In(x, shown[f])
      BY DEF FreshOK
    <3> QED BY <3>1, <3>2, <3>3
  <2> QED BY <1>2, <2>1, <2>2, <2>3
<1> QED BY <1>4, <1>5, <1>6 DEF Audit

LEMMA LossFollow ==
    ASSUME FInv, KInv', PowerLoss
    PROVE  FInv'
<1> USE DEF FInv
<1>1. TypeOK /\ TypeOK' /\ UNCHANGED <<path, fd, records, listed, base, offset, shown>>
  BY DEF KInv, PowerLoss
<1>2. /\ \A w \in Writer : writer'[w] = IF Running(w) THEN "failed" ELSE writer[w]
      /\ \A p \in Pruner : ~Pending(p)'
      /\ \A o \in Follower : follower'[o] \notin {"listed", "following"} /\
                             (follower'[o] = "start" => follower[o] = "start")
  BY DEF PowerLoss, Pending
<1>3. /\ Log' \in Seq(Piece) /\ Log \in Seq(Piece) /\ Len(Log') <= Len(Log)
      /\ \A n \in 1..Len(Log') : n \in 1..Len(Log) /\ Log'[n] = Log[n]
  <2>1. CASE path = None
    BY <1>1, <2>1 DEF Log
  <2>2. CASE path # None
    <3>1. path \in Inode /\ Log = content[path] /\ Log' = content'[path]
      BY <1>1, <2>2 DEF TypeOK, Log
    <3>2. /\ Len(content'[path]) <= Len(content[path]) /\ content'[path] \in Seq(Piece)
          /\ \A n \in 1..Len(content'[path]) : content'[path][n] = content[path][n]
      BY <1>1, <3>1, Survivors
    <3>3. content[path] \in Seq(Piece)
      BY <1>1, <3>1 DEF TypeOK
    <3>4. Len(content'[path]) \in Nat /\ Len(content[path]) \in Nat
      BY <3>2, <3>3
    <3>5. \A n \in 1..Len(content'[path]) : n \in 1..Len(content[path])
      BY <3>2, <3>4
    <3> QED BY <3>1, <3>2, <3>3, <3>5
  <2> QED BY <2>1, <2>2
<1>4. NamedOnce'
  <2> SUFFICES ASSUME path = None
               PROVE  content'["log"] = <<>> /\ \A w \in Writer : writer'[w] \in {"start", "failed"}
    BY <1>1 DEF NamedOnce
  <2>1. "log" \in Inode /\ content["log"] = <<>>
    BY DEF NamedOnce, Inode
  <2>2. content'["log"] \in Seq(Piece) /\ Len(content'["log"]) <= Len(content["log"])
    BY <1>1, <2>1, Survivors
  <2>3. Len(content'["log"]) = 0
    BY <2>1, <2>2
  <2> QED BY <1>2, <2>2, <2>3 DEF NamedOnce, Running
<1>5. LogOnce'
  BY <1>1, <1>3 DEF LogOnce, SameAt
<1>6. CopiesAgree'
  BY <1>2 DEF CopiesAgree
<1>7. FreshOK'
  <2>1. \A x : ~In(x, Log) => ~In(x, Log')
    BY <1>3 DEF In
  <2> QED BY <1>1, <1>2, <2>1 DEF FreshOK, Running
<1>8. ShownOK'
  <2>1. \A x, k : AtMost(x, Log, k) => AtMost(x, Log', k)
    BY <1>3 DEF AtMost
  <2> QED BY <1>1, <1>2, <2>1 DEF ShownOK
<1> QED BY <1>4, <1>5, <1>6, <1>7, <1>8

LEMMA StepFollow ==
    ASSUME FInv, [Next]_vars
    PROVE  FInv'
<1>1. KInv'
  BY StepKept DEF FInv
<1>2. CASE UNCHANGED vars
  <2>1. Quiet
    BY <1>2 DEF vars, fileVars, writerVars, prunerVars, followerVars, Quiet, Log, Pending
  <2>2. NamedOnce'
    BY <1>2 DEF vars, fileVars, writerVars, NamedOnce, FInv
  <2> QED BY <1>1, <2>1, <2>2, QuietKeeps DEF FInv
<1> QED BY <1>1, <1>2, WriteFollow, PruneFollow, AuditFollow, LossFollow DEF Next

\* Nor has a copy that failed written any of it since the last that did not.
CutOK == \A o \in Follower : Range(shown[o]) \cap cut[o] = {}

LEMMA StepCut ==
    ASSUME FInv, CutOK, [Next]_vars
    PROVE  CutOK'
<1>1. TypeOK /\ ShownOK
  BY DEF FInv, KInv
<1>2. CASE UNCHANGED <<shown, cut>>
  BY <1>2 DEF CutOK
<1>3. ASSUME NEW o \in Follower, Poll(o) PROVE CutOK'
  <2>1. cut'[o] = {} /\ \A f \in Follower \ {o} : shown'[f] = shown[f] /\ cut'[f] = cut[f]
    BY <1>1, <1>3 DEF Poll, TypeOK
  <2> QED BY <2>1 DEF CutOK
<1>4. ASSUME NEW o \in Follower, PollFails(o) PROVE CutOK'
  <2>1. Log \in Seq(Piece) /\ offset[o] \in Nat /\ shown[o] \in Seq(Piece)
    BY <1>1, LogType DEF TypeOK
  <2>2. PICK n \in offset[o]..Len(Log) :
           cut' = [cut EXCEPT ![o] = @ \cup Range(SubSeq(Log, offset[o] + 1, n))]
    BY <1>4 DEF PollFails
  <2>3. /\ shown' = shown /\ \A f \in Follower \ {o} : cut'[f] = cut[f]
        /\ cut'[o] = cut[o] \cup Range(SubSeq(Log, offset[o] + 1, n))
    BY <1>1, <1>4, <2>2 DEF PollFails, TypeOK
  <2>4. ASSUME NEW x \in Range(SubSeq(Log, offset[o] + 1, n)), x \in Range(shown[o]) PROVE FALSE
    <3>1. PICK i \in (offset[o] + 1)..n : i \in 1..Len(Log) /\ x = Log[i]
      <4> DEFINE log == Log
                 k == offset[o]
      <4>1. log \in Seq(Piece) /\ k \in Nat /\ n \in k..Len(log) /\ x \in Range(SubSeq(log, k + 1, n))
        BY <2>1
      <4> HIDE DEF log, k
      <4>2. \E i \in (k + 1)..n : i \in 1..Len(log) /\ x = log[i]
        BY <4>1, PartOf
      <4> QED BY <4>2 DEF log, k
    <3>2. PICK j \in 1..Len(shown[o]) : x = shown[o][j]
      BY <2>1, <2>4 DEF Range
    <3>3. AtMost(shown[o][j], Log, offset[o])
      BY <1>1, <3>2 DEF ShownOK
    <3>4. i <= offset[o]
      BY <3>1, <3>2, <3>3 DEF AtMost
    <3>5. i \in Int /\ i >= offset[o] + 1
      BY <2>1, <3>1
    <3> QED BY <2>1, <3>4, <3>5
  <2> QED BY <2>3, <2>4 DEF CutOK
<1>5. CASE UNCHANGED vars
  BY <1>2, <1>5 DEF vars, followerVars
<1>6. ASSUME NEW w \in Writer, Write(w) PROVE UNCHANGED <<shown, cut>>
  BY <1>6 DEF Write, Open, WriteAll, WriteHead, WriteTail, SyncLog, FailLog, followerVars
<1>7. ASSUME NEW p \in Pruner, Prune(p) PROVE UNCHANGED <<shown, cut>>
  BY <1>7 DEF Prune, ReadRecords, WriteTemp, SyncTemp, Rename, FailPrune, followerVars
<1>8. ASSUME NEW o \in Follower, List(o) \/ Follow(o) \/ StopFollowing(o)
      PROVE  UNCHANGED <<shown, cut>>
  BY <1>8 DEF List, Follow, StopFollowing
<1>9. CASE PowerLoss
  BY <1>2, <1>9 DEF PowerLoss
<1> QED BY <1>2, <1>3, <1>4, <1>5, <1>6, <1>7, <1>8, <1>9 DEF Next, Audit

\* However the log shrinks and grows under it, what a copy of Follow that did not
\* fail has written is not written again, neither by another nor by a part of one
\* that fails. (Follow's offset against Prune's rename and io.Copy's error)
THEOREM AuditLogFollowNeverRepeats == Spec => []FollowNeverRepeats
<1>1. Init => FInv /\ CutOK
  BY InitFollow DEF Init, CutOK
<1>2. FInv /\ CutOK /\ [Next]_vars => FInv' /\ CutOK'
  BY StepFollow, StepCut
<1>3. FInv /\ CutOK => FollowNeverRepeats
  <2> SUFFICES ASSUME FInv, NEW o \in Follower PROVE IsInjective(shown[o])
    BY DEF FollowNeverRepeats, CutOK
  <2>1. SameAt(shown[o], shown[o]) /\ shown[o] \in Seq(Piece)
    BY DEF FInv, ShownOK, KInv, TypeOK
  <2> QED BY <2>1 DEF SameAt, IsInjective
<1> QED BY <1>1, <1>2, <1>3, PTL DEF Spec
===============================================================================
