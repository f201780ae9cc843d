------------------------- MODULE QueryRuntimeProofs -------------------------
(***************************************************************************)
(* Theorems about QueryRuntime, for every number of calls, files and       *)
(* writes, and every size of the cache.                                    *)
(***************************************************************************)
EXTENDS QueryRuntime, FiniteSetTheorems, SequenceTheorems, TLAPS

(***************************************************************************)
(* The inductive invariant.  CacheIsTrue speaks of the state that a file   *)
(* is in NOW; what makes it last is that an identity (revision, generation *)
(* and baseline) which a file has left is never published again, and that  *)
(* what is recorded under it was read while it was published.              *)
(***************************************************************************)
\* No number of a published state is ahead of the writes; a database that
\* exists has a revision, and the published one exists.
DiskInv ==
    /\ disk[pointer].status # "absent"
    /\ \A f \in Files :
           /\ disk[f].gen <= writes /\ disk[f].rev <= writes
           /\ disk[f].base <= writes /\ disk[f].rows <= writes
           /\ disk[f].status # "absent" => disk[f].rev # 0

\* Rows R were read from the file f under the identity k: the file has left k
\* for good, or is in it and holds no other rows when it is ready.
Recorded(f, k, R) ==
    /\ k.rev # 0 /\ k.rev <= writes
    /\ k.rev = disk[f].rev =>
           /\ k.gen <= disk[f].gen /\ k.base <= disk[f].base
           /\ k.gen = disk[f].gen /\ k.base = disk[f].base /\ disk[f].status = "ready" =>
                  R \subseteq {disk[f].rows}

EntriesInv ==
    \A e \in Range(lru) : e.reads # {} /\ Recorded(e.key.file, e.key, e.reads)

\* A reading call has seen what its file holds, and only its file.
SeenInv(c) ==
    IF call[c].pc # "idle" /\ Reads(c)
    THEN /\ <<call[c].file, disk[call[c].file]>> \in seen[c]
         /\ \A s \in seen[c] : s[1] = call[c].file
    ELSE seen[c] = {}

\* What a call has read is recorded under the state it started in; before it
\* reads, it has read nothing; what it will show has been seen.
ReadInv(c) ==
    /\ call[c].pc = "bound" => call[c].reads = {}
    /\ call[c].pc \in {"lookup", "hit"} => Reads(c) /\ call[c].start.status = "ready"
    /\ call[c].pc \notin {"idle", "bound"} /\ Reads(c) /\ call[c].start.status = "ready" =>
           Recorded(call[c].file, call[c].start, call[c].reads)
    /\ call[c].pc = "hit" => call[c].reads # {}
    /\ call[c].pc = "encode" /\ Reads(c) =>
           /\ call[c].reads # {}
           /\ Certified(c) => Shown(c, call[c].after) \in seen[c]

\* Only a writing tool commits, and only a reading one runs twice.
CommitInv(c) ==
    /\ call[c].committed => ~Reads(c)
    /\ call[c].runs = 1 => Reads(c)
    /\ call[c].pc = "bound" => ~call[c].committed /\ call[c].runs = 0

AnswerInv == answer.committed => answer.reply # "retry"

IInv ==
    /\ TypeOK
    /\ DiskInv
    /\ EntriesInv
    /\ BytesExact
    /\ \A c \in Calls : SeenInv(c) /\ ReadInv(c) /\ CommitInv(c)
    /\ AnswerInv

-----------------------------------------------------------------------------
(***************************************************************************)
(* The bytes of a set of entries, and the lists that the cache's           *)
(* operations make.                                                        *)
(***************************************************************************)
Entries == [key : Keys, reads : SUBSET (0..MaxWrites), size : 0..MaxEntry]

UniqueKeys(s) == \A i, j \in DOMAIN s : s[i].key = s[j].key => i = j

\* One element for every byte of every entry; SizeSum counts them.
Cells(E) == UNION {{e} \X (1..e.size) : e \in E}

LEMMA UnionOfDisjoint ==
  ASSUME NEW S, NEW T, IsFiniteSet(S), IsFiniteSet(T), S \cap T = {}
  PROVE  Cardinality(S \cup T) = Cardinality(S) + Cardinality(T)
<1>1. Cardinality(S) \in Nat /\ Cardinality(T) \in Nat
  BY FS_CardinalityType
<1>2. Cardinality(S \cap T) = 0
  <2>1. Cardinality({}) = 0
    BY FS_EmptySet
  <2> QED  BY <2>1, Zenon
<1>3. Cardinality(S \cup T) = Cardinality(S) + Cardinality(T) - Cardinality(S \cap T)
  BY FS_Union
<1> QED  BY <1>1, <1>2, <1>3

LEMMA CellsOfOne ==
  ASSUME NEW e, NEW n \in Nat
  PROVE  IsFiniteSet({e} \X (1..n)) /\ Cardinality({e} \X (1..n)) = n
<1> DEFINE one == {e}
           bytes == 1..n
<1>1. IsFiniteSet(one) /\ Cardinality(one) = 1
  BY FS_Singleton
<1>2. IsFiniteSet(bytes) /\ Cardinality(bytes) = n
  BY FS_Interval
<1> HIDE DEF one, bytes
<1>3. IsFiniteSet(one \X bytes) /\ Cardinality(one \X bytes) = 1 * n
  BY <1>1, <1>2, FS_Product
<1> QED  BY <1>3 DEF one, bytes

LEMMA ImageFinite ==
  ASSUME NEW f, IsFiniteSet(DOMAIN f), f = [x \in DOMAIN f |-> f[x]]
  PROVE  IsFiniteSet(Range(f))
<1>1. f \in Surjection(DOMAIN f, Range(f))
  BY DEF Surjection, Range
<1> QED  BY <1>1, FS_Surjection

LEMMA CellsFinite ==
  ASSUME NEW E, IsFiniteSet(E), \A e \in E : e.size \in Nat
  PROVE  IsFiniteSet(Cells(E))
<1> DEFINE cells == [e \in E |-> {e} \X (1..e.size)]
           T == {{e} \X (1..e.size) : e \in E}
<1>1. DOMAIN cells = E /\ cells = [e \in DOMAIN cells |-> cells[e]] /\ Range(cells) = T
  BY DEF Range
<1>2. IsFiniteSet(T)
  <2> HIDE DEF cells, T
  <2> QED  BY <1>1, ImageFinite
<1>3. \A t \in T : IsFiniteSet(t)
  <2> SUFFICES ASSUME NEW e \in E
               PROVE  IsFiniteSet({e} \X (1..e.size))
    OBVIOUS
  <2> DEFINE n == e.size
  <2>1. n \in Nat
    OBVIOUS
  <2> HIDE DEF n
  <2>2. IsFiniteSet({e} \X (1..n))
    BY <2>1, CellsOfOne
  <2> QED  BY <2>2 DEF n
<1>4. IsFiniteSet(UNION T)
  <2> HIDE DEF T
  <2> QED  BY <1>2, <1>3, FS_UNION
<1> QED  BY <1>4 DEF Cells

LEMMA SizeSumIsNat ==
  ASSUME NEW E, IsFiniteSet(E), \A e \in E : e.size \in Nat
  PROVE  SizeSum(E) \in Nat
<1> QED  BY CellsFinite, FS_CardinalityType DEF SizeSum, Cells

LEMMA SizeSumSplits ==
  ASSUME NEW E, NEW F, IsFiniteSet(E), IsFiniteSet(F), E \cap F = {},
         \A e \in E \cup F : e.size \in Nat
  PROVE  SizeSum(E \cup F) = SizeSum(E) + SizeSum(F)
<1>1. IsFiniteSet(Cells(E)) /\ IsFiniteSet(Cells(F))
  BY CellsFinite
<1>2. Cells(E \cup F) = Cells(E) \cup Cells(F)
  BY DEF Cells
<1>3. Cells(E) \cap Cells(F) = {}
  BY DEF Cells
<1>4. Cardinality(Cells(E) \cup Cells(F)) = Cardinality(Cells(E)) + Cardinality(Cells(F))
  BY <1>1, <1>3, UnionOfDisjoint
<1> QED  BY <1>2, <1>4 DEF SizeSum, Cells

LEMMA SizeSumOfOne ==
  ASSUME NEW e, e.size \in Nat
  PROVE  SizeSum({e}) = e.size
<1> DEFINE bytes(x) == {x} \X (1..x.size)
<1>1. Cardinality(bytes(e)) = e.size
  BY CellsOfOne
<1>2. UNION {bytes(x) : x \in {e}} = bytes(e)
  <2> HIDE DEF bytes
  <2> QED  OBVIOUS
<1>3. SizeSum({e}) = Cardinality(UNION {bytes(x) : x \in {e}})
  BY DEF SizeSum
<1> QED  BY <1>1, <1>2, <1>3

LEMMA SizeSumOfNone == SizeSum({}) = 0
<1>1. UNION {{x} \X (1..x.size) : x \in {}} = {}
  OBVIOUS
<1> QED  BY <1>1, FS_EmptySet DEF SizeSum

LEMMA RangeFinite ==
  ASSUME NEW S, NEW s \in Seq(S)
  PROVE  IsFiniteSet(Range(s)) /\ Range(s) \subseteq S
<1>1. DOMAIN s = 1..Len(s) /\ Len(s) \in Nat /\ s \in [1..Len(s) -> S]
  BY LenProperties
<1>2. IsFiniteSet(DOMAIN s)
  BY <1>1, FS_Interval
<1> QED  BY <1>1, <1>2, ImageFinite DEF Range

LEMMA EntriesSize ==
  ASSUME NEW s \in Seq(Entries)
  PROVE  /\ IsFiniteSet(Range(s))
         /\ \A e \in Range(s) : e \in Entries /\ e.size \in Nat
         /\ SizeSum(Range(s)) \in Nat
<1>1. IsFiniteSet(Range(s)) /\ Range(s) \subseteq Entries
  BY RangeFinite
<1>2. \A e \in Range(s) : e \in Entries /\ e.size \in Nat
  BY <1>1, RuntimeAssumption DEF Entries
<1> QED  BY <1>1, <1>2, SizeSumIsNat

-----------------------------------------------------------------------------
\* The first k entries of a list without repeated keys: what is taken away
\* from the counter is what is taken away from the list.
LEMMA PrefixOfEntries ==
  ASSUME NEW s \in Seq(Entries), UniqueKeys(s), NEW k \in 0..Len(s)
  PROVE  LET p == SubSeq(s, 1, k)
         IN  /\ p \in Seq(Entries) /\ UniqueKeys(p)
             /\ Range(p) \subseteq Range(s)
             /\ SizeSum(Range(p)) = Left(s, SizeSum(Range(s)), k)
<1> DEFINE p == SubSeq(s, 1, k)
           q == SubSeq(s, k + 1, Len(s))
<1>1. DOMAIN s = 1..Len(s) /\ Len(s) \in Nat /\ \A i \in 1..Len(s) : s[i] \in Entries
  BY LenProperties
<1>0. k \in Nat /\ Len(s) \in Nat /\ k <= Len(s)
  BY LenProperties
<1>2. p \in Seq(Entries) /\ Len(p) = k /\ \A i \in 1..k : p[i] = s[i]
  <2>1. \A i \in 1..k : s[i] \in Entries
    BY <1>1
  <2> QED  BY <2>1, SubSeqProperties
<1>3. q \in Seq(Entries) /\ Len(q) = Len(s) - k /\ \A i \in 1..(Len(s) - k) : q[i] = s[k + i]
  <2>1. \A i \in (k + 1)..Len(s) : s[i] \in Entries
    BY <1>1
  <2>2. /\ q \in Seq(Entries)
        /\ Len(q) = IF k + 1 <= Len(s) THEN Len(s) - (k + 1) + 1 ELSE 0
        /\ \A i \in 1..(Len(s) - (k + 1) + 1) : q[i] = s[(k + 1) + i - 1]
    BY <1>1, <2>1, SubSeqProperties
  <2> HIDE DEF q
  <2>3. Len(q) = Len(s) - k
    BY <1>0, <2>2
  <2>4. ASSUME NEW i \in 1..(Len(s) - k)
        PROVE  q[i] = s[k + i]
    <3>1. i \in 1..(Len(s) - (k + 1) + 1) /\ (k + 1) + i - 1 = k + i
      BY <1>1
    <3> QED  BY <2>2, <3>1
  <2> QED  BY <2>2, <2>3, <2>4
<1> HIDE DEF p, q
<1>4. DOMAIN p = 1..k /\ DOMAIN q = 1..(Len(s) - k)
  BY <1>2, <1>3, LenProperties
<1>5. Range(p) = {s[i] : i \in 1..k}
  BY <1>2, <1>4 DEF Range
<1>6. Range(q) = {s[i] : i \in (k + 1)..Len(s)}
  <2>1. ASSUME NEW x \in Range(q)
        PROVE  x \in {s[i] : i \in (k + 1)..Len(s)}
    <3>1. PICK i \in 1..(Len(s) - k) : x = q[i]
      BY <1>4 DEF Range
    <3>2. x = s[k + i] /\ k + i \in (k + 1)..Len(s)
      BY <1>1, <1>3, <3>1
    <3> QED  BY <3>2
  <2>2. ASSUME NEW i \in (k + 1)..Len(s)
        PROVE  s[i] \in Range(q)
    <3>1. i - k \in 1..(Len(s) - k) /\ k + (i - k) = i
      BY <1>1
    <3>2. q[i - k] = s[i]
      BY <1>3, <3>1
    <3> QED  BY <1>4, <3>1, <3>2 DEF Range
  <2> QED  BY <2>1, <2>2
<1>7. Range(s) = Range(p) \cup Range(q)
  <2>1. 1..Len(s) = (1..k) \cup ((k + 1)..Len(s))
    BY <1>1
  <2>2. Range(s) = {s[i] : i \in 1..Len(s)}
    BY <1>1 DEF Range
  <2> QED  BY <1>5, <1>6, <2>1, <2>2
<1>8. Range(p) \cap Range(q) = {}
  <2> SUFFICES ASSUME NEW i \in 1..k, NEW j \in (k + 1)..Len(s), s[i] = s[j]
               PROVE  FALSE
    BY <1>5, <1>6
  <2>1. i \in DOMAIN s /\ j \in DOMAIN s /\ i # j
    BY <1>1
  <2> QED  BY <2>1 DEF UniqueKeys
<1>9. SizeSum(Range(s)) = SizeSum(Range(p)) + SizeSum(Range(q))
  BY <1>2, <1>3, <1>7, <1>8, EntriesSize, SizeSumSplits
<1>10. SizeSum(Range(p)) = Left(s, SizeSum(Range(s)), k)
  <2>1. SizeSum(Range(p)) \in Nat /\ SizeSum(Range(q)) \in Nat
    BY <1>2, <1>3, EntriesSize
  <2>2. Left(s, SizeSum(Range(s)), k) = SizeSum(Range(s)) - SizeSum(Range(q))
    BY DEF Left, q
  <2> QED  BY <1>9, <2>1, <2>2
<1>11. UniqueKeys(p)
  <2> SUFFICES ASSUME NEW i \in 1..k, NEW j \in 1..k, p[i].key = p[j].key
               PROVE  i = j
    BY <1>4 DEF UniqueKeys
  <2>1. s[i].key = s[j].key /\ i \in DOMAIN s /\ j \in DOMAIN s
    BY <1>1, <1>2
  <2> QED  BY <2>1 DEF UniqueKeys
<1> QED  BY <1>2, <1>7, <1>10, <1>11 DEF p

\* The entries at the positions K and at the others, and the list of the former
\* in the order f.
PickedSet(s, K) == {s[i] : i \in K}
OtherSet(s, K) == {s[i] : i \in (1..Len(s)) \ K}
PickedList(s, n, f) == [j \in 1..n |-> s[f[j]]]

LEMMA SelectedEntries ==
  ASSUME NEW s \in Seq(Entries), UniqueKeys(s),
         NEW K \in SUBSET (1..Len(s)), NEW n \in Nat, NEW f \in Bijection(1..n, K)
  PROVE  LET t == PickedList(s, n, f)
             rest == OtherSet(s, K)
         IN  /\ t \in Seq(Entries) /\ UniqueKeys(t)
             /\ Range(t) = PickedSet(s, K)
             /\ \A e \in Range(t), r \in rest : e.key # r.key
             /\ IsFiniteSet(rest) /\ SizeSum(rest) \in Nat
             /\ SizeSum(Range(t)) = SizeSum(Range(s)) - SizeSum(rest)
<1> DEFINE t == [j \in 1..n |-> s[f[j]]]
           rest == {s[i] : i \in (1..Len(s)) \ K}
<1>1. DOMAIN s = 1..Len(s) /\ Len(s) \in Nat /\ \A i \in 1..Len(s) : s[i] \in Entries
  BY LenProperties
<1>2. /\ f \in [1..n -> K]
      /\ \A a, b \in 1..n : f[a] = f[b] => a = b
      /\ \A i \in K : \E j \in 1..n : f[j] = i
  BY DEF Bijection, Injection, Surjection, IsInjective
<1>3. t \in [1..n -> Entries]
  BY <1>1, <1>2
<1>4. t \in Seq(Entries) /\ DOMAIN t = 1..n
  <2>1. Seq(Entries) = UNION {[1..m -> Entries] : m \in Nat}
    BY SeqDef
  <2> QED  BY <1>3, <2>1
<1>5. Range(t) = {s[i] : i \in K}
  <2>1. ASSUME NEW j \in 1..n
        PROVE  t[j] \in {s[i] : i \in K}
    BY <1>2
  <2>2. ASSUME NEW i \in K
        PROVE  \E j \in 1..n : t[j] = s[i]
    BY <1>2
  <2>3. Range(t) = {t[j] : j \in 1..n}
    BY <1>4, Zenon DEF Range
  <2>4. ASSUME NEW i \in K
        PROVE  s[i] \in Range(t)
    BY <2>2, <2>3
  <2>5. ASSUME NEW x \in Range(t)
        PROVE  x \in {s[i] : i \in K}
    BY <2>1, <2>3
  <2> HIDE DEF rest
  <2> QED  BY <2>4, <2>5
<1>6. UniqueKeys(t)
  <2> SUFFICES ASSUME NEW a \in 1..n, NEW b \in 1..n, t[a].key = t[b].key
               PROVE  a = b
    BY <1>4 DEF UniqueKeys
  <2>1. f[a] \in DOMAIN s /\ f[b] \in DOMAIN s
    BY <1>1, <1>2
  <2>2. s[f[a]].key = s[f[b]].key
    OBVIOUS
  <2>3. f[a] = f[b]
    BY <2>1, <2>2 DEF UniqueKeys
  <2> QED  BY <1>2, <2>3
<1>7. \A e \in Range(t), r \in rest : e.key # r.key
  <2> SUFFICES ASSUME NEW i \in K, NEW j \in (1..Len(s)) \ K, s[i].key = s[j].key
               PROVE  FALSE
    BY <1>5
  <2>1. i \in DOMAIN s /\ j \in DOMAIN s /\ i # j
    BY <1>1
  <2> QED  BY <2>1 DEF UniqueKeys
<1>8. Range(s) = Range(t) \cup rest
  BY <1>1, <1>5 DEF Range
<1>9. Range(t) \cap rest = {}
  BY <1>7
<1>10. /\ IsFiniteSet(Range(s)) /\ IsFiniteSet(Range(t))
       /\ \A e \in Range(s) : e.size \in Nat
       /\ SizeSum(Range(t)) \in Nat
  BY <1>4, EntriesSize
<1>11. IsFiniteSet(rest) /\ SizeSum(rest) \in Nat
  <2>1. rest \in SUBSET Range(s)
    BY <1>8
  <2> HIDE DEF rest
  <2>2. IsFiniteSet(rest)
    BY <1>10, <2>1, FS_Subset
  <2> QED  BY <1>10, <2>1, <2>2, SizeSumIsNat
<1>12. SizeSum(Range(t)) = SizeSum(Range(s)) - SizeSum(rest)
  <2> HIDE DEF rest
  <2>1. SizeSum(Range(s)) = SizeSum(Range(t)) + SizeSum(rest)
    BY <1>8, <1>9, <1>10, <1>11, SizeSumSplits
  <2> QED  BY <1>10, <1>11, <2>1
<1> QED  BY <1>4, <1>5, <1>6, <1>7, <1>11, <1>12 DEF PickedList, PickedSet, OtherSet

\* RemoveAt takes one entry away.
LEMMA RemovedEntry ==
  ASSUME NEW s \in Seq(Entries), UniqueKeys(s), NEW i \in 1..Len(s)
  PROVE  LET t == RemoveAt(s, i)
         IN  /\ t \in Seq(Entries) /\ UniqueKeys(t)
             /\ Range(s) = Range(t) \cup {s[i]}
             /\ \A e \in Range(t) : e.key # s[i].key
             /\ SizeSum(Range(t)) = SizeSum(Range(s)) - s[i].size
<1> DEFINE t == RemoveAt(s, i)
           n == Len(s) - 1
           f == [j \in 1..n |-> IF j < i THEN j ELSE j + 1]
           K == (1..Len(s)) \ {i}
<1>1. DOMAIN s = 1..Len(s) /\ Len(s) \in Nat /\ i \in Nat /\ i >= 1 /\ i <= Len(s)
  BY LenProperties
<1>0. Len(s) \in Nat /\ i \in Nat /\ i >= 1 /\ i <= Len(s)
  BY <1>1
<1>2. n \in Nat
  BY <1>1
<1>3. f \in Bijection(1..n, K)
  <2>1. f \in [1..n -> K]
    BY <1>1
  <2>2. \A a, b \in 1..n : f[a] = f[b] => a = b
    BY <1>1
  <2>3. ASSUME NEW m \in K
        PROVE  \E j \in 1..n : f[j] = m
    <3>1. CASE m < i
      <4>1. m \in 1..n /\ f[m] = m
        BY <1>1, <3>1
      <4> QED  BY <4>1
    <3>2. CASE m > i
      <4>1. m - 1 \in 1..n /\ f[m - 1] = m
        BY <1>1, <3>2
      <4> QED  BY <4>1
    <3> QED  BY <1>1, <3>1, <3>2
  <2> HIDE DEF f, n, K
  <2> QED  BY <2>1, <2>2, <2>3 DEF Bijection, Injection, Surjection, IsInjective
<1>4. t = PickedList(s, n, f)
  <2> DEFINE p == SubSeq(s, 1, i - 1)
             q == SubSeq(s, i + 1, Len(s))
  <2>1. \A j \in 1..Len(s) : s[j] \in Entries
    BY LenProperties
  <2>2. p \in Seq(Entries) /\ Len(p) = i - 1 /\ \A j \in 1..(i - 1) : p[j] = s[j]
    <3>1. \A j \in 1..(i - 1) : s[j] \in Entries
      BY <1>1, <2>1
    <3>2. /\ p \in Seq(Entries)
          /\ Len(p) = IF 1 <= i - 1 THEN (i - 1) - 1 + 1 ELSE 0
          /\ \A j \in 1..((i - 1) - 1 + 1) : p[j] = s[1 + j - 1]
      BY <1>1, <3>1, SubSeqProperties
    <3> HIDE DEF p
    <3>3. Len(p) = i - 1
      BY <1>1, <3>2
    <3>4. ASSUME NEW j \in 1..(i - 1)
          PROVE  p[j] = s[j]
      <4>1. j \in 1..((i - 1) - 1 + 1) /\ 1 + j - 1 = j
        BY <1>1
      <4> QED  BY <3>2, <4>1
    <3> QED  BY <3>2, <3>3, <3>4
  <2>3. q \in Seq(Entries) /\ Len(q) = Len(s) - i /\ \A j \in 1..(Len(s) - i) : q[j] = s[i + j]
    <3>1. \A j \in (i + 1)..Len(s) : s[j] \in Entries
      BY <1>1, <2>1
    <3>2. /\ q \in Seq(Entries)
          /\ Len(q) = IF i + 1 <= Len(s) THEN Len(s) - (i + 1) + 1 ELSE 0
          /\ \A j \in 1..(Len(s) - (i + 1) + 1) : q[j] = s[(i + 1) + j - 1]
      BY <1>1, <3>1, SubSeqProperties
    <3> HIDE DEF q
    <3>3. Len(q) = Len(s) - i
      BY <1>0, <3>2
    <3>4. ASSUME NEW j \in 1..(Len(s) - i)
          PROVE  q[j] = s[i + j]
      <4>1. j \in 1..(Len(s) - (i + 1) + 1) /\ (i + 1) + j - 1 = i + j
        BY <1>1
      <4> QED  BY <3>2, <4>1
    <3> QED  BY <3>2, <3>3, <3>4
  <2>4. t = p \o q
    BY DEF RemoveAt
  <2> HIDE DEF p, q, t
  <2>5. /\ t \in Seq(Entries) /\ Len(t) = n
        /\ \A j \in 1..n : t[j] = IF j <= i - 1 THEN p[j] ELSE q[j - (i - 1)]
    <3>1. /\ t \in Seq(Entries) /\ Len(t) = Len(p) + Len(q)
          /\ \A j \in 1..Len(p) + Len(q) :
                t[j] = IF j <= Len(p) THEN p[j] ELSE q[j - Len(p)]
      BY <2>2, <2>3, <2>4, ConcatProperties
    <3>2. Len(p) + Len(q) = n
      BY <1>1, <2>2, <2>3
    <3> QED  BY <2>2, <3>1, <3>2
  <2>6. ASSUME NEW j \in 1..n
        PROVE  t[j] = s[f[j]]
    <3>1. CASE j < i
      BY <1>1, <2>2, <2>5, <3>1
    <3>2. CASE j >= i
      <4>1. j - (i - 1) \in 1..(Len(s) - i) /\ i + (j - (i - 1)) = j + 1 /\ ~(j <= i - 1)
        BY <1>1, <3>2
      <4>2. t[j] = q[j - (i - 1)]
        BY <2>5, <4>1
      <4>3. f[j] = j + 1
        BY <1>1, <3>2
      <4> QED  BY <2>3, <4>1, <4>2, <4>3
    <3> QED  BY <1>1, <3>1, <3>2
  <2>7. t = [j \in 1..n |-> t[j]]
    BY <2>5, LenProperties
  <2> QED  BY <2>6, <2>7 DEF PickedList
<1> DEFINE rest == OtherSet(s, K)
<1>5. rest = {s[i]}
  <2>1. (1..Len(s)) \ K = {i}
    BY <1>1
  <2> HIDE DEF K
  <2> QED  BY <2>1 DEF OtherSet
<1>6. PickedSet(s, K) \cup {s[i]} = Range(s)
  BY <1>1 DEF Range, PickedSet
<1>7. SizeSum({s[i]}) = s[i].size
  <2>1. s[i].size \in Nat
    BY <1>1, EntriesSize DEF Range
  <2> QED  BY <2>1, SizeSumOfOne
<1>8. K \in SUBSET (1..Len(s))
  OBVIOUS
<1> HIDE DEF t, n, f, K
<1>9. /\ t \in Seq(Entries) /\ UniqueKeys(t)
      /\ Range(t) = PickedSet(s, K)
      /\ \A e \in Range(t), r \in rest : e.key # r.key
      /\ SizeSum(Range(t)) = SizeSum(Range(s)) - SizeSum(rest)
  <2> HIDE DEF rest
  <2>1. K \in SUBSET (1..Len(s)) /\ n \in Nat /\ f \in Bijection(1..n, K)
    BY <1>2, <1>3, <1>8
  <2>2. /\ PickedList(s, n, f) \in Seq(Entries) /\ UniqueKeys(PickedList(s, n, f))
        /\ Range(PickedList(s, n, f)) = PickedSet(s, K)
    BY <2>1, SelectedEntries
  <2>3. \A e \in Range(PickedList(s, n, f)), r \in OtherSet(s, K) : e.key # r.key
    BY <2>1, SelectedEntries
  <2>4. SizeSum(Range(PickedList(s, n, f))) = SizeSum(Range(s)) - SizeSum(OtherSet(s, K))
    BY <2>1, SelectedEntries
  <2> QED  BY <1>4, <2>2, <2>3, <2>4 DEF rest
<1> HIDE DEF rest
<1>10. SizeSum(rest) = s[i].size /\ s[i] \in rest
  BY <1>5, <1>7, Zenon
<1>11. Range(s) = Range(t) \cup {s[i]}
  BY <1>6, <1>9, Zenon
<1> QED  BY <1>9, <1>10, <1>11 DEF t

\* An entry of a new key is added at the front.
LEMMA PushedEntry ==
  ASSUME NEW t \in Seq(Entries), UniqueKeys(t), NEW e \in Entries,
         \A x \in Range(t) : x.key # e.key
  PROVE  LET s == <<e>> \o t
         IN  /\ s \in Seq(Entries) /\ UniqueKeys(s)
             /\ Range(s) = Range(t) \cup {e}
             /\ SizeSum(Range(s)) = SizeSum(Range(t)) + e.size
<1> DEFINE h == <<e>>
           s == h \o t
<1>1. h \in Seq(Entries) /\ Len(h) = 1 /\ h[1] = e /\ Range(h) = {e}
  BY DEF Range
<1>2. Len(t) \in Nat /\ DOMAIN t = 1..Len(t) /\ \A i \in 1..Len(t) : t[i] \in Range(t)
  BY LenProperties DEF Range
<1> HIDE DEF h
<1>3. /\ s \in Seq(Entries) /\ Len(s) = 1 + Len(t)
      /\ \A i \in 1..(1 + Len(t)) : s[i] = IF i <= 1 THEN h[i] ELSE t[i - 1]
  BY <1>1, <1>2, ConcatProperties
<1>4. DOMAIN s = 1..(1 + Len(t))
  BY <1>3, LenProperties
<1>5. Range(s) = Range(t) \cup {e}
  <2>1. Range(s) = Range(h) \cup Range(t)
    BY <1>1, RangeConcatenation
  <2> QED  BY <1>1, <2>1
<1> HIDE DEF s
<1>6. UniqueKeys(s)
  <2> SUFFICES ASSUME NEW i \in 1..(1 + Len(t)), NEW j \in 1..(1 + Len(t)),
                      s[i].key = s[j].key
               PROVE  i = j
    BY <1>4 DEF UniqueKeys
  <2>1. s[1] = e
    BY <1>1, <1>2, <1>3
  <2>2. ASSUME NEW m \in 1..(1 + Len(t)), m # 1
        PROVE  m - 1 \in 1..Len(t) /\ s[m] = t[m - 1]
    <3>1. m - 1 \in 1..Len(t) /\ ~(m <= 1)
      BY <1>2, <2>2
    <3> QED  BY <1>3, <3>1
  <2>3. CASE i = 1 \/ j = 1
    <3>1. \A m \in 1..(1 + Len(t)) : m # 1 => s[m].key # e.key
      BY <1>2, <2>2
    <3> QED  BY <2>1, <2>3, <3>1
  <2>4. CASE i # 1 /\ j # 1
    <3>1. i - 1 = j - 1
      BY <1>2, <2>2, <2>4 DEF UniqueKeys
    <3> QED  BY <1>2, <3>1
  <2> QED  BY <2>3, <2>4
<1>7. SizeSum(Range(s)) = SizeSum(Range(t)) + e.size
  <2>0. e.size \in Nat
    BY RuntimeAssumption DEF Entries
  <2>1. SizeSum({e}) = e.size
    BY <2>0, SizeSumOfOne
  <2>2. IsFiniteSet(Range(t)) /\ \A x \in Range(t) \cup {e} : x.size \in Nat
    BY <2>0, EntriesSize
  <2>3. IsFiniteSet({e}) /\ Range(t) \cap {e} = {}
    BY FS_Singleton
  <2> DEFINE R == Range(t)
             one == {e}
  <2>4. IsFiniteSet(R) /\ IsFiniteSet(one) /\ R \cap one = {} /\ \A x \in R \cup one : x.size \in Nat
    BY <2>2, <2>3
  <2> HIDE DEF R, one
  <2>5. SizeSum(R \cup one) = SizeSum(R) + SizeSum(one)
    BY <2>4, SizeSumSplits
  <2>6. Range(s) = R \cup one /\ SizeSum(one) = e.size
    BY <1>5, <2>1, Zenon DEF R, one
  <2> QED  BY <2>5, <2>6 DEF R
<1> QED  BY <1>3, <1>5, <1>6, <1>7 DEF s, h

\* An enumeration in strictly increasing order takes every position once.
LEMMA OrderIsBijection ==
  ASSUME NEW n \in Nat, NEW K \in SUBSET (1..n), NEW order \in [1..Cardinality(K) -> K],
         \A i, j \in DOMAIN order : i < j => order[i] < order[j]
  PROVE  Cardinality(K) \in Nat /\ order \in Bijection(1..Cardinality(K), K)
<1>1. IsFiniteSet(1..n)
  BY FS_Interval
<1>2. IsFiniteSet(K) /\ Cardinality(K) \in Nat
  BY <1>1, FS_Subset, FS_CardinalityType
<1>3. IsFiniteSet(1..Cardinality(K)) /\ Cardinality(1..Cardinality(K)) = Cardinality(K)
  BY <1>2, FS_Interval
<1>4. ASSUME NEW i \in 1..Cardinality(K), NEW j \in 1..Cardinality(K), order[i] = order[j]
      PROVE  i = j
  <2>1. order[i] \in Nat /\ order[j] \in Nat
    <3>1. order[i] \in 1..n /\ order[j] \in 1..n
      OBVIOUS
    <3> QED  BY <3>1
  <2>2. ~(order[i] < order[j]) /\ ~(order[j] < order[i])
    BY <1>4, <2>1
  <2>3. ~(i < j) /\ ~(j < i)
    BY <2>2
  <2> QED  BY <1>2, <2>3
<1>5. order \in Injection(1..Cardinality(K), K)
  BY <1>4 DEF Injection, IsInjective
<1>6. order \in Surjection(1..Cardinality(K), K)
  <2> DEFINE P == 1..Cardinality(K)
  <2>1. IsFiniteSet(P) /\ Cardinality(P) = Cardinality(K) /\ order \in Injection(P, K)
    BY <1>3, <1>5
  <2> HIDE DEF P
  <2>2. order \in Surjection(P, K)
    BY <1>2, <2>1, FS_Injection
  <2> QED  BY <2>2 DEF P
<1> QED  BY <1>2, <1>5, <1>6 DEF Bijection

-----------------------------------------------------------------------------
(***************************************************************************)
(* The cache's operations.                                                 *)
(***************************************************************************)
CacheOK(list, bytes) ==
    /\ list \in Seq(Entries) /\ UniqueKeys(list)
    /\ bytes = SizeSum(Range(list))
    /\ bytes \in Nat /\ bytes <= MaxBytes

LEMMA EvictedFits ==
  ASSUME NEW s \in Seq(Entries), UniqueKeys(s), NEW bytes,
         bytes = SizeSum(Range(s)), Evicted(s, bytes)
  PROVE  CacheOK(lru', curBytes') /\ Range(lru') \subseteq Range(s)
<1>1. PICK kept \in 0..Len(s) :
          /\ kept = 0 \/ Left(s, bytes, kept) <= MaxBytes
          /\ lru' = SubSeq(s, 1, kept)
          /\ curBytes' = Left(s, bytes, kept)
  BY DEF Evicted
<1> DEFINE p == SubSeq(s, 1, kept)
<1>2. /\ p \in Seq(Entries) /\ UniqueKeys(p)
      /\ Range(p) \subseteq Range(s)
      /\ SizeSum(Range(p)) = Left(s, bytes, kept)
  BY PrefixOfEntries
<1>3. SizeSum(Range(p)) \in Nat
  BY <1>2, EntriesSize
<1>4. SizeSum(Range(p)) <= MaxBytes
  <2>1. CASE kept = 0
    <3>1. p = <<>>
      BY <2>1, SubSeqEmpty
    <3>2. Range(<<>>) = {}
      BY DEF Range
    <3>3. SizeSum(Range(p)) = 0
      <4> HIDE DEF p
      <4> QED  BY <3>1, <3>2, SizeSumOfNone, Zenon
    <3> QED  BY <3>3, RuntimeAssumption
  <2>2. CASE kept # 0
    BY <1>1, <1>2, <2>2
  <2> QED  BY <2>1, <2>2
<1> HIDE DEF p
<1>5. lru' = p /\ curBytes' = SizeSum(Range(p))
  BY <1>1, <1>2 DEF p
<1>6. CacheOK(p, SizeSum(Range(p)))
  BY <1>2, <1>3, <1>4 DEF CacheOK
<1> QED  BY <1>2, <1>5, <1>6 DEF CacheOK

LEMMA PutStep ==
  ASSUME CacheOK(lru, curBytes), NEW e, e.size \in Nat, e.size <= MaxEntry => e \in Entries,
         put(e)
  PROVE  CacheOK(lru', curBytes') /\ Range(lru') \subseteq Range(lru) \cup {e}
<1>1. lru \in Seq(Entries) /\ UniqueKeys(lru) /\ curBytes = SizeSum(Range(lru))
  BY DEF CacheOK
<1>2. DOMAIN lru = 1..Len(lru)
  BY <1>1, LenProperties
<1>3. CASE e.size > MaxEntry /\ UNCHANGED cacheVars
  BY <1>3 DEF CacheOK, cacheVars
<1>4. ASSUME e.size <= MaxEntry, NEW i \in EntryAt(e.key),
             Evicted(<<e>> \o RemoveAt(lru, i), curBytes + e.size - lru[i].size)
      PROVE  CacheOK(lru', curBytes') /\ Range(lru') \subseteq Range(lru) \cup {e}
  <2> DEFINE t == RemoveAt(lru, i)
             s == <<e>> \o t
  <2>1. i \in 1..Len(lru) /\ lru[i].key = e.key
    BY <1>2 DEF EntryAt
  <2>2. /\ t \in Seq(Entries) /\ UniqueKeys(t)
        /\ Range(lru) = Range(t) \cup {lru[i]}
        /\ \A x \in Range(t) : x.key # lru[i].key
        /\ SizeSum(Range(t)) = SizeSum(Range(lru)) - lru[i].size
    BY <1>1, <2>1, RemovedEntry
  <2> HIDE DEF t
  <2>3. /\ s \in Seq(Entries) /\ UniqueKeys(s)
        /\ Range(s) = Range(t) \cup {e}
        /\ SizeSum(Range(s)) = SizeSum(Range(t)) + e.size
    BY <1>4, <2>1, <2>2, PushedEntry
  <2>4. curBytes + e.size - lru[i].size = SizeSum(Range(s))
    <3>1. SizeSum(Range(lru)) \in Nat /\ lru[i].size \in Nat
      BY <1>1, <1>2, <2>1, EntriesSize DEF Range
    <3> HIDE DEF s
    <3> QED  BY <1>1, <2>2, <2>3, <3>1
  <2>5. Evicted(s, curBytes + e.size - lru[i].size)
    BY <1>4 DEF t
  <2> HIDE DEF s
  <2>6. CacheOK(lru', curBytes') /\ Range(lru') \subseteq Range(s)
    BY <2>3, <2>4, <2>5, EvictedFits
  <2> QED  BY <2>2, <2>3, <2>6
<1>5. ASSUME e.size <= MaxEntry, EntryAt(e.key) = {}, Evicted(<<e>> \o lru, curBytes + e.size)
      PROVE  CacheOK(lru', curBytes') /\ Range(lru') \subseteq Range(lru) \cup {e}
  <2> DEFINE s == <<e>> \o lru
  <2>1. \A x \in Range(lru) : x.key # e.key
    BY <1>5 DEF EntryAt, Range
  <2>2. /\ s \in Seq(Entries) /\ UniqueKeys(s)
        /\ Range(s) = Range(lru) \cup {e}
        /\ SizeSum(Range(s)) = SizeSum(Range(lru)) + e.size
    BY <1>1, <1>5, <2>1, PushedEntry
  <2>3. Evicted(s, curBytes + e.size)
    BY <1>5
  <2> HIDE DEF s
  <2>4. curBytes + e.size = SizeSum(Range(s))
    BY <1>1, <2>2
  <2>5. CacheOK(lru', curBytes') /\ Range(lru') \subseteq Range(s)
    BY <2>2, <2>3, <2>4, EvictedFits
  <2> QED  BY <2>2, <2>5
<1> QED  BY <1>3, <1>4, <1>5 DEF put

LEMMA TouchStep ==
  ASSUME CacheOK(lru, curBytes), NEW i \in DOMAIN lru, Touch(i), UNCHANGED curBytes
  PROVE  CacheOK(lru', curBytes') /\ Range(lru') = Range(lru)
<1>1. lru \in Seq(Entries) /\ UniqueKeys(lru) /\ curBytes = SizeSum(Range(lru))
  BY DEF CacheOK
<1>2. i \in 1..Len(lru) /\ lru[i] \in Entries
  BY <1>1, LenProperties
<1> DEFINE t == RemoveAt(lru, i)
           s == <<lru[i]>> \o t
<1>3. /\ t \in Seq(Entries) /\ UniqueKeys(t)
      /\ Range(lru) = Range(t) \cup {lru[i]}
      /\ \A x \in Range(t) : x.key # lru[i].key
  BY <1>1, <1>2, RemovedEntry
<1>4. lru' = s
  BY DEF Touch
<1> HIDE DEF t
<1>5. /\ s \in Seq(Entries) /\ UniqueKeys(s)
      /\ Range(s) = Range(t) \cup {lru[i]}
  BY <1>2, <1>3, PushedEntry
<1> HIDE DEF s
<1>6. Range(s) = Range(lru)
  BY <1>3, <1>5
<1> QED  BY <1>4, <1>5, <1>6 DEF CacheOK

LEMMA InvalidateStep ==
  ASSUME CacheOK(lru, curBytes), NEW tool, invalidateTool(tool)
  PROVE  CacheOK(lru', curBytes') /\ Range(lru') \subseteq Range(lru)
<1>1. lru \in Seq(Entries) /\ UniqueKeys(lru) /\ curBytes = SizeSum(Range(lru))
  BY DEF CacheOK
<1>2. DOMAIN lru = 1..Len(lru) /\ Len(lru) \in Nat
  BY <1>1, LenProperties
<1> DEFINE dropped == {i \in DOMAIN lru : lru[i].key.tool = tool}
           K == DOMAIN lru \ dropped
           n == Cardinality(K)
<1>3. Keep(K) /\ curBytes' = curBytes - SizeSum({lru[i] : i \in dropped})
  BY DEF invalidateTool
<1>4. K \in SUBSET (1..Len(lru)) /\ dropped = (1..Len(lru)) \ K
  BY <1>2
<1> HIDE DEF dropped, K
<1>5. PICK order \in [1..n -> K] :
          /\ \A i, j \in DOMAIN order : i < j => order[i] < order[j]
          /\ lru' = [i \in DOMAIN order |-> lru[order[i]]]
  BY <1>3 DEF Keep
<1>6. n \in Nat /\ order \in Bijection(1..n, K)
  BY <1>2, <1>4, <1>5, OrderIsBijection
<1>7. lru' = PickedList(lru, n, order)
  BY <1>5 DEF PickedList
<1>8. {lru[i] : i \in dropped} = OtherSet(lru, K)
  BY <1>4, Zenon DEF OtherSet
<1> HIDE DEF n
<1>9. /\ PickedList(lru, n, order) \in Seq(Entries) /\ UniqueKeys(PickedList(lru, n, order))
      /\ Range(PickedList(lru, n, order)) = PickedSet(lru, K)
      /\ SizeSum(Range(PickedList(lru, n, order))) = SizeSum(Range(lru)) - SizeSum(OtherSet(lru, K))
      /\ SizeSum(OtherSet(lru, K)) \in Nat
  BY <1>1, <1>4, <1>6, SelectedEntries
<1>10. curBytes' = SizeSum(Range(PickedList(lru, n, order)))
  <2>1. SizeSum({lru[i] : i \in dropped}) = SizeSum(OtherSet(lru, K))
    BY <1>8, Zenon
  <2> QED  BY <1>1, <1>3, <1>9, <2>1
<1>11. SizeSum(Range(PickedList(lru, n, order))) \in Nat
  BY <1>9, EntriesSize
<1>12. SizeSum(Range(PickedList(lru, n, order))) <= MaxBytes
  <2>1. curBytes \in Nat /\ curBytes <= MaxBytes
    BY DEF CacheOK
  <2> QED  BY <1>1, <1>9, <1>11, <2>1, RuntimeAssumption
<1>13. PickedSet(lru, K) \subseteq Range(lru)
  BY <1>2, <1>4 DEF PickedSet, Range
<1>14. CacheOK(PickedList(lru, n, order), curBytes')
  BY <1>9, <1>10, <1>11, <1>12 DEF CacheOK
<1> QED  BY <1>7, <1>9, <1>13, <1>14 DEF CacheOK

-----------------------------------------------------------------------------
(***************************************************************************)
(* Writers.  All that the proofs need of one: it gives one file a content  *)
(* whose identity is new, or further on than the old one.                  *)
(***************************************************************************)
Moves(d, e, old, new) ==
    /\ e.gen <= new /\ e.rev <= new /\ e.base <= new /\ e.rows <= new
    /\ e.status # "absent" /\ e.rev # 0
    /\ \/ e.rev > old
       \/ /\ e.rev = d.rev /\ d.gen <= e.gen /\ d.base <= e.base
          /\ e.status = "ready" => d.gen < e.gen \/ d.base < e.base

WriteOf(f, e) ==
    /\ disk' = [disk EXCEPT ![f] = e]
    /\ Moves(disk[f], e, writes, writes')
    /\ writes' \in 1..MaxWrites /\ writes <= writes'
    /\ pointer' \in {pointer, f} /\ scanning' \in BOOLEAN
    /\ Observe

WriteStep == \E f \in Files, e \in Contents : WriteOf(f, e)

Wrote ==
    \/ RefreshFiles \/ SaveBaseline \/ Publish
    \/ CommitScannedRows \/ FinishScan
    \/ \E f \in Files : MarkIndexStale(f)

LEMMA CommitMoves ==
  ASSUME TypeOK, NEW f \in Files, NEW state, Commit(f, state),
         [state EXCEPT !.rows = writes + 1] \in Contents,
         Moves(disk[f], [state EXCEPT !.rows = writes + 1], writes, writes + 1),
         pointer' \in {pointer, f}, scanning' \in BOOLEAN
  PROVE  WriteStep
<1>1. writes' = writes + 1 /\ writes' \in 1..MaxWrites /\ writes <= writes'
  BY RuntimeAssumption DEF TypeOK, Commit
<1>2. WriteOf(f, [state EXCEPT !.rows = writes + 1])
  BY <1>1 DEF WriteOf, Commit
<1> QED  BY <1>2 DEF WriteStep

Unbounded == [status : Statuses, gen : Nat, rev : Nat, base : Nat, rows : Nat]

LEMMA BoundedContents ==
  ASSUME NEW e \in Unbounded, e.gen <= MaxWrites, e.rev <= MaxWrites, e.base <= MaxWrites,
         e.rows <= MaxWrites
  PROVE  e \in Contents
<1> QED  BY RuntimeAssumption DEF Unbounded, Contents

LEMMA WroteMoves ==
  ASSUME TypeOK, DiskInv, Wrote
  PROVE  WriteStep
<1> DEFINE d == disk[pointer]
<1>1. /\ d \in Contents /\ d \in Unbounded /\ pointer \in Files
      /\ d.gen \in Nat /\ d.rev \in Nat /\ d.base \in Nat /\ d.rows \in Nat
      /\ d.gen <= writes /\ d.rev <= writes /\ d.base <= writes /\ d.rows <= writes
      /\ d.status # "absent" /\ d.rev # 0
  BY DEF TypeOK, DiskInv, Contents, Unbounded
<1>2. writes \in Nat /\ MaxWrites \in Nat /\ writes >= 1
  BY RuntimeAssumption DEF TypeOK
<1> DEFINE Next1(state) == [state EXCEPT !.rows = writes + 1]
<1>3. CASE RefreshFiles
  <2> DEFINE state == [d EXCEPT !.gen = @ + 1]
             e == Next1(state)
  <2>1. Commit(pointer, state) /\ pointer' = pointer /\ scanning' = FALSE /\ d.status = "ready"
    BY <1>3 DEF RefreshFiles
  <2>2. writes + 1 <= MaxWrites
    BY <1>2, <2>1 DEF Commit
  <2>3a. /\ state \in Unbounded
        /\ state.gen = d.gen + 1 /\ state.rev = d.rev /\ state.base = d.base
        /\ state.status = d.status
    <3> HIDE DEF d
    <3> QED  BY <1>1, <1>2 DEF Unbounded, Statuses
  <2>3. /\ e \in Unbounded
        /\ e.gen = d.gen + 1 /\ e.rev = d.rev /\ e.base = d.base /\ e.rows = writes + 1
        /\ e.status = d.status
    <3> HIDE DEF d, state
    <3> QED  BY <1>2, <2>3a DEF Unbounded
  <2>4. e \in Contents
    <3> HIDE DEF e, d
    <3> QED  BY <1>1, <1>2, <2>2, <2>3, BoundedContents
  <2>5. Moves(d, e, writes, writes + 1)
    <3> HIDE DEF e, d
    <3> QED  BY <1>1, <1>2, <2>1, <2>3 DEF Moves
  <2>6. pointer' = pointer /\ scanning' \in BOOLEAN
    BY <1>1, <2>1 DEF TypeOK
  <2> QED  BY <1>1, <2>1, <2>4, <2>5, <2>6, CommitMoves
<1>4. CASE SaveBaseline
  <2> DEFINE state == [d EXCEPT !.base = @ + 1]
             e == Next1(state)
  <2>1. Commit(pointer, state) /\ pointer' = pointer /\ scanning' = FALSE
    BY <1>4 DEF SaveBaseline
  <2>2. writes + 1 <= MaxWrites
    BY <1>2, <2>1 DEF Commit
  <2>3a. /\ state \in Unbounded
        /\ state.gen = d.gen /\ state.rev = d.rev /\ state.base = d.base + 1
        /\ state.status = d.status
    <3> HIDE DEF d
    <3> QED  BY <1>1, <1>2 DEF Unbounded, Statuses
  <2>3. /\ e \in Unbounded
        /\ e.gen = d.gen /\ e.rev = d.rev /\ e.base = d.base + 1 /\ e.rows = writes + 1
        /\ e.status = d.status
    <3> HIDE DEF d, state
    <3> QED  BY <1>2, <2>3a DEF Unbounded
  <2>4. e \in Contents
    <3> HIDE DEF e, d
    <3> QED  BY <1>1, <1>2, <2>2, <2>3, BoundedContents
  <2>5. Moves(d, e, writes, writes + 1)
    <3> HIDE DEF e, d
    <3> QED  BY <1>1, <1>2, <2>3 DEF Moves
  <2>6. pointer' = pointer /\ scanning' \in BOOLEAN
    BY <1>1, <2>1 DEF TypeOK
  <2> QED  BY <1>1, <2>1, <2>4, <2>5, <2>6, CommitMoves
<1>5. CASE Publish
  <2> DEFINE state == [status |-> "ready", gen |-> d.gen + 1, rev |-> writes + 1,
                       base |-> d.base, rows |-> 0]
             e == Next1(state)
  <2>1. PICK f \in Files : Commit(f, state) /\ pointer' = f /\ scanning' = FALSE
    BY <1>5 DEF Publish
  <2>2. writes + 1 <= MaxWrites
    BY <1>2, <2>1 DEF Commit
  <2>3. /\ e \in Unbounded
        /\ e.gen = d.gen + 1 /\ e.rev = writes + 1 /\ e.base = d.base /\ e.rows = writes + 1
        /\ e.status = "ready"
    <3> HIDE DEF d
    <3> QED  BY <1>1, <1>2 DEF Unbounded, Statuses
  <2>4. e \in Contents
    <3> HIDE DEF e, d
    <3> QED  BY <1>1, <1>2, <2>2, <2>3, BoundedContents
  <2>5. Moves(disk[f], e, writes, writes + 1)
    <3> HIDE DEF e, d
    <3> QED  BY <1>1, <1>2, <2>3 DEF Moves
  <2>6. pointer' = f /\ scanning' \in BOOLEAN
    BY <2>1 DEF TypeOK
  <2> QED  BY <2>1, <2>4, <2>5, <2>6, CommitMoves
<1>7. CASE CommitScannedRows
  <2> DEFINE state == [d EXCEPT !.status = "finalizing"]
             e == Next1(state)
  <2>1. Commit(pointer, state) /\ pointer' = pointer /\ scanning' = TRUE
    BY <1>7 DEF CommitScannedRows
  <2>2. writes + 1 <= MaxWrites
    BY <1>2, <2>1 DEF Commit
  <2>3a. /\ state \in Unbounded
        /\ state.gen = d.gen /\ state.rev = d.rev /\ state.base = d.base
        /\ state.status = "finalizing"
    <3> HIDE DEF d
    <3> QED  BY <1>1, <1>2 DEF Unbounded, Statuses
  <2>3. /\ e \in Unbounded
        /\ e.gen = d.gen /\ e.rev = d.rev /\ e.base = d.base /\ e.rows = writes + 1
        /\ e.status = "finalizing"
    <3> HIDE DEF d, state
    <3> QED  BY <1>2, <2>3a DEF Unbounded
  <2>4. e \in Contents
    <3> HIDE DEF e, d
    <3> QED  BY <1>1, <1>2, <2>2, <2>3, BoundedContents
  <2>5. Moves(d, e, writes, writes + 1)
    <3> HIDE DEF e, d
    <3> QED  BY <1>1, <1>2, <2>3 DEF Moves
  <2>6. pointer' = pointer /\ scanning' \in BOOLEAN
    BY <1>1, <2>1 DEF TypeOK
  <2> QED  BY <1>1, <2>1, <2>4, <2>5, <2>6, CommitMoves
<1>8. CASE FinishScan
  <2> DEFINE state == [d EXCEPT !.status = "ready", !.gen = @ + 1]
             e == Next1(state)
  <2>1. Commit(pointer, state) /\ pointer' = pointer /\ scanning' = FALSE
    BY <1>8 DEF FinishScan
  <2>2. writes + 1 <= MaxWrites
    BY <1>2, <2>1 DEF Commit
  <2>3a. /\ state \in Unbounded
        /\ state.gen = d.gen + 1 /\ state.rev = d.rev /\ state.base = d.base
        /\ state.status = "ready"
    <3>1. d \in Unbounded
      BY <1>1
    <3> HIDE DEF d
    <3>2. d.gen + 1 \in Nat
      BY <3>1 DEF Unbounded
    <3> QED  BY <3>1, <3>2 DEF Unbounded, Statuses
  <2>3. /\ e \in Unbounded
        /\ e.gen = d.gen + 1 /\ e.rev = d.rev /\ e.base = d.base /\ e.rows = writes + 1
        /\ e.status = "ready"
    <3> HIDE DEF d, state
    <3> QED  BY <1>2, <2>3a DEF Unbounded
  <2>4. e \in Contents
    <3> HIDE DEF e, d
    <3> QED  BY <1>1, <1>2, <2>2, <2>3, BoundedContents
  <2>5. Moves(d, e, writes, writes + 1)
    <3> HIDE DEF e, d
    <3> QED  BY <1>1, <1>2, <2>3 DEF Moves
  <2>6. pointer' = pointer /\ scanning' \in BOOLEAN
    BY <1>1, <2>1 DEF TypeOK
  <2> QED  BY <1>1, <2>1, <2>4, <2>5, <2>6, CommitMoves
<1>9. ASSUME NEW f \in Files, MarkIndexStale(f)
      PROVE  WriteStep
  <2> DEFINE e == [disk[f] EXCEPT !.status = "stale"]
  <2>1. disk[f] \in Contents
    BY DEF TypeOK
  <2>2. /\ e.gen = disk[f].gen /\ e.rev = disk[f].rev /\ e.base = disk[f].base
        /\ e.rows = disk[f].rows /\ e.status = "stale"
    BY <2>1 DEF Contents
  <2>3. e \in Contents
    BY <2>1, <2>2 DEF Contents, Statuses
  <2>4. Moves(disk[f], e, writes, writes)
    <3>1. /\ disk[f].gen <= writes /\ disk[f].rev <= writes
          /\ disk[f].base <= writes /\ disk[f].rows <= writes
          /\ disk[f].rev # 0
      BY <1>9 DEF DiskInv, MarkIndexStale
    <3>2. disk[f].gen \in Nat /\ disk[f].base \in Nat
      BY <2>1 DEF Contents
    <3> HIDE DEF e
    <3> QED  BY <2>2, <3>1, <3>2 DEF Moves
  <2>5. writes' = writes /\ pointer' = pointer /\ scanning' = scanning
    BY <1>9 DEF MarkIndexStale
  <2>6. disk' = [disk EXCEPT ![f] = e] /\ Observe
    BY <1>9 DEF MarkIndexStale
  <2> HIDE DEF e
  <2>7. WriteOf(f, e)
    BY <1>2, <2>4, <2>5, <2>6 DEF WriteOf, TypeOK
  <2> QED  BY <2>3, <2>7 DEF WriteStep
<1> QED  BY <1>3, <1>4, <1>5, <1>7, <1>8, <1>9 DEF Wrote

-----------------------------------------------------------------------------
(***************************************************************************)
(* What a step of the index leaves true: the numbers are bounded by the    *)
(* writes, and what is recorded stays so.                                  *)
(***************************************************************************)
IndexStep == UNCHANGED indexVars \/ WriteStep

IndexTypeOK ==
    /\ disk \in [Files -> Contents]
    /\ pointer \in Files /\ scanning \in BOOLEAN
    /\ writes \in 1..MaxWrites

LEMMA IndexStepTypes ==
  ASSUME TypeOK, IndexStep
  PROVE  IndexTypeOK'
<1>1. CASE UNCHANGED indexVars
  BY <1>1 DEF TypeOK, IndexTypeOK, indexVars
<1>2. ASSUME NEW f \in Files, NEW e \in Contents, WriteOf(f, e)
      PROVE  IndexTypeOK'
  <2>1. disk' \in [Files -> Contents]
    BY <1>2 DEF TypeOK, WriteOf
  <2> QED  BY <1>2, <2>1 DEF TypeOK, IndexTypeOK, WriteOf
<1> QED  BY <1>1, <1>2 DEF IndexStep, WriteStep

LEMMA DiskStep ==
  ASSUME TypeOK, DiskInv, IndexStep
  PROVE  DiskInv'
<1>1. CASE UNCHANGED indexVars
  BY <1>1 DEF DiskInv, indexVars
<1>2. ASSUME NEW f \in Files, NEW e \in Contents, WriteOf(f, e), NEW g \in Files
      PROVE  /\ disk'[g].gen <= writes' /\ disk'[g].rev <= writes'
             /\ disk'[g].base <= writes' /\ disk'[g].rows <= writes'
             /\ disk'[g].status # "absent" => disk'[g].rev # 0
  <2>1. CASE g = f
    <3>1. disk'[g] = e
      BY <1>2, <2>1 DEF TypeOK, WriteOf
    <3> QED  BY <1>2, <3>1 DEF WriteOf, Moves
  <2>2. CASE g # f
    <3>1. disk'[g] = disk[g] /\ disk[g] \in Contents
      BY <1>2, <2>2 DEF TypeOK, WriteOf
    <3>2. writes \in Nat /\ writes' \in Nat /\ writes <= writes'
      BY <1>2 DEF TypeOK, WriteOf
    <3>3. /\ disk[g].gen \in Nat /\ disk[g].rev \in Nat
          /\ disk[g].base \in Nat /\ disk[g].rows \in Nat
      BY <3>1 DEF Contents
    <3> QED  BY <3>1, <3>2, <3>3 DEF DiskInv
  <2> QED  BY <2>1, <2>2
<1>3. CASE WriteStep
  <2>1. PICK f \in Files, e \in Contents : WriteOf(f, e)
    BY <1>3 DEF WriteStep
  <2>2. disk'[pointer'].status # "absent"
    <3>1. disk'[f] = e /\ (pointer # f => disk'[pointer] = disk[pointer])
      BY <2>1 DEF TypeOK, WriteOf
    <3>2. e.status # "absent" /\ pointer' \in {pointer, f}
      BY <2>1 DEF WriteOf, Moves
    <3> QED  BY <3>1, <3>2 DEF DiskInv
  <2> QED  BY <1>2, <2>1, <2>2 DEF DiskInv
<1> QED  BY <1>1, <1>3 DEF IndexStep

LEMMA RecordedStep ==
  ASSUME TypeOK, IndexStep, NEW f \in Files, NEW k, NEW R, Recorded(f, k, R),
         k.gen \in Nat, k.rev \in Nat, k.base \in Nat
  PROVE  Recorded(f, k, R)'
<1>1. CASE UNCHANGED indexVars
  BY <1>1 DEF Recorded, indexVars
<1>2. ASSUME NEW g \in Files, NEW e \in Contents, WriteOf(g, e)
      PROVE  Recorded(f, k, R)'
  <2>1. writes \in Nat /\ writes' \in Nat /\ writes <= writes'
    BY <1>2 DEF TypeOK, WriteOf
  <2>2. k.rev # 0 /\ k.rev <= writes /\ k.rev <= writes'
    BY <2>1 DEF Recorded
  <2>3. CASE f # g
    <3>1. disk'[f] = disk[f]
      BY <1>2, <2>3 DEF TypeOK, WriteOf
    <3> QED  BY <2>2, <3>1 DEF Recorded
  <2>4. CASE f = g
    <3> DEFINE d == disk[f]
    <3>1. disk'[f] = e
      BY <1>2, <2>4 DEF TypeOK, WriteOf
    <3>2. d \in Contents
      BY DEF TypeOK
    <3>3. /\ d.gen \in Nat /\ d.base \in Nat /\ d.rev \in Nat
          /\ e.gen \in Nat /\ e.base \in Nat /\ e.rev \in Nat
      BY <3>2 DEF Contents
    <3>4. Moves(d, e, writes, writes')
      BY <1>2, <2>4 DEF WriteOf
    <3>5. k.rev = d.rev => k.gen <= d.gen /\ k.base <= d.base
      BY DEF Recorded
    <3> HIDE DEF d
    <3>6. k.rev = e.rev =>
              /\ k.gen <= e.gen /\ k.base <= e.base
              /\ ~(k.gen = e.gen /\ k.base = e.base /\ e.status = "ready")
      BY <2>1, <2>2, <3>3, <3>4, <3>5 DEF Moves
    <3> QED  BY <2>2, <3>1, <3>6 DEF Recorded
  <2> QED  BY <2>3, <2>4
<1> QED  BY <1>1, <1>2 DEF IndexStep, WriteStep

-----------------------------------------------------------------------------
(***************************************************************************)
(* Calls.                                                                  *)
(***************************************************************************)
CallInv(c) == SeenInv(c) /\ ReadInv(c) /\ CommitInv(c)

LEMMA OneOfType ==
  ASSUME NEW R \in SUBSET (0..MaxWrites)
  PROVE  OneOf(R) \in 0..MaxWrites
<1>1. IsFiniteSet(0..MaxWrites)
  BY RuntimeAssumption, FS_Interval
<1>2. IsFiniteSet(R)
  BY <1>1, FS_Subset
<1>3. Cardinality(R) = 1 => R # {}
  BY <1>2, FS_EmptySet
<1>4. CASE Cardinality(R) = 1
  <2>1. (CHOOSE r \in R : TRUE) \in R
    BY <1>3, <1>4
  <2> QED  BY <1>4, <2>1 DEF OneOf
<1>5. CASE Cardinality(R) # 1
  BY <1>5, RuntimeAssumption DEF OneOf
<1> QED  BY <1>4, <1>5

LEMMA OneOfSingleton ==
  ASSUME NEW R, NEW r, R # {}, R \subseteq {r}
  PROVE  OneOf(R) = r
<1>1. R = {r}
  OBVIOUS
<1>2. Cardinality(R) = 1
  BY <1>1, FS_Singleton, Zenon
<1>3. (CHOOSE x \in R : TRUE) \in R
  BY <1>1
<1> QED  BY <1>1, <1>2, <1>3 DEF OneOf

\* A reading under the state that its file is in shows what the file holds.
LEMMA ShownIsCurrent ==
  ASSUME TypeOK, NEW f \in Files, NEW k, NEW R, Recorded(f, k, R), R # {},
         disk[f].status = "ready", ~indexStateChanged(k, IndexState(disk[f]))
  PROVE  [status |-> disk[f].status, gen |-> disk[f].gen, rev |-> disk[f].rev,
          base |-> disk[f].base, rows |-> OneOf(R)] = disk[f]
<1>1. k.gen = disk[f].gen /\ k.rev = disk[f].rev /\ k.base = disk[f].base
  BY DEF indexStateChanged, IndexState
<1>2. R \subseteq {disk[f].rows}
  BY <1>1 DEF Recorded
<1>3. OneOf(R) = disk[f].rows
  BY <1>2, OneOfSingleton
<1>4. disk[f] \in Contents
  BY DEF TypeOK
<1> QED  BY <1>3, <1>4 DEF Contents

LEMMA ReadingTypes ==
  ASSUME TypeOK, DiskInv, NEW c \in Calls, NEW s \in Readings(c)
  PROVE  /\ s \in PublishedStates
         /\ s.gen \in Nat /\ s.rev \in Nat /\ s.base \in Nat
         /\ s # Unknown => s = IndexState(disk[call[c].file])
         /\ s.status = "ready" => s # Unknown /\ s.rev # 0 /\ s.rev <= writes
<1>1. call[c].file \in Files
  BY DEF TypeOK, CallStates
<1> DEFINE d == disk[call[c].file]
<1>2. d \in Contents
  BY <1>1 DEF TypeOK
<1>3. d.rev <= writes /\ (d.status # "absent" => d.rev # 0)
  BY <1>1 DEF DiskInv
<1> HIDE DEF d
<1>4. CASE s = Unknown
  BY <1>4, RuntimeAssumption DEF Unknown, IndexState, Absent, PublishedStates, Statuses
<1>5. CASE s = IndexState(d)
  <2>1. s.gen = d.gen /\ s.rev = d.rev /\ s.base = d.base /\ s.status = d.status
    BY <1>5 DEF IndexState
  <2>2. s \in PublishedStates
    BY <1>2, <1>5 DEF IndexState, PublishedStates, Contents
  <2>3. s.status = "ready" => s # Unknown
    BY <2>1 DEF Unknown, IndexState, Absent
  <2>4. s.gen \in Nat /\ s.rev \in Nat /\ s.base \in Nat
    BY <2>2 DEF PublishedStates
  <2> QED  BY <1>3, <1>5, <2>1, <2>2, <2>3, <2>4 DEF d
<1> QED  BY <1>4, <1>5 DEF Readings, d

\* A call that the step does not touch.
LEMMA OtherCall ==
  ASSUME TypeOK, NEW x \in Calls, CallInv(x), call'[x] = call[x],
         (UNCHANGED indexVars /\ seen'[x] = seen[x]) \/ WriteStep
  PROVE  CallInv(x)'
<1> DEFINE f == call[x].file
           k == call[x].start
           R == call[x].reads
<1>1. f \in Files /\ k \in PublishedStates /\ k.gen \in Nat /\ k.rev \in Nat /\ k.base \in Nat
  BY DEF TypeOK, CallStates, PublishedStates
<1>2. IndexStep
  BY DEF IndexStep
<1>3. SeenInv(x)' /\ seen[x] \subseteq seen'[x]
  <2>1. CASE UNCHANGED indexVars /\ seen'[x] = seen[x]
    BY <2>1 DEF CallInv, SeenInv, Reads, indexVars
  <2>2. ASSUME NEW g \in Files, NEW e \in Contents, WriteOf(g, e)
        PROVE  SeenInv(x)' /\ seen[x] \subseteq seen'[x]
    <3>1. seen'[x] = IF seen[x] = {} THEN {} ELSE seen[x] \cup {<<f, disk'[f]>>}
      BY <2>2 DEF WriteOf, Observe
    <3> QED  BY <3>1 DEF CallInv, SeenInv, Reads
  <2> QED  BY <2>1, <2>2 DEF WriteStep
<1>4. Recorded(f, k, R) => Recorded(call[x].file, call[x].start, call[x].reads)'
  <2>1. PICK f0 \in Files, k0 \in PublishedStates, R0 \in {R} : f0 = f /\ k0 = k
    BY <1>1
  <2>2. Recorded(f0, k0, R0) => Recorded(f0, k0, R0)'
    BY <1>1, <1>2, <2>1, RecordedStep
  <2>3. call'[x].file = f0 /\ call'[x].start = k0 /\ call'[x].reads = R0
    BY <2>1
  <2> HIDE DEF f, k, R
  <2> QED  BY <2>1, <2>2, <2>3 DEF Recorded
<1>5. Shown(x, call[x].after)' = Shown(x, call[x].after)
  BY DEF Shown
<1>6. ReadInv(x)'
  BY <1>3, <1>4, <1>5 DEF CallInv, ReadInv, Reads, Certified
<1>7. CommitInv(x)'
  BY DEF CallInv, CommitInv, Reads
<1> QED  BY <1>3, <1>6, <1>7 DEF CallInv

\* The call is given the state r.
LEMMA CallUpdate ==
  ASSUME TypeOK, NEW c \in Calls, NEW r \in CallStates, call' = [call EXCEPT ![c] = r]
  PROVE  /\ call' \in [Calls -> CallStates]
         /\ call'[c] = r
         /\ \A x \in Calls : x # c => call'[x] = call[x]
<1> QED  BY DEF TypeOK

LEMMA IdleType == Idle \in CallStates /\ Unknown \in PublishedStates /\ Unknown.status = "absent"
<1>1. Unknown \in PublishedStates /\ Unknown.status = "absent"
  BY RuntimeAssumption DEF Unknown, IndexState, Absent, PublishedStates, Statuses
<1> QED  BY <1>1, RuntimeAssumption DEF Idle, CallStates

CallMoves(c) ==
    /\ \E r \in CallStates : call' = [call EXCEPT ![c] = r]
    /\ CallInv(c)'

LEMMA BeginCall ==
  ASSUME TypeOK, NEW c \in Calls, NEW tool \in Tools, Begin(c, tool)
  PROVE  CallMoves(c)
<1> DEFINE r == [Idle EXCEPT !.pc = "bound", !.tool = tool, !.file = pointer]
<1>1. r \in CallStates
  BY IdleType DEF CallStates, TypeOK
<1>2. /\ r.pc = "bound" /\ r.tool = tool /\ r.file = pointer /\ r.reads = {}
      /\ r.runs = 0 /\ r.committed = FALSE
  BY DEF Idle
<1>3. call' = [call EXCEPT ![c] = r]
  BY DEF Begin
<1> HIDE DEF r
<1>4. call'[c] = r
  BY <1>1, <1>3, CallUpdate
<1>5. seen'[c] = (IF tool \in ReadOnly THEN {<<pointer, disk[pointer]>>} ELSE {}) /\ disk' = disk
  BY DEF Begin, TypeOK, indexVars
<1>6. SeenInv(c)'
  BY <1>2, <1>4, <1>5 DEF SeenInv, Reads
<1>7. ReadInv(c)'
  BY <1>2, <1>4 DEF ReadInv
<1>8. CommitInv(c)'
  BY <1>2, <1>4 DEF CommitInv
<1> QED  BY <1>1, <1>3, <1>6, <1>7, <1>8 DEF CallMoves, CallInv

LEMMA AnswerCall ==
  ASSUME TypeOK, NEW c \in Calls, NEW reply, NEW shown, Answer(c, reply, shown)
  PROVE  CallMoves(c)
<1>1. Idle \in CallStates /\ call' = [call EXCEPT ![c] = Idle]
  BY IdleType DEF Answer
<1>2. call'[c] = Idle
  BY <1>1, CallUpdate
<1>3. /\ call'[c].pc = "idle" /\ call'[c].runs = 0 /\ call'[c].committed = FALSE
  BY <1>2 DEF Idle
<1>4. seen'[c] = {}
  BY DEF Answer, TypeOK
<1>5. SeenInv(c)' /\ ReadInv(c)' /\ CommitInv(c)'
  BY <1>3, <1>4 DEF SeenInv, ReadInv, CommitInv
<1> QED  BY <1>1, <1>5 DEF CallMoves, CallInv

\* The call goes on, reading what it read before.
LEMMA SeenKept ==
  ASSUME NEW c \in Calls, SeenInv(c), UNCHANGED indexVars, seen' = seen,
         call'[c].tool = call[c].tool, call'[c].file = call[c].file,
         call[c].pc # "idle", call'[c].pc # "idle"
  PROVE  SeenInv(c)'
<1> QED  BY DEF SeenInv, Reads, indexVars

LEMMA StartRecorded ==
  ASSUME TypeOK, DiskInv, NEW c \in Calls, NEW s \in Readings(c), s.status = "ready"
  PROVE  Recorded(call[c].file, s, {})
<1> DEFINE d == disk[call[c].file]
<1>1. /\ s # Unknown /\ s.rev # 0 /\ s.rev <= writes
      /\ s = IndexState(d)
      /\ s.gen \in Nat /\ s.base \in Nat
  BY ReadingTypes
<1>2. s.gen = d.gen /\ s.base = d.base
  BY <1>1 DEF IndexState
<1> HIDE DEF d
<1>3. s.gen <= d.gen /\ s.base <= d.base
  BY <1>1, <1>2
<1> QED  BY <1>1, <1>3 DEF Recorded, d

LEMMA AdmitCall ==
  ASSUME TypeOK, DiskInv, NEW c \in Calls, CallInv(c), call[c].pc = "bound",
         NEW s \in Readings(c), AdmitReady(c, s)
  PROVE  CallMoves(c)
<1> DEFINE next == IF MayLookUp(c, s) THEN "lookup" ELSE "handler"
           r == [call[c] EXCEPT !.start = s, !.pc = next]
<1>1. call[c] \in CallStates /\ s \in PublishedStates
  BY ReadingTypes DEF TypeOK
<1>2. next \in {"lookup", "handler"} /\ (next = "lookup" => MayLookUp(c, s))
  OBVIOUS
<1>3. call' = [call EXCEPT ![c] = r]
  BY DEF AdmitReady, TypeOK
<1> HIDE DEF next
<1>4. /\ r \in CallStates
      /\ r.pc = next /\ r.start = s /\ r.tool = call[c].tool /\ r.file = call[c].file
      /\ r.reads = call[c].reads /\ r.runs = call[c].runs /\ r.committed = call[c].committed
  BY <1>1, <1>2 DEF CallStates
<1> HIDE DEF r
<1>5. call'[c] = r
  BY <1>3, <1>4, CallUpdate
<1>6. UNCHANGED <<indexVars, seen>>
  BY DEF AdmitReady
<1>7. SeenInv(c)'
  BY <1>2, <1>4, <1>5, <1>6, SeenKept DEF CallInv
<1>8. call[c].reads = {}
  BY DEF CallInv, ReadInv
<1>9. s.status = "ready" => Recorded(call[c].file, s, {})'
  <2>1. s.status = "ready" => Recorded(call[c].file, s, {})
    BY StartRecorded
  <2> QED  BY <1>4, <1>5, <1>6, <2>1 DEF Recorded, indexVars
<1>10. ReadInv(c)'
  <2>1. next = "lookup" => s.status = "ready" /\ Reads(c)
    BY <1>2 DEF MayLookUp, Reads
  <2>2. s.status = "ready" => Recorded(call[c].file, call[c].start, call[c].reads)'
    BY <1>4, <1>5, <1>8, <1>9 DEF Recorded
  <2> QED  BY <1>2, <1>4, <1>5, <2>1, <2>2 DEF ReadInv, Reads
<1>11. CommitInv(c)'
  BY <1>2, <1>4, <1>5 DEF CallInv, CommitInv, Reads
<1> QED  BY <1>3, <1>4, <1>7, <1>10, <1>11 DEF CallMoves, CallInv

LEMMA HitCall ==
  ASSUME TypeOK, EntriesInv, NEW c \in Calls, CallInv(c), CacheHit(c)
  PROVE  CallMoves(c)
<1>1. PICK i \in EntryAt(CallKey(c, call[c].start)) :
          call' = [call EXCEPT ![c].pc = "hit", ![c].reads = lru[i].reads]
  BY DEF CacheHit
<1>2. i \in DOMAIN lru /\ lru[i].key = CallKey(c, call[c].start)
  BY <1>1 DEF EntryAt
<1>3. lru[i] \in Range(lru) /\ lru[i].reads \in SUBSET (0..MaxWrites)
  <2>1. lru \in Seq([key : Keys, reads : SUBSET (0..MaxWrites), size : 0..MaxEntry])
    BY DEF TypeOK
  <2>2. lru[i] \in [key : Keys, reads : SUBSET (0..MaxWrites), size : 0..MaxEntry]
    BY <1>2, <2>1, LenProperties
  <2> QED  BY <1>2, <2>2 DEF Range
<1> DEFINE R == lru[i].reads
           k == lru[i].key
           r == [call[c] EXCEPT !.pc = "hit", !.reads = R]
<1>4. R # {} /\ Recorded(k.file, k, R)
  BY <1>3 DEF EntriesInv
<1>5. /\ k.file = call[c].file /\ k.gen = call[c].start.gen
      /\ k.rev = call[c].start.rev /\ k.base = call[c].start.base
  BY <1>2 DEF CallKey, toolCacheKey
<1>6. call[c] \in CallStates
  BY DEF TypeOK
<1>7. call' = [call EXCEPT ![c] = r]
  BY <1>1 DEF TypeOK
<1> HIDE DEF R, k
<1>8. /\ r \in CallStates
      /\ r.pc = "hit" /\ r.start = call[c].start /\ r.tool = call[c].tool /\ r.file = call[c].file
      /\ r.reads = R /\ r.runs = call[c].runs /\ r.committed = call[c].committed
  BY <1>3, <1>6 DEF CallStates, R
<1> HIDE DEF r
<1>9. call'[c] = r
  BY <1>7, <1>8, CallUpdate
<1>10. UNCHANGED <<indexVars, seen>> /\ call[c].pc = "lookup"
  BY DEF CacheHit
<1>11. SeenInv(c)'
  BY <1>8, <1>9, <1>10, SeenKept DEF CallInv
<1>12. Recorded(call[c].file, call[c].start, call[c].reads)'
  BY <1>4, <1>5, <1>8, <1>9, <1>10 DEF Recorded, indexVars
<1>13. ReadInv(c)'
  BY <1>4, <1>8, <1>9, <1>10, <1>12 DEF CallInv, ReadInv, Reads
<1>14. CommitInv(c)'
  BY <1>8, <1>9, <1>10 DEF CallInv, CommitInv, Reads
<1> QED  BY <1>7, <1>8, <1>11, <1>13, <1>14 DEF CallMoves, CallInv

LEMMA MissCall ==
  ASSUME TypeOK, NEW c \in Calls, CallInv(c), CacheMiss(c)
  PROVE  CallMoves(c)
<1> DEFINE r == [call[c] EXCEPT !.pc = "handler"]
<1>1. call[c] \in CallStates
  BY DEF TypeOK
<1>2. call' = [call EXCEPT ![c] = r]
  BY DEF CacheMiss, Goto, TypeOK
<1>3. /\ r \in CallStates
      /\ r.pc = "handler" /\ r.start = call[c].start /\ r.tool = call[c].tool
      /\ r.file = call[c].file
      /\ r.reads = call[c].reads /\ r.runs = call[c].runs /\ r.committed = call[c].committed
  BY <1>1 DEF CallStates
<1> HIDE DEF r
<1>4. call'[c] = r
  BY <1>2, <1>3, CallUpdate
<1>5. UNCHANGED <<indexVars, seen>> /\ call[c].pc = "lookup"
  BY DEF CacheMiss
<1>6. SeenInv(c)'
  BY <1>3, <1>4, <1>5, SeenKept DEF CallInv
<1>7. Recorded(call[c].file, call[c].start, call[c].reads)
          => Recorded(call[c].file, call[c].start, call[c].reads)'
  BY <1>3, <1>4, <1>5 DEF Recorded, indexVars
<1>8. ReadInv(c)'
  BY <1>3, <1>4, <1>5, <1>7 DEF CallInv, ReadInv, Reads
<1>9. CommitInv(c)'
  BY <1>3, <1>4, <1>5 DEF CallInv, CommitInv, Reads
<1> QED  BY <1>2, <1>3, <1>6, <1>8, <1>9 DEF CallMoves, CallInv

LEMMA RejectCall ==
  ASSUME TypeOK, NEW c \in Calls, CallInv(c), RejectHit(c)
  PROVE  CallMoves(c)
<1> DEFINE r == [call[c] EXCEPT !.pc = "handler", !.reads = {}]
<1>1. call[c] \in CallStates
  BY DEF TypeOK
<1>2. call' = [call EXCEPT ![c] = r]
  BY DEF RejectHit, TypeOK
<1>3. /\ r \in CallStates
      /\ r.pc = "handler" /\ r.start = call[c].start /\ r.tool = call[c].tool
      /\ r.file = call[c].file
      /\ r.reads = {} /\ r.runs = call[c].runs /\ r.committed = call[c].committed
  BY <1>1 DEF CallStates
<1> HIDE DEF r
<1>4. call'[c] = r
  BY <1>2, <1>3, CallUpdate
<1>5. UNCHANGED <<indexVars, seen>> /\ call[c].pc = "hit"
  BY DEF RejectHit
<1>6. SeenInv(c)'
  BY <1>3, <1>4, <1>5, SeenKept DEF CallInv
<1>7. Recorded(call[c].file, call[c].start, call[c].reads)
          => Recorded(call[c].file, call[c].start, call[c].reads)'
  BY <1>3, <1>4, <1>5 DEF Recorded, indexVars
<1>8. ReadInv(c)'
  BY <1>3, <1>4, <1>5, <1>7 DEF CallInv, ReadInv, Reads
<1>9. CommitInv(c)'
  BY <1>3, <1>4, <1>5 DEF CallInv, CommitInv, Reads
<1> QED  BY <1>2, <1>3, <1>6, <1>8, <1>9 DEF CallMoves, CallInv

LEMMA ReadCall ==
  ASSUME TypeOK, NEW c \in Calls, CallInv(c), HandlerRead(c)
  PROVE  CallMoves(c)
<1> DEFINE R == call[c].reads \cup {disk[call[c].file].rows}
           r == [call[c] EXCEPT !.reads = R]
<1>1. call[c] \in CallStates
  BY DEF TypeOK
<1>2. R \in SUBSET (0..MaxWrites)
  <2>1. call[c].file \in Files /\ call[c].reads \in SUBSET (0..MaxWrites)
    BY <1>1 DEF CallStates
  <2>2. disk[call[c].file].rows \in 0..MaxWrites
    BY <2>1 DEF TypeOK, Contents
  <2> QED  BY <2>1, <2>2
<1>3. call' = [call EXCEPT ![c] = r]
  BY DEF HandlerRead, TypeOK
<1> HIDE DEF R
<1>4. /\ r \in CallStates
      /\ r.pc = call[c].pc /\ r.start = call[c].start /\ r.tool = call[c].tool
      /\ r.file = call[c].file
      /\ r.reads = R /\ r.runs = call[c].runs /\ r.committed = call[c].committed
  BY <1>1, <1>2 DEF CallStates
<1> HIDE DEF r
<1>5. call'[c] = r
  BY <1>3, <1>4, CallUpdate
<1>6. UNCHANGED <<indexVars, seen>> /\ call[c].pc = "handler"
  BY DEF HandlerRead
<1>7. SeenInv(c)'
  BY <1>4, <1>5, <1>6, SeenKept DEF CallInv
<1>8. Recorded(call[c].file, call[c].start, call[c].reads)
          => Recorded(call[c].file, call[c].start, call[c].reads)'
  BY <1>4, <1>5, <1>6 DEF Recorded, indexVars, R
<1>9. ReadInv(c)'
  BY <1>4, <1>5, <1>6, <1>8 DEF CallInv, ReadInv, Reads
<1>10. CommitInv(c)'
  BY <1>4, <1>5, <1>6 DEF CallInv, CommitInv, Reads
<1> QED  BY <1>3, <1>4, <1>7, <1>9, <1>10 DEF CallMoves, CallInv

LEMMA CommitCall ==
  ASSUME TypeOK, DiskInv, NEW c \in Calls, CallInv(c), HandlerSaves(c) \/ HandlerRefreshes(c)
  PROVE  CallMoves(c) /\ WriteStep
<1>1. WriteStep
  <2>1. Wrote
    BY DEF HandlerSaves, HandlerRefreshes, Wrote
  <2> QED  BY <2>1, WroteMoves
<1>2. call[c] \in CallStates
  BY DEF TypeOK
<1>3. PICK r \in CallStates :
          /\ call' = [call EXCEPT ![c] = r]
          /\ r.pc \in {"invalidate", "handler"} /\ r.tool = call[c].tool /\ r.tool \notin ReadOnly
          /\ r.runs = call[c].runs
  <2>1. CASE HandlerSaves(c)
    <3> DEFINE r == [call[c] EXCEPT !.committed = TRUE, !.pc = "invalidate"]
    <3>1. call' = [call EXCEPT ![c] = r]
      BY <2>1 DEF HandlerSaves, TypeOK
    <3>2. r \in CallStates
      BY <1>2 DEF CallStates
    <3>3. r.pc = "invalidate" /\ r.tool = call[c].tool /\ r.runs = call[c].runs
      BY <1>2 DEF CallStates
    <3>4. call[c].tool \notin ReadOnly
      BY <2>1 DEF HandlerSaves, ReadOnly
    <3> HIDE DEF r
    <3> QED  BY <3>1, <3>2, <3>3, <3>4
  <2>2. CASE HandlerRefreshes(c)
    <3> DEFINE r == [call[c] EXCEPT !.committed = TRUE]
    <3>1. call' = [call EXCEPT ![c] = r]
      BY <2>2 DEF HandlerRefreshes, TypeOK
    <3>2. r \in CallStates
      BY <1>2 DEF CallStates
    <3>3. r.pc = "handler" /\ r.tool = call[c].tool /\ r.runs = call[c].runs
      BY <1>2, <2>2 DEF CallStates, HandlerRefreshes
    <3>4. call[c].tool \notin ReadOnly
      BY <2>2 DEF HandlerRefreshes, ReadOnly
    <3> HIDE DEF r
    <3> QED  BY <3>1, <3>2, <3>3, <3>4
  <2> QED  BY <2>1, <2>2
<1>4. call'[c] = r
  BY <1>3, CallUpdate
<1>5. seen[c] = {}
  BY <1>3 DEF CallInv, SeenInv, Reads
<1>6. seen'[c] = {}
  BY <1>1, <1>5 DEF WriteStep, WriteOf, Observe
<1>7. SeenInv(c)'
  BY <1>3, <1>4, <1>6 DEF SeenInv, Reads
<1>8. ReadInv(c)'
  BY <1>3, <1>4 DEF ReadInv, Reads
<1>9. CommitInv(c)'
  BY <1>3, <1>4 DEF CallInv, CommitInv, Reads
<1> QED  BY <1>1, <1>3, <1>7, <1>8, <1>9 DEF CallMoves, CallInv

LEMMA InvalidateCall ==
  ASSUME TypeOK, NEW c \in Calls, CallInv(c), Invalidate(c)
  PROVE  CallMoves(c)
<1> DEFINE r == [call[c] EXCEPT !.pc = "handler"]
<1>1. call[c] \in CallStates
  BY DEF TypeOK
<1>2. call' = [call EXCEPT ![c] = r]
  BY DEF Invalidate, Goto, TypeOK
<1>3. /\ r \in CallStates
      /\ r.pc = "handler" /\ r.start = call[c].start /\ r.tool = call[c].tool
      /\ r.file = call[c].file
      /\ r.reads = call[c].reads /\ r.runs = call[c].runs /\ r.committed = call[c].committed
  BY <1>1 DEF CallStates
<1> HIDE DEF r
<1>4. call'[c] = r
  BY <1>2, <1>3, CallUpdate
<1>5. UNCHANGED <<indexVars, seen>> /\ call[c].pc = "invalidate"
  BY DEF Invalidate
<1>6. SeenInv(c)'
  BY <1>3, <1>4, <1>5, SeenKept DEF CallInv
<1>7. Recorded(call[c].file, call[c].start, call[c].reads)
          => Recorded(call[c].file, call[c].start, call[c].reads)'
  BY <1>3, <1>4, <1>5 DEF Recorded, indexVars
<1>8. ReadInv(c)'
  BY <1>3, <1>4, <1>5, <1>7 DEF CallInv, ReadInv, Reads
<1>9. CommitInv(c)'
  BY <1>3, <1>4, <1>5 DEF CallInv, CommitInv, Reads
<1> QED  BY <1>2, <1>3, <1>6, <1>8, <1>9 DEF CallMoves, CallInv

\* What is read under an unchanged state is shown as the file's content of now.
LEMMA ShownSeen ==
  ASSUME TypeOK, DiskInv, NEW c \in Calls, CallInv(c), Reads(c),
         call[c].pc \in {"hit", "handler"}, call[c].reads # {},
         NEW s \in Readings(c), s.status = "ready", ~indexStateChanged(call[c].start, s)
  PROVE  Shown(c, s) = <<call[c].file, disk[call[c].file]>> /\ Shown(c, s) \in seen[c]
<1> DEFINE f == call[c].file
<1>1. f \in Files
  BY DEF TypeOK, CallStates
<1>2. s = IndexState(disk[f])
  BY ReadingTypes
<1>3. /\ s.status = disk[f].status /\ s.gen = disk[f].gen
      /\ s.rev = disk[f].rev /\ s.base = disk[f].base
  BY <1>2 DEF IndexState
<1>4. call[c].start.status = "ready"
  BY DEF indexStateChanged
<1>5. Recorded(f, call[c].start, call[c].reads)
  BY <1>4 DEF CallInv, ReadInv
<1>6. ~indexStateChanged(call[c].start, IndexState(disk[f]))
  BY <1>2
<1>7. [status |-> disk[f].status, gen |-> disk[f].gen, rev |-> disk[f].rev,
       base |-> disk[f].base, rows |-> OneOf(call[c].reads)] = disk[f]
  BY <1>1, <1>3, <1>5, <1>6, ShownIsCurrent
<1>8. Shown(c, s) = <<f, disk[f]>>
  BY <1>3, <1>7 DEF Shown
<1>9. <<f, disk[f]>> \in seen[c]
  BY DEF CallInv, SeenInv
<1> QED  BY <1>8, <1>9

\* The second reading of the state ends a run.
LEMMA EncodeCall ==
  ASSUME TypeOK, DiskInv, NEW c \in Calls, CallInv(c), Returned(c), NEW s \in Readings(c),
         Proceed(c, s) \/ ProceedAfterRetry(c, s)
  PROVE  CallMoves(c)
<1> DEFINE r == [call[c] EXCEPT !.after = s, !.pc = "encode"]
<1>1. call[c] \in CallStates /\ s \in PublishedStates
  BY ReadingTypes DEF TypeOK
<1>2. call' = [call EXCEPT ![c] = r]
  BY DEF Proceed, ProceedAfterRetry, TypeOK
<1>3. /\ r \in CallStates
      /\ r.pc = "encode" /\ r.start = call[c].start /\ r.tool = call[c].tool
      /\ r.file = call[c].file /\ r.after = s
      /\ r.reads = call[c].reads /\ r.runs = call[c].runs /\ r.committed = call[c].committed
  BY <1>1 DEF CallStates
<1> HIDE DEF r
<1>4. call'[c] = r
  BY <1>2, <1>3, CallUpdate
<1>5. UNCHANGED <<indexVars, seen>>
  BY DEF Proceed, ProceedAfterRetry
<1>6. call[c].pc = "handler" /\ (Reads(c) => call[c].reads # {})
  BY DEF Returned
<1>7. SeenInv(c)'
  BY <1>3, <1>4, <1>5, <1>6, SeenKept DEF CallInv
<1>8. Recorded(call[c].file, call[c].start, call[c].reads)
          => Recorded(call[c].file, call[c].start, call[c].reads)'
  BY <1>3, <1>4, <1>5 DEF Recorded, indexVars
<1>9. ASSUME Reads(c), call[c].start # Unknown, s.status = "ready"
      PROVE  Shown(c, s) \in seen[c]
  <2>1. s # Unknown
    BY <1>9, ReadingTypes
  <2>2. ~indexStateChanged(call[c].start, s)
    <3>1. ~OwnsItsChange(c)
      BY <1>9 DEF OwnsItsChange, Reads, ReadOnly, CallInv, CommitInv
    <3> QED  BY <1>9, <2>1, <3>1 DEF Proceed, ProceedAfterRetry, MustReact, SecondRunStands
  <2> QED  BY <1>6, <1>9, <2>2, ShownSeen
<1>10. Shown(c, call[c].after)' = Shown(c, s)
  BY <1>3, <1>4 DEF Shown
<1>11. ReadInv(c)'
  <2>1. Reads(c)' => Reads(c)
    BY <1>3, <1>4 DEF Reads
  <2>2. Certified(c)' => call[c].start # Unknown /\ s.status = "ready"
    BY <1>3, <1>4 DEF Certified
  <2>3. Reads(c)' /\ Certified(c)' => Shown(c, call[c].after)' \in seen'[c]
    BY <1>5, <1>9, <1>10, <2>1, <2>2
  <2> QED  BY <1>3, <1>4, <1>6, <1>8, <2>1, <2>3 DEF CallInv, ReadInv
<1>12. CommitInv(c)'
  BY <1>3, <1>4, <1>6 DEF CallInv, CommitInv, Reads
<1> QED  BY <1>2, <1>3, <1>7, <1>11, <1>12 DEF CallMoves, CallInv

LEMMA RetryCall ==
  ASSUME TypeOK, DiskInv, NEW c \in Calls, CallInv(c), call[c].pc = "handler",
         NEW s \in Readings(c), Retry(c, s)
  PROVE  CallMoves(c)
<1> DEFINE r == [call[c] EXCEPT !.start = s, !.reads = {}, !.runs = 1]
<1>1. call[c] \in CallStates /\ s \in PublishedStates
  BY ReadingTypes DEF TypeOK
<1>2. call' = [call EXCEPT ![c] = r]
  BY DEF Retry, TypeOK
<1>3. /\ r \in CallStates
      /\ r.pc = call[c].pc /\ r.start = s /\ r.tool = call[c].tool
      /\ r.file = call[c].file
      /\ r.reads = {} /\ r.runs = 1 /\ r.committed = call[c].committed
  <2> DEFINE r1 == [call[c] EXCEPT !.start = s, !.reads = {}]
  <2>1. /\ r1 \in CallStates
        /\ r1.pc = call[c].pc /\ r1.start = s /\ r1.tool = call[c].tool
        /\ r1.file = call[c].file /\ r1.reads = {} /\ r1.committed = call[c].committed
    BY <1>1 DEF CallStates
  <2>2. r = [r1 EXCEPT !.runs = 1]
    BY Zenon
  <2> HIDE DEF r, r1
  <2> QED  BY <2>1, <2>2 DEF CallStates
<1> HIDE DEF r
<1>4. call'[c] = r
  BY <1>2, <1>3, CallUpdate
<1>5. UNCHANGED <<indexVars, seen>> /\ Reads(c)
  BY DEF Retry
<1>6. SeenInv(c)'
  BY <1>3, <1>4, <1>5, SeenKept DEF CallInv
<1>7. s.status = "ready" => Recorded(call[c].file, call[c].start, call[c].reads)'
  <2>1. s.status = "ready" => Recorded(call[c].file, s, {})
    BY StartRecorded
  <2> QED  BY <1>3, <1>4, <1>5, <2>1 DEF Recorded, indexVars
<1>8. ReadInv(c)'
  <2>1. call'[c].pc = "handler" /\ call'[c].start = s
    BY <1>3, <1>4
  <2> QED  BY <1>7, <2>1 DEF ReadInv
<1>9. CommitInv(c)'
  BY <1>3, <1>4, <1>5 DEF CallInv, CommitInv, Reads
<1> QED  BY <1>2, <1>3, <1>6, <1>8, <1>9 DEF CallMoves, CallInv

-----------------------------------------------------------------------------
(***************************************************************************)
(* Every step of a call.                                                   *)
(***************************************************************************)
AnswerTypes ==
    [reply : {"none", "ok", "error", "retry"}, committed : BOOLEAN,
     shown : {<<>>} \cup (Files \X Contents)]

SeenTypes == [Calls -> SUBSET (Files \X Contents)]

\* What the others notice of a step of c: nothing, or a change of a file.
SeenMoves(c) ==
    /\ seen' \in SeenTypes
    /\ \/ UNCHANGED indexVars /\ \A x \in Calls : x # c => seen'[x] = seen[x]
       \/ WriteStep

AnswerMoves ==
    /\ answer' \in AnswerTypes
    /\ answer'.committed => answer'.reply # "retry"

CacheMoves ==
    /\ CacheOK(lru', curBytes')
    /\ \A e \in Range(lru') :
           e \in Range(lru) \/ (e.reads # {} /\ Recorded(e.key.file, e.key, e.reads))

LEMMA CacheUnchanged ==
  ASSUME TypeOK, BytesExact, UNCHANGED cacheVars
  PROVE  CacheMoves
<1>1. CacheOK(lru, curBytes)
  BY DEF TypeOK, BytesExact, CacheOK, UniqueKeys, Entries
<1> QED  BY <1>1 DEF CacheMoves, CacheOK, cacheVars

LEMMA SeenAfterWrite ==
  ASSUME TypeOK, WriteStep
  PROVE  seen' \in SeenTypes
<1>1. PICK f \in Files, e \in Contents : WriteOf(f, e)
  BY DEF WriteStep
<1>2. disk' \in [Files -> Contents]
  BY <1>1 DEF TypeOK, WriteOf
<1>3. \A c \in Calls : call[c].file \in Files /\ seen[c] \in SUBSET (Files \X Contents)
  BY DEF TypeOK, CallStates
<1>4. ASSUME NEW c \in Calls
      PROVE  (IF seen[c] = {} THEN {} ELSE seen[c] \cup {<<call[c].file, disk'[call[c].file]>>})
                 \in SUBSET (Files \X Contents)
  BY <1>2, <1>3
<1> QED  BY <1>1, <1>4 DEF WriteOf, Observe, SeenTypes

LEMMA SeenUnchanged ==
  ASSUME TypeOK, NEW c \in Calls, UNCHANGED <<indexVars, seen>>
  PROVE  SeenMoves(c)
<1> QED  BY DEF TypeOK, SeenMoves, SeenTypes

LEMMA NoAnswerMoves ==
  ASSUME answer' = NoAnswer
  PROVE  AnswerMoves
<1> QED  BY DEF AnswerMoves, AnswerTypes, NoAnswer

LEMMA AnswerOutcome ==
  ASSUME TypeOK, NEW c \in Calls, NEW reply \in {"ok", "error", "retry"},
         NEW shown \in {<<>>} \cup (Files \X Contents), Answer(c, reply, shown),
         reply = "retry" => ~call[c].committed
  PROVE  CallMoves(c) /\ SeenMoves(c) /\ AnswerMoves
<1>1. CallMoves(c)
  BY AnswerCall
<1>2. SeenMoves(c)
  BY DEF Answer, SeenMoves, SeenTypes, TypeOK
<1>3. AnswerMoves
  <2>1. call[c].committed \in BOOLEAN
    BY DEF TypeOK, CallStates
  <2>2. answer' = [reply |-> reply, committed |-> call[c].committed, shown |-> shown]
    BY DEF Answer
  <2> QED  BY <2>1, <2>2 DEF AnswerMoves, AnswerTypes
<1> QED  BY <1>1, <1>2, <1>3

LEMMA ShownType ==
  ASSUME TypeOK, NEW c \in Calls, NEW s \in PublishedStates
  PROVE  Shown(c, s) \in Files \X Contents
<1>1. call[c].file \in Files /\ call[c].reads \in SUBSET (0..MaxWrites)
  BY DEF TypeOK, CallStates
<1>2. OneOf(call[c].reads) \in 0..MaxWrites
  BY <1>1, OneOfType
<1> QED  BY <1>1, <1>2 DEF Shown, PublishedStates, Contents

\* A result is cached with what was read under the state of its key.
LEMMA ReplyCache ==
  ASSUME TypeOK, EntriesInv, BytesExact, NEW c \in Calls, CallInv(c), Reply(c)
  PROVE  CacheMoves
<1>1. CASE ~CacheEligible(c)
  BY <1>1, CacheUnchanged DEF Reply
<1>2. CASE CacheEligible(c)
  <2> DEFINE k == CallKey(c, call[c].after)
             e == [key |-> k, reads |-> call[c].reads, size |-> Size[call[c].tool]]
  <2>1. call[c] \in CallStates /\ call[c].pc = "encode"
    BY DEF TypeOK, Reply
  <2>2. put(e)
    BY <1>2 DEF Reply
  <2>3. call[c].tool \in Tools /\ Reads(c)
    BY <1>2, <2>1 DEF CacheEligible, CallStates, Reads, ReadOnly
  <2>4. /\ call[c].start.status = "ready"
        /\ call[c].start.gen = call[c].after.gen /\ call[c].start.rev = call[c].after.rev
        /\ call[c].start.base = call[c].after.base
    BY <1>2 DEF CacheEligible, CacheableTransition, indexStateChanged
  <2>5. k \in Keys /\ k.file = call[c].file /\ k.gen = call[c].after.gen
        /\ k.rev = call[c].after.rev /\ k.base = call[c].after.base
    BY <2>1, <2>3 DEF CallKey, toolCacheKey, Keys, CallStates, PublishedStates
  <2>6. call[c].reads # {} /\ Recorded(call[c].file, call[c].start, call[c].reads)
    BY <2>1, <2>3, <2>4 DEF CallInv, ReadInv
  <2> HIDE DEF k
  <2>7. Recorded(k.file, k, call[c].reads)
    BY <2>4, <2>5, <2>6 DEF Recorded
  <2>8. e.size \in Nat /\ (e.size <= MaxEntry => e \in Entries)
    BY <2>1, <2>3, <2>5, RuntimeAssumption DEF Entries, CallStates
  <2>9. e.key = k /\ e.reads = call[c].reads
    OBVIOUS
  <2>10. CacheOK(lru, curBytes)
    BY DEF TypeOK, BytesExact, CacheOK, UniqueKeys, Entries
  <2> HIDE DEF e
  <2>11. CacheOK(lru', curBytes') /\ Range(lru') \subseteq Range(lru) \cup {e}
    BY <2>2, <2>8, <2>10, PutStep
  <2> QED  BY <2>6, <2>7, <2>9, <2>11 DEF CacheMoves
<1> QED  BY <1>1, <1>2

LEMMA CallStep ==
  ASSUME TypeOK, DiskInv, EntriesInv, BytesExact, NEW c \in Calls, CallInv(c), Step(c)
  PROVE  IndexStep /\ CallMoves(c) /\ SeenMoves(c) /\ AnswerMoves /\ CacheMoves
<1>1. ASSUME NEW tool \in Tools, Begin(c, tool)
      PROVE  IndexStep /\ CallMoves(c) /\ SeenMoves(c) /\ AnswerMoves /\ CacheMoves
  <2>1. <<pointer, disk[pointer]>> \in Files \X Contents
    BY DEF TypeOK
  <2>2. SeenMoves(c)
    BY <1>1, <2>1 DEF Begin, SeenMoves, SeenTypes, TypeOK
  <2> QED  BY <1>1, <2>2, BeginCall, NoAnswerMoves, CacheUnchanged DEF Begin, IndexStep
<1>2. CASE ReadBefore(c)
  <2>1. PICK s \in Readings(c) : RefuseUnready(c, s) \/ AdmitReady(c, s)
    BY <1>2 DEF ReadBefore
  <2>2. CASE RefuseUnready(c, s)
    <3>1. Answer(c, "error", <<>>) /\ UNCHANGED cacheVars
      BY <2>2 DEF RefuseUnready, Refuse
    <3> QED  BY <3>1, AnswerOutcome, CacheUnchanged DEF Answer, IndexStep
  <2>3. CASE AdmitReady(c, s)
    <3>1. CallMoves(c)
      BY <1>2, <2>3, AdmitCall DEF ReadBefore
    <3> QED  BY <2>3, <3>1, SeenUnchanged, NoAnswerMoves, CacheUnchanged DEF AdmitReady, IndexStep
  <2> QED  BY <2>1, <2>2, <2>3
<1>3. CASE CacheHit(c)
  <2>1. PICK i \in DOMAIN lru : Touch(i) /\ UNCHANGED curBytes
    BY <1>3 DEF CacheHit, EntryAt
  <2>2. CacheOK(lru, curBytes)
    BY DEF TypeOK, BytesExact, CacheOK, UniqueKeys, Entries
  <2>3. CacheMoves
    BY <2>1, <2>2, TouchStep DEF CacheMoves
  <2> QED  BY <1>3, <2>3, HitCall, SeenUnchanged, NoAnswerMoves DEF CacheHit, IndexStep
<1>4. CASE CacheMiss(c)
  BY <1>4, MissCall, SeenUnchanged, NoAnswerMoves, CacheUnchanged DEF CacheMiss, IndexStep
<1>5. CASE AcceptHit(c)
  <2>1. PICK s \in Readings(c) : Answer(c, "ok", Shown(c, s)) /\ UNCHANGED cacheVars
    BY <1>5 DEF AcceptHit
  <2>2. Shown(c, s) \in {<<>>} \cup (Files \X Contents)
    BY ReadingTypes, ShownType
  <2> QED  BY <2>1, <2>2, AnswerOutcome, CacheUnchanged DEF Answer, IndexStep
<1>6. CASE RejectHit(c)
  BY <1>6, RejectCall, SeenUnchanged, NoAnswerMoves, CacheUnchanged DEF RejectHit, IndexStep
<1>7. CASE HandlerRead(c)
  BY <1>7, ReadCall, SeenUnchanged, NoAnswerMoves, CacheUnchanged DEF HandlerRead, IndexStep
<1>8. CASE HandlerFails(c)
  <2>1. Answer(c, "error", <<>>) /\ UNCHANGED cacheVars
    BY <1>8 DEF HandlerFails, Refuse
  <2> QED  BY <2>1, AnswerOutcome, CacheUnchanged DEF Answer, IndexStep
<1>9. CASE HandlerSaves(c) \/ HandlerRefreshes(c)
  <2>1. CallMoves(c) /\ WriteStep
    BY <1>9, CommitCall
  <2>2. SeenMoves(c)
    BY <2>1, SeenAfterWrite DEF SeenMoves
  <2>3. answer' = NoAnswer /\ UNCHANGED cacheVars
    BY <1>9 DEF HandlerSaves, HandlerRefreshes
  <2> QED  BY <2>1, <2>2, <2>3, NoAnswerMoves, CacheUnchanged DEF IndexStep
<1>10. CASE Invalidate(c)
  <2>1. CacheOK(lru, curBytes)
    BY DEF TypeOK, BytesExact, CacheOK, UniqueKeys, Entries
  <2>2. CacheOK(lru', curBytes') /\ Range(lru') \subseteq Range(lru)
    BY <1>10, <2>1, InvalidateStep DEF Invalidate
  <2>3. CacheMoves
    BY <2>2 DEF CacheMoves
  <2> QED  BY <1>10, <2>3, InvalidateCall, SeenUnchanged, NoAnswerMoves DEF Invalidate, IndexStep
<1>11. CASE ReadAfter(c)
  <2>1. PICK s \in Readings(c) :
            \/ Proceed(c, s) \/ ReportPublishing(c, s) \/ ReportConflict(c, s)
            \/ Retry(c, s) \/ ProceedAfterRetry(c, s) \/ RefuseAfterRetry(c, s)
    BY <1>11 DEF ReadAfter
  <2>2. Returned(c) /\ call[c].pc = "handler"
    BY <1>11 DEF ReadAfter, Returned
  <2>3. CASE Proceed(c, s) \/ ProceedAfterRetry(c, s)
    <3>1. CallMoves(c)
      BY <2>2, <2>3, EncodeCall
    <3>2. answer' = NoAnswer /\ UNCHANGED <<indexVars, cacheVars, seen>>
      BY <2>3 DEF Proceed, ProceedAfterRetry
    <3> QED  BY <3>1, <3>2, SeenUnchanged, NoAnswerMoves, CacheUnchanged DEF IndexStep
  <2>4. CASE Retry(c, s)
    <3>1. CallMoves(c)
      BY <2>2, <2>4, RetryCall
    <3> QED  BY <2>4, <3>1, SeenUnchanged, NoAnswerMoves, CacheUnchanged DEF Retry, IndexStep
  <2>5. CASE ReportPublishing(c, s) \/ ReportConflict(c, s) \/ RefuseAfterRetry(c, s)
    <3>1. Answer(c, "retry", <<>>) /\ UNCHANGED cacheVars
      BY <2>5 DEF ReportPublishing, ReportConflict, RefuseAfterRetry, Refuse
    <3>2. ~call[c].committed
      BY <2>5 DEF ReportPublishing, ReportConflict, RefuseAfterRetry, MustReact, OwnsItsChange,
                  CallInv, CommitInv
    <3> QED  BY <3>1, <3>2, AnswerOutcome, CacheUnchanged DEF Answer, IndexStep
  <2> QED  BY <2>1, <2>3, <2>4, <2>5
<1>12. CASE Reply(c)
  <2> DEFINE shown == IF Reads(c) /\ Certified(c) THEN Shown(c, call[c].after) ELSE <<>>
  <2>1. Answer(c, "ok", shown)
    BY <1>12 DEF Reply
  <2>2. shown \in {<<>>} \cup (Files \X Contents)
    <3>1. call[c].after \in PublishedStates
      BY DEF TypeOK, CallStates
    <3> QED  BY <3>1, ShownType
  <2> HIDE DEF shown
  <2>3. CacheMoves
    BY <1>12, ReplyCache
  <2> QED  BY <2>1, <2>2, <2>3, AnswerOutcome DEF Answer, IndexStep
<1>13. CASE ReplyTooLarge(c)
  <2>1. Answer(c, "error", <<>>) /\ UNCHANGED cacheVars
    BY <1>13 DEF ReplyTooLarge, Refuse
  <2> QED  BY <2>1, AnswerOutcome, CacheUnchanged DEF Answer, IndexStep
<1> QED  BY <1>1, <1>2, <1>3, <1>4, <1>5, <1>6, <1>7, <1>8, <1>9, <1>10, <1>11, <1>12, <1>13
         DEF Step

LEMMA WriterStep ==
  ASSUME TypeOK, DiskInv, Writer
  PROVE  WriteStep /\ answer' = NoAnswer /\ UNCHANGED <<call, cacheVars>>
<1>1. Wrote
  BY DEF Writer, Wrote
<1> QED  BY <1>1, WroteMoves DEF Writer

-----------------------------------------------------------------------------
(***************************************************************************)
(* The invariant is inductive.                                             *)
(***************************************************************************)
LEMMA InitIInv == Init => IInv
<1> SUFFICES ASSUME Init
             PROVE  IInv
  OBVIOUS
<1>1. disk \in [Files -> Contents] /\ DiskInv
  BY RuntimeAssumption DEF Init, Contents, Statuses, DiskInv, Absent
<1>2. call \in [Calls -> CallStates] /\ \A c \in Calls : call[c] = Idle /\ seen[c] = {}
  BY IdleType DEF Init
<1>3. \A c \in Calls : call[c].pc = "idle" /\ call[c].committed = FALSE /\ call[c].runs = 0
  BY <1>2 DEF Idle
<1>4. Range(lru) = {}
  BY DEF Init, Range
<1>5. curBytes = SizeSum(Range(lru)) /\ curBytes = 0
  BY <1>4, SizeSumOfNone, Zenon DEF Init
<1>6. TypeOK
  <2>1. pointer \in Files /\ scanning \in BOOLEAN /\ writes \in 1..MaxWrites
    <3>1. 1 \in 1..MaxWrites /\ Anchor \in Files
      BY RuntimeAssumption
    <3> QED  BY <3>1 DEF Init
  <2>2. lru \in Seq([key : Keys, reads : SUBSET (0..MaxWrites), size : 0..MaxEntry])
    BY EmptySeq DEF Init
  <2>3. answer \in [reply : {"none", "ok", "error", "retry"}, committed : BOOLEAN,
                    shown : {<<>>} \cup (Files \X Contents)]
    BY DEF Init, NoAnswer
  <2>4. seen \in [Calls -> SUBSET (Files \X Contents)] /\ curBytes \in Nat
    BY DEF Init
  <2> QED  BY <1>1, <1>2, <2>1, <2>2, <2>3, <2>4 DEF TypeOK
<1>7. EntriesInv
  BY <1>4 DEF EntriesInv
<1>8. BytesExact
  BY <1>5, RuntimeAssumption DEF BytesExact, Init
<1>9. \A c \in Calls : SeenInv(c) /\ ReadInv(c) /\ CommitInv(c)
  BY <1>2, <1>3 DEF SeenInv, ReadInv, CommitInv
<1>10. AnswerInv
  BY DEF AnswerInv, Init, NoAnswer
<1> QED  BY <1>1, <1>6, <1>7, <1>8, <1>9, <1>10 DEF IInv

\* What the new state needs is what the lemmas about steps conclude.
LEMMA Together ==
  ASSUME IInv, IndexStep, call' \in [Calls -> CallStates], seen' \in SeenTypes,
         \A c \in Calls : CallInv(c)',
         AnswerMoves, CacheMoves
  PROVE  IInv'
<1>1. IndexTypeOK' /\ DiskInv'
  BY IndexStepTypes, DiskStep DEF IInv
<1>2. TypeOK'
  BY <1>1 DEF TypeOK, IndexTypeOK, CacheMoves, CacheOK, Entries, AnswerMoves, AnswerTypes, SeenTypes
<1>3. EntriesInv'
  <2> SUFFICES ASSUME NEW e \in Range(lru')
               PROVE  e.reads # {} /\ Recorded(e.key.file, e.key, e.reads)'
    BY DEF EntriesInv
  <2>1. e.reads # {} /\ Recorded(e.key.file, e.key, e.reads)
    BY DEF CacheMoves, IInv, EntriesInv
  <2>2. e \in Entries
    BY EntriesSize DEF CacheMoves, CacheOK
  <2>3. e.key.file \in Files /\ e.key.gen \in Nat /\ e.key.rev \in Nat /\ e.key.base \in Nat
    BY <2>2 DEF Entries, Keys
  <2> QED  BY <2>1, <2>3, RecordedStep DEF IInv
<1>4. BytesExact'
  BY DEF CacheMoves, CacheOK, UniqueKeys, BytesExact
<1>5. AnswerInv'
  BY DEF AnswerMoves, AnswerInv
<1> QED  BY <1>1, <1>2, <1>3, <1>4, <1>5 DEF IInv, CallInv

LEMMA NextIInv == IInv /\ [Next]_vars => IInv'
<1> SUFFICES ASSUME IInv, [Next]_vars
             PROVE  IInv'
  OBVIOUS
<1>1. TypeOK /\ DiskInv /\ EntriesInv /\ BytesExact /\ \A c \in Calls : CallInv(c)
  BY DEF IInv, CallInv
<1>2. ASSUME NEW c \in Calls, Step(c)
      PROVE  IInv'
  <2>1. IndexStep /\ CallMoves(c) /\ SeenMoves(c) /\ AnswerMoves /\ CacheMoves
    BY <1>1, <1>2, CallStep
  <2>2. /\ call' \in [Calls -> CallStates]
        /\ \A x \in Calls : x # c => call'[x] = call[x]
    BY <1>1, <2>1, CallUpdate DEF CallMoves
  <2>3. ASSUME NEW x \in Calls
        PROVE  CallInv(x)'
    <3>1. CASE x = c
      BY <2>1, <3>1 DEF CallMoves
    <3>2. CASE x # c
      BY <1>1, <2>1, <2>2, <3>2, OtherCall DEF SeenMoves
    <3> QED  BY <3>1, <3>2
  <2> QED  BY <2>1, <2>2, <2>3, Together DEF SeenMoves
<1>3. CASE Writer
  <2>1. WriteStep /\ answer' = NoAnswer /\ UNCHANGED <<call, cacheVars>>
    BY <1>1, <1>3, WriterStep
  <2>2. AnswerMoves /\ CacheMoves /\ seen' \in SeenTypes
    BY <1>1, <2>1, NoAnswerMoves, CacheUnchanged, SeenAfterWrite
  <2>3. \A x \in Calls : CallInv(x)'
    BY <1>1, <2>1, OtherCall
  <2>4. call' \in [Calls -> CallStates]
    BY <1>1, <2>1 DEF TypeOK
  <2> QED  BY <2>1, <2>2, <2>3, <2>4, Together DEF IndexStep
<1>4. CASE UNCHANGED vars
  <2>1. UNCHANGED <<indexVars, seen, call, cacheVars, answer>>
    BY <1>4 DEF vars, indexVars, cacheVars
  <2>2. \A x \in Calls : CallInv(x)'
    BY <1>1, <2>1, OtherCall
  <2>3. AnswerMoves
    BY <1>1, <2>1 DEF AnswerMoves, AnswerTypes, IInv, AnswerInv, TypeOK
  <2>4. call' \in [Calls -> CallStates] /\ seen' \in SeenTypes
    BY <1>1, <2>1 DEF TypeOK, SeenTypes
  <2>5. CacheMoves
    BY <1>1, <2>1, CacheUnchanged
  <2> QED  BY <2>1, <2>2, <2>3, <2>4, <2>5, Together DEF IndexStep
<1> QED  BY <1>2, <1>3, <1>4 DEF Next

\* The invariant that the theorems below rest on: an identity that a file has
\* left is never published again, and what is cached, read or shown was read
\* under the identity that it is recorded with (callMCPTool, readToolCache).
THEOREM IInvHolds == Spec => []IInv
<1> QED  BY InitIInv, NextIInv, PTL DEF Spec

\* Every variable keeps its type, for any number of calls, files and writes.
THEOREM TypeOKHolds == Spec => []TypeOK
<1>1. IInv => TypeOK
  BY DEF IInv
<1> QED  BY <1>1, IInvHolds, PTL

\* A cached result whose key names the published state of its database holds
\* the rows that are there now, whatever was written meanwhile.
THEOREM CacheIsTrueHolds == Spec => []CacheIsTrue
<1>1. IInv => CacheIsTrue
  <2> SUFFICES ASSUME IInv, NEW i \in DOMAIN lru,
                      disk[lru[i].key.file].status = "ready",
                      lru[i].key = toolCacheKey(lru[i].key.tool, lru[i].key.file,
                                                IndexState(disk[lru[i].key.file]))
               PROVE  lru[i].reads = {disk[lru[i].key.file].rows}
    BY DEF CacheIsTrue
  <2> DEFINE k == lru[i].key
             d == disk[k.file]
  <2>1. lru[i].reads # {} /\ Recorded(k.file, k, lru[i].reads)
    BY DEF IInv, EntriesInv, Range
  <2>2. k.gen = d.gen /\ k.rev = d.rev /\ k.base = d.base
    BY DEF toolCacheKey, IndexState
  <2>3. k \in Keys
    <3>1. lru \in Seq([key : Keys, reads : SUBSET (0..MaxWrites), size : 0..MaxEntry])
      BY DEF IInv, TypeOK
    <3>2. lru[i] \in [key : Keys, reads : SUBSET (0..MaxWrites), size : 0..MaxEntry]
      BY <3>1, LenProperties
    <3> QED  BY <3>2
  <2>4. k.gen \in Nat /\ k.base \in Nat
    BY <2>3 DEF Keys
  <2>5. lru[i].reads \subseteq {d.rows}
    BY <2>1, <2>2, <2>4 DEF Recorded
  <2> QED  BY <2>1, <2>5
<1> QED  BY <1>1, IInvHolds, PTL

\* The byte counter of the cache is the size of what is cached, within the
\* budget, and a key has one entry, for every size and budget.
THEOREM BytesExactHolds == Spec => []BytesExact
<1>1. IInv => BytesExact
  BY DEF IInv
<1> QED  BY <1>1, IInvHolds, PTL

\* A tool that has committed is never told to try again because the index
\* changed, and is never run a second time.
THEOREM CommittedStandsHolds == Spec => []CommittedStands
<1>1. IInv => CommittedStands
  <2> SUFFICES ASSUME IInv
               PROVE  CommittedStands
    OBVIOUS
  <2>1. \A c \in Calls : call[c].runs \in 0..1
    BY DEF IInv, TypeOK, CallStates
  <2>2. \A c \in Calls : call[c].committed => call[c].runs = 0
    BY <2>1 DEF IInv, CommitInv
  <2> QED  BY <2>2 DEF IInv, AnswerInv, CommittedStands
<1> QED  BY <1>1, IInvHolds, PTL

-----------------------------------------------------------------------------
(***************************************************************************)
(* The runtime implements SnapshotReads.                                   *)
(***************************************************************************)
LEMMA WriteIsSnapshot ==
  ASSUME IInv, WriteStep, answer'.shown = <<>>
  PROVE  Snapshot!Next
<1>1. PICK f \in Files, e \in Contents : WriteOf(f, e)
  BY DEF WriteStep
<1>2. disk \in [Files -> Contents] /\ disk' = [disk EXCEPT ![f] = e]
  BY <1>1 DEF WriteOf, IInv, TypeOK
<1>3. disk'[f] = e /\ \A g \in Files : g # f => disk'[g] = disk[g]
  BY <1>2
<1>4. ASSUME NEW c \in Calls
      PROVE  (IF seen[c] = {} THEN {} ELSE seen[c] \cup {<<call[c].file, disk'[call[c].file]>>})
             = (IF \E s \in seen[c] : s[1] = f
                THEN seen[c] \cup {<<f, disk'[f]>>} ELSE seen[c])
  <2> DEFINE g == call[c].file
  <2>1. g \in Files
    BY DEF IInv, TypeOK, CallStates
  <2>2. CASE seen[c] = {}
    BY <2>2
  <2>3. CASE seen[c] # {}
    <3>1. <<g, disk[g]>> \in seen[c] /\ \A s \in seen[c] : s[1] = g
      BY <2>3 DEF IInv, SeenInv
    <3>2. CASE g = f
      <4>1. \E s \in seen[c] : s[1] = f
        BY <3>1, <3>2
      <4> QED  BY <2>3, <3>2, <4>1
    <3>3. CASE g # f
      <4>1. disk'[g] = disk[g]
        BY <1>3, <2>1, <3>3
      <4>2. ~(\E s \in seen[c] : s[1] = f)
        BY <3>1, <3>3
      <4>3. seen[c] \cup {<<g, disk'[g]>>} = seen[c]
        BY <3>1, <4>1
      <4> QED  BY <2>3, <4>2, <4>3
    <3> QED  BY <3>2, <3>3
  <2> QED  BY <2>2, <2>3
<1>5. seen' = [c \in Calls |-> IF \E s \in seen[c] : s[1] = f
                               THEN seen[c] \cup {<<f, disk'[f]>>} ELSE seen[c]]
  BY <1>1, <1>4 DEF WriteOf, Observe
<1>6. disk'[f] \in Contents /\ disk' = [disk EXCEPT ![f] = disk'[f]]
  BY <1>2, <1>3
<1>7. Snapshot!Write(f)
  BY <1>5, <1>6 DEF Snapshot!Write
<1> QED  BY <1>7 DEF Snapshot!Next

\* A step that shows nothing, or shows what the call has seen.
ShownMoves(c) ==
    \/ answer'.shown = <<>> /\ disk' = disk /\ seen' = seen
    \/ answer'.shown = <<>> /\ WriteStep
    \/ \E tool \in Tools : Begin(c, tool)
    \/ \E reply : \E shown \in seen[c] \cup {<<>>} : Answer(c, reply, shown)

LEMMA CallShows ==
  ASSUME IInv, NEW c \in Calls, Step(c)
  PROVE  ShownMoves(c)
<1>1. TypeOK /\ DiskInv /\ CallInv(c)
  BY DEF IInv, CallInv
<1>2. NoAnswer.shown = <<>>
  BY DEF NoAnswer
<1>3. CASE \E tool \in Tools : Begin(c, tool)
  BY <1>3 DEF ShownMoves
<1>4. CASE ReadBefore(c)
  BY <1>2, <1>4 DEF ReadBefore, RefuseUnready, AdmitReady, Refuse, ShownMoves, indexVars
<1>5. CASE CacheHit(c) \/ CacheMiss(c) \/ RejectHit(c) \/ HandlerRead(c) \/ Invalidate(c)
  BY <1>2, <1>5 DEF CacheHit, CacheMiss, RejectHit, HandlerRead, Invalidate, ShownMoves, indexVars
<1>6. CASE AcceptHit(c)
  <2>1. PICK s \in Readings(c) :
            /\ s.status = "ready"
            /\ ~indexStateChanged(call[c].start, s)
            /\ Answer(c, "ok", Shown(c, s))
    BY <1>6 DEF AcceptHit
  <2>2. call[c].pc = "hit" /\ Reads(c) /\ call[c].reads # {}
    BY <1>1, <1>6 DEF AcceptHit, CallInv, ReadInv
  <2>3. Shown(c, s) \in seen[c]
    BY <1>1, <2>1, <2>2, ShownSeen
  <2> QED  BY <2>1, <2>3 DEF ShownMoves
<1>7. CASE HandlerFails(c) \/ ReplyTooLarge(c)
  BY <1>7 DEF HandlerFails, ReplyTooLarge, Refuse, ShownMoves
<1>8. CASE HandlerSaves(c) \/ HandlerRefreshes(c)
  <2>1. WriteStep
    BY <1>1, <1>8, CommitCall
  <2> QED  BY <1>2, <1>8, <2>1 DEF HandlerSaves, HandlerRefreshes, ShownMoves
<1>9. CASE ReadAfter(c)
  BY <1>2, <1>9 DEF ReadAfter, Proceed, ReportPublishing, ReportConflict, Retry, ProceedAfterRetry,
                    RefuseAfterRetry, Refuse, ShownMoves, indexVars
<1>10. CASE Reply(c)
  <2> DEFINE shown == IF Reads(c) /\ Certified(c) THEN Shown(c, call[c].after) ELSE <<>>
  <2>1. Answer(c, "ok", shown)
    BY <1>10 DEF Reply
  <2>2. shown \in seen[c] \cup {<<>>}
    <3>1. Reads(c) /\ Certified(c) => Shown(c, call[c].after) \in seen[c]
      BY <1>1, <1>10 DEF CallInv, ReadInv, Reply
    <3> QED  BY <3>1
  <2> HIDE DEF shown
  <2> QED  BY <2>1, <2>2 DEF ShownMoves
<1> QED  BY <1>3, <1>4, <1>5, <1>6, <1>7, <1>8, <1>9, <1>10 DEF Step

LEMMA CallIsSnapshot ==
  ASSUME IInv, NEW c \in Calls, Step(c)
  PROVE  Snapshot!Next
<1>1. ShownMoves(c)
  BY CallShows
<1>2. seen \in [Calls -> SUBSET (Files \X Contents)] /\ pointer \in Files
  BY DEF IInv, TypeOK
<1>3. CASE answer'.shown = <<>> /\ disk' = disk /\ seen' = seen
  BY <1>3 DEF Snapshot!Next, Snapshot!Given
<1>4. CASE answer'.shown = <<>> /\ WriteStep
  BY <1>4, WriteIsSnapshot
<1>5. ASSUME NEW tool \in Tools, Begin(c, tool)
      PROVE  Snapshot!Next
  <2>1. seen[c] = {}
    BY <1>5 DEF Begin, IInv, SeenInv
  <2>2. answer'.shown = <<>> /\ disk' = disk
    BY <1>5 DEF Begin, NoAnswer, indexVars
  <2>3. CASE tool \in ReadOnly
    <3>1. seen' = [seen EXCEPT ![c] = {<<pointer, disk[pointer]>>}]
      BY <1>5, <2>3 DEF Begin
    <3>2. Snapshot!Begin(c, pointer)
      BY <2>1, <2>2, <3>1 DEF Snapshot!Begin
    <3> QED  BY <1>2, <3>2 DEF Snapshot!Next
  <2>4. CASE tool \notin ReadOnly
    <3>1. seen' = [seen EXCEPT ![c] = {}]
      BY <1>5, <2>4 DEF Begin
    <3>2. seen' = seen
      BY <1>2, <2>1, <3>1
    <3> QED  BY <2>2, <3>2 DEF Snapshot!Next, Snapshot!Given
  <2> QED  BY <2>3, <2>4
<1>6. ASSUME NEW reply, NEW shown \in seen[c] \cup {<<>>}, Answer(c, reply, shown)
      PROVE  Snapshot!Next
  <2>1. /\ answer'.shown = shown /\ disk' = disk
        /\ seen' = [seen EXCEPT ![c] = {}]
    BY <1>6 DEF Answer, indexVars
  <2>2. CASE seen[c] = {}
    <3>1. seen' = seen /\ shown = <<>>
      BY <1>2, <2>1, <2>2
    <3> QED  BY <2>1, <3>1 DEF Snapshot!Next, Snapshot!Given
  <2>3. CASE seen[c] # {}
    <3>1. Snapshot!Answer(c)
      BY <2>1, <2>3 DEF Snapshot!Answer
    <3> QED  BY <3>1 DEF Snapshot!Next
  <2> QED  BY <2>2, <2>3
<1> QED  BY <1>1, <1>3, <1>4, <1>5, <1>6 DEF ShownMoves

\* Every certified answer, of the handler or of the cache, after one run or
\* two, shows rows and index state that the file of the call held at one
\* instant of the call: each step of the runtime is one of SnapshotReads.
THEOREM SnapshotAnswersHolds == Spec => SnapshotAnswers
<1>1. Init => Snapshot!Init
  BY InitIInv DEF IInv, TypeOK, Init, NoAnswer, Snapshot!Init
<1>2. IInv /\ [Next]_vars => [Snapshot!Next]_(Snapshot!vars)
  <2> SUFFICES ASSUME IInv, [Next]_vars
               PROVE  [Snapshot!Next]_(Snapshot!vars)
    OBVIOUS
  <2>1. ASSUME NEW c \in Calls, Step(c)
        PROVE  Snapshot!Next
    BY <2>1, CallIsSnapshot
  <2>2. CASE Writer
    <3>1. WriteStep /\ answer' = NoAnswer
      BY <2>2, WriterStep DEF IInv
    <3>2. answer'.shown = <<>>
      BY <3>1 DEF NoAnswer
    <3> QED  BY <3>1, <3>2, WriteIsSnapshot
  <2>3. CASE UNCHANGED vars
    BY <2>3 DEF vars, indexVars, Snapshot!vars
  <2> QED  BY <2>1, <2>2, <2>3 DEF Next
<1> QED  BY <1>1, <1>2, IInvHolds, PTL DEF Spec, SnapshotAnswers, Snapshot!Spec
=============================================================================
