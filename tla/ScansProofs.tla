---------------------------- MODULE ScansProofs ----------------------------
(***************************************************************************)
(* Iterators and lookups inside tables, for any keys, writes, ranges,      *)
(* readers, tables and cuts of tables into blocks: a scan delivers exactly *)
(* its rows, and a lookup through filter, index and cache finds what is in *)
(* the table.                                                              *)
(***************************************************************************)
EXTENDS Scans, LsmTreeProofs, FiniteSetTheorems, SequenceTheorems

-----------------------------------------------------------------------------
(* Internal keys *)

LEMMA EntryFields ==
    ASSUME NEW e \in Entry
    PROVE  e.key \in Keys /\ e.key \in Nat /\ e.seq \in Nat /\ e.type \in {"put", "del"}
BY KeysAssumption DEF Entry, Types

LEMMA SameEntry ==
    ASSUME NEW e \in Entry, NEW f \in Entry, e.key = f.key, e.seq = f.seq, e.type = f.type
    PROVE  e = f
BY DEF Entry

\* InternalKey::cmp is a strict total order.
LEMMA BeforeIsOrder ==
    ASSUME NEW a \in Entry, NEW b \in Entry
    PROVE  /\ ~Before(a, a)
           /\ Before(a, b) => ~Before(b, a)
           /\ a = b \/ Before(a, b) \/ Before(b, a)
           /\ \A c \in Entry : Before(a, b) /\ Before(b, c) => Before(a, c)
<1>1. ~Before(a, a) /\ (Before(a, b) => ~Before(b, a))
  BY EntryFields DEF Before
<1>2. a = b \/ Before(a, b) \/ Before(b, a)
  BY EntryFields, SameEntry DEF Before
<1>3. ASSUME NEW c \in Entry, Before(a, b), Before(b, c) PROVE Before(a, c)
  BY <1>3, EntryFields DEF Before
<1> QED BY <1>1, <1>2, <1>3

LEMMA FirstEntry ==
    ASSUME NEW E, E \subseteq Entry, E # {}, NEW bound \in Nat, \A e \in E : e.seq <= bound
    PROVE  \E e \in E : \A f \in E : f = e \/ Before(e, f)
<1> DEFINE K == {n \in Nat : \E e \in E : e.key = n}
<1>1. PICK k \in K : \A n \in K : k <= n
  <2>1. PICK e \in E : TRUE
    OBVIOUS
  <2>2. e.key \in K
    BY EntryFields
  <2> HIDE DEF K
  <2> QED BY <2>2, LeastElement DEF K
<1> DEFINE S == {n \in Nat : \E e \in E : e.key = k /\ e.seq = n}
<1>2. PICK s \in S : \A n \in S : n <= s
  <2>1. PICK e \in E : e.key = k
    OBVIOUS
  <2>2. e.seq \in S /\ S \subseteq Nat /\ \A n \in S : n <= bound
    BY <2>1, EntryFields
  <2> HIDE DEF S
  <2> QED BY <2>2, GreatestElement
<1>3. PICK e \in E : e.key = k /\ e.seq = s /\
                     (e.type = "put" \/ \A f \in E : f.key = k /\ f.seq = s => f.type = "del")
  <2>1. PICK e \in E : e.key = k /\ e.seq = s
    OBVIOUS
  <2> QED BY <2>1, EntryFields
<1>4. ASSUME NEW f \in E PROVE f = e \/ Before(e, f)
  <2>1. f \in Entry /\ e \in Entry /\ f.key \in K /\ (f.key = k => f.seq \in S)
    BY EntryFields
  <2>2. k <= f.key /\ (f.key = k => f.seq <= s)
    <3> HIDE DEF K, S
    <3> QED BY <1>1, <1>2, <2>1
  <2> QED BY <1>3, <2>1, <2>2, EntryFields, SameEntry DEF Before
<1> QED BY <1>4

-----------------------------------------------------------------------------
(* Sorted sequences of entries *)

InOrder(s) == \A i \in DOMAIN s : \A j \in 1..(i - 1) : Before(s[j], s[i])
Sorts(s, E) == s \in [1..Cardinality(E) -> E] /\ InOrder(s)

LEMMA SortedExists ==
    ASSUME NEW E, E \subseteq Entry, IsFiniteSet(E), NEW bound \in Nat, \A e \in E : e.seq <= bound
    PROVE  \E s : Sorts(s, E)
<1> DEFINE Bad(F, n) == /\ F \subseteq Entry /\ IsFiniteSet(F) /\ Cardinality(F) = n
                        /\ \A e \in F : e.seq <= bound
                        /\ ~ \E s : Sorts(s, F)
           T == {n \in Nat : \E F : Bad(F, n)}
<1>1. T = {}
  <2> SUFFICES ASSUME T # {} PROVE FALSE
    OBVIOUS
  <2>1. PICK n \in T : \A m \in T : n <= m
    <3>1. T \subseteq Nat
      OBVIOUS
    <3> HIDE DEF T
    <3> QED BY <3>1, LeastElement
  <2>2. PICK F : Bad(F, n)
    OBVIOUS
  <2>3. F # {}
    <3>1. ASSUME F = {} PROVE FALSE
      <4>1. Cardinality(F) = 0
        BY <3>1, FS_EmptySet
      <4>2. Sorts([i \in 1..0 |-> i], F)
        BY <3>1, <4>1 DEF Sorts, InOrder
      <4> QED BY <2>2, <4>2
    <3> QED BY <3>1
  <2>4. PICK e \in F : \A f \in F : f = e \/ Before(e, f)
    BY <2>2, <2>3, FirstEntry
  <2>5. IsFiniteSet(F \ {e}) /\ Cardinality(F \ {e}) = n - 1 /\ n \in Nat
    BY <2>2, FS_RemoveElement
  <2>6. n - 1 \in Nat /\ n - 1 \notin T
    <3>1. n - 1 \in Nat
      BY <2>5, FS_CardinalityType
    <3> HIDE DEF T
    <3> QED BY <2>1, <2>5, <3>1
  <2>7. PICK s : Sorts(s, F \ {e})
    <3>1. ~Bad(F \ {e}, n - 1)
      BY <2>6
    <3> QED BY <2>2, <2>5, <3>1
  <2> DEFINE t == [i \in 1..n |-> IF i = 1 THEN e ELSE s[i - 1]]
  <2>8. \A i \in 1..n : i # 1 => i - 1 \in 1..(n - 1) /\ s[i - 1] \in F /\ s[i - 1] # e
    <3>1. s \in [1..(n - 1) -> F \ {e}]
      BY <2>5, <2>7 DEF Sorts
    <3>2. \A i \in 1..n : i # 1 => i - 1 \in 1..(n - 1)
      BY <2>5
    <3> QED BY <3>1, <3>2
  <2>9. t \in [1..n -> F]
    BY <2>8
  <2>10. ASSUME NEW i \in 1..n, NEW j \in 1..(i - 1) PROVE Before(t[j], t[i])
    <3>1. i # 1 /\ j \in 1..n /\ t[i] = s[i - 1] /\ n \in Nat
      BY <2>5
    <3>2. CASE j = 1
      BY <2>4, <2>8, <3>1, <3>2
    <3>3. CASE j # 1
      <4>1. t[j] = s[j - 1] /\ i - 1 \in 1..(n - 1) /\ j - 1 \in 1..((i - 1) - 1)
        BY <3>1, <3>3
      <4> QED BY <2>5, <2>7, <3>1, <4>1 DEF Sorts, InOrder
    <3> QED BY <3>2, <3>3
  <2>11. Sorts(t, F)
    BY <2>2, <2>9, <2>10 DEF Sorts, InOrder
  <2> QED BY <2>2, <2>11
<1>2. Cardinality(E) \notin T
  BY <1>1
<1> QED BY <1>2, FS_CardinalityType

\* A memtable's iterator and compact_entries deliver all entries, in order.
LEMMA SortedIs ==
    ASSUME NEW E, E \subseteq Entry, IsFiniteSet(E), NEW bound \in Nat, \A e \in E : e.seq <= bound
    PROVE  /\ Sorted(E) \in Seq(Entry) /\ Len(Sorted(E)) = Cardinality(E) /\ InOrder(Sorted(E))
           /\ \A i \in 1..Len(Sorted(E)) : Sorted(E)[i] \in E
           /\ \A e \in E : \E i \in 1..Len(Sorted(E)) : Sorted(E)[i] = e
<1> DEFINE n == Cardinality(E)
<1>1. Sorted(E) = CHOOSE s \in [1..n -> E] : InOrder(s)
  BY DEF Sorted, InOrder
<1>2. PICK s : s = Sorted(E) /\ s \in [1..n -> E] /\ InOrder(s)
  BY <1>1, SortedExists DEF Sorts
<1>3. n \in Nat
  BY FS_CardinalityType
<1>4. s \in Seq(Entry) /\ Len(s) = n
  BY <1>2, <1>3
<1>5. ASSUME NEW i \in 1..n, NEW j \in 1..n, s[i] = s[j] PROVE i = j
  <2>1. ASSUME NEW a \in 1..n, NEW b \in 1..n, a < b PROVE s[a] # s[b]
    <3>1. a \in 1..(b - 1) /\ DOMAIN s = 1..n /\ s[a] \in Entry
      BY <1>2, <1>3, <2>1
    <3>2. Before(s[a], s[b])
      BY <1>2, <3>1 DEF InOrder
    <3> QED BY <3>1, <3>2, BeforeIsOrder
  <2> QED BY <1>3, <1>5, <2>1
<1>6. s \in Injection(1..n, E)
  BY <1>2, <1>5 DEF Injection, IsInjective
<1>7. Cardinality(1..n) = n /\ IsFiniteSet(1..n)
  BY <1>3, FS_Interval
<1>8. s \in Surjection(1..n, E)
  BY <1>6, <1>7, FS_Injection
<1>9. \A e \in E : \E i \in 1..n : s[i] = e
  BY <1>8 DEF Surjection
<1> HIDE DEF n
<1>10. \A i \in 1..n : s[i] \in E
  BY <1>2
<1> QED BY <1>2, <1>4, <1>9, <1>10, Zenon DEF n

-----------------------------------------------------------------------------
(* Prefix compression *)

LEMMA GreatestIs ==
    ASSUME NEW S, S \subseteq Nat, S # {}, NEW bound \in Nat, \A n \in S : n <= bound
    PROVE  Max(S) \in S /\ \A n \in S : n <= Max(S)
<1>1. PICK m \in S : \A n \in S : n <= m
  BY GreatestElement
<1>2. \A n \in S : m >= n
  BY <1>1
<1>3. Max(S) \in S /\ \A n \in S : Max(S) >= n
  BY <1>2 DEF Max
<1> QED BY <1>3

LEMMA SharedPrefixIs ==
    ASSUME NEW l \in Seq(Nat), NEW r \in Seq(Nat)
    PROVE  /\ SharedPrefixLen(l, r) \in 0..Len(l) /\ SharedPrefixLen(l, r) <= Len(r)
           /\ \A i \in 1..SharedPrefixLen(l, r) : l[i] = r[i]
<1> DEFINE S == {n \in 0..Len(l) : n <= Len(r) /\ \A i \in 1..n : l[i] = r[i]}
<1>1. S \subseteq Nat /\ 0 \in S /\ Len(l) \in Nat /\ \A n \in S : n <= Len(l)
  OBVIOUS
<1>2. Max(S) \in S
  <2> HIDE DEF S
  <2> QED BY <1>1, GreatestIs
<1>3. SharedPrefixLen(l, r) = Max(S)
  BY DEF SharedPrefixLen
<1> QED BY <1>2, <1>3

LEMMA PrefixAndRest ==
    ASSUME NEW l \in Seq(Nat), NEW r \in Seq(Nat), NEW m \in 0..Len(l), m <= Len(r),
           \A i \in 1..m : l[i] = r[i]
    PROVE  SubSeq(l, 1, m) \o SubSeq(r, m + 1, Len(r)) = r
<1> DEFINE a == SubSeq(l, 1, m)
           b == SubSeq(r, m + 1, Len(r))
<1>1. /\ a \in Seq(Nat) /\ Len(a) = m /\ \A i \in 1..m : a[i] = l[i]
      /\ b \in Seq(Nat) /\ Len(b) = Len(r) - m /\ \A i \in 1..(Len(r) - m) : b[i] = r[i + m]
  OBVIOUS
<1>2. Len(r) \in Nat /\ m \in Nat
  OBVIOUS
<1> HIDE DEF a, b
<1>3. a \o b \in Seq(Nat) /\ Len(a \o b) = Len(a) + Len(b)
      /\ \A i \in 1..(Len(a) + Len(b)) : (a \o b)[i] = IF i <= Len(a) THEN a[i] ELSE b[i - Len(a)]
  <2>1. a \in Seq(Nat) /\ b \in Seq(Nat)
    BY <1>1
  <2> HIDE <1>1
  <2> QED BY ONLY <2>1, ConcatProperties
<1>4. Len(a \o b) = Len(r)
  BY <1>1, <1>2, <1>3
<1>5. ASSUME NEW i \in 1..Len(r) PROVE (a \o b)[i] = r[i]
  <2>1. (a \o b)[i] = IF i <= m THEN a[i] ELSE b[i - m]
    <3>1. Len(a) = m /\ Len(a) + Len(b) = Len(r)
      BY <1>1, <1>2
    <3> QED BY <1>3, <3>1
  <2>2. CASE i <= m
    <3>1. i \in 1..m
      BY <1>2, <2>2
    <3> QED BY <1>1, <2>1, <2>2, <3>1
  <2>3. CASE ~(i <= m)
    <3>1. i - m \in 1..(Len(r) - m) /\ (i - m) + m = i
      BY <1>2, <2>3
    <3>2. b[i - m] = r[(i - m) + m]
      BY <1>1, <3>1
    <3> QED BY <2>1, <2>3, <3>1, <3>2
  <2> QED BY <2>2, <2>3
<1>6. a \o b = r
  BY <1>3, <1>4, <1>5, SeqEqual
<1> QED BY <1>6 DEF a, b

\* The reader puts each key together from the key before it.
LEMMA DecodeEntryIs ==
    ASSUME NEW block \in Seq(Entry), NEW n \in 1..Len(block)
    PROVE  DecodeEntry(SubSeq(block, 1, n - 1), Encode(block)[n]) = block[n]
<1> DEFINE prev == SubSeq(block, 1, n - 1)
           k == block[n].key
           last == IF prev = <<>> THEN <<>> ELSE KeyBytes[prev[Len(prev)].key]
           m == IF (n - 1) % RestartInterval = 0 THEN 0
                ELSE SharedPrefixLen(KeyBytes[block[n - 1].key], KeyBytes[k])
<1>1. /\ block[n] \in Entry /\ k \in Keys /\ KeyBytes[k] \in Seq(Nat)
      /\ n \in Nat /\ RestartInterval \in Nat \ {0}
  BY KeyBytesAssumption, EntryFields
<1>2. Encode(block)[n] = [shared |-> m, rest |-> SubSeq(KeyBytes[k], m + 1, Len(KeyBytes[k])),
                          seq |-> block[n].seq, type |-> block[n].type]
  <2>1. n \in DOMAIN block
    OBVIOUS
  <2> QED BY <2>1 DEF Encode
<1>3. prev \in Seq(Entry) /\ Len(prev) = n - 1 /\ (n # 1 => prev[n - 1] = block[n - 1])
  OBVIOUS
<1>4. last \in Seq(Nat) /\ m \in 0..Len(last) /\ m <= Len(KeyBytes[k])
      /\ \A i \in 1..m : last[i] = KeyBytes[k][i]
  <2>1. CASE n = 1
    <3>1. (n - 1) % RestartInterval = 0
      BY <1>1, <2>1
    <3>2. prev = <<>>
      BY <1>3, <2>1
    <3> QED BY <1>1, <3>1, <3>2
  <2>2. CASE n # 1
    <3>1. block[n - 1] \in Entry /\ last = KeyBytes[block[n - 1].key]
      BY <1>1, <1>3, <2>2
    <3>2. last \in Seq(Nat)
      BY <3>1, KeyBytesAssumption, EntryFields
    <3> HIDE DEF last, prev
    <3>3. CASE (n - 1) % RestartInterval = 0
      BY <1>1, <3>2, <3>3
    <3>4. CASE (n - 1) % RestartInterval # 0
      <4>1. m = SharedPrefixLen(last, KeyBytes[k])
        BY <3>1, <3>4
      <4> HIDE DEF m, k
      <4> QED BY <1>1, <3>2, <4>1, SharedPrefixIs
    <3> QED BY <3>3, <3>4
  <2> QED BY <2>1, <2>2
<1>5. SubSeq(last, 1, m) \o SubSeq(KeyBytes[k], m + 1, Len(KeyBytes[k])) = KeyBytes[k]
  <2> HIDE DEF last, m, k
  <2> QED BY <1>1, <1>4, PrefixAndRest
<1>6. (CHOOSE l \in Keys : KeyBytes[l] = KeyBytes[k]) = k
  BY <1>1, KeyBytesAssumption
<1>7. DecodeEntry(prev, Encode(block)[n]) =
        [key |-> CHOOSE l \in Keys : KeyBytes[l] = SubSeq(last, 1, Encode(block)[n].shared)
                                                     \o Encode(block)[n].rest,
         seq |-> Encode(block)[n].seq, type |-> Encode(block)[n].type]
  BY DEF DecodeEntry
<1>8. DecodeEntry(prev, Encode(block)[n]) =
        [key |-> k, seq |-> block[n].seq, type |-> block[n].type]
  <2> HIDE DEF last, prev, m, k
  <2>1. /\ Encode(block)[n].shared = m
        /\ Encode(block)[n].rest = SubSeq(KeyBytes[k], m + 1, Len(KeyBytes[k]))
        /\ Encode(block)[n].seq = block[n].seq /\ Encode(block)[n].type = block[n].type
    <3>1. PICK e : e = Encode(block)[n]
      OBVIOUS
    <3>2. e = [shared |-> m, rest |-> SubSeq(KeyBytes[k], m + 1, Len(KeyBytes[k])),
               seq |-> block[n].seq, type |-> block[n].type]
      BY <1>2, <3>1
    <3>3. /\ e.shared = m /\ e.rest = SubSeq(KeyBytes[k], m + 1, Len(KeyBytes[k]))
          /\ e.seq = block[n].seq /\ e.type = block[n].type
      BY <3>2
    <3> QED BY <3>1, <3>3
  <2> QED BY <1>5, <1>6, <1>7, <2>1
<1> QED BY <1>1, <1>8 DEF Entry

\* Block::decode reads back what BlockBuilder wrote, wherever the restarts are.
LEMMA DecodeEncode ==
    ASSUME NEW block \in Seq(Entry)
    PROVE  Decode(Encode(block)) = block
<1> DEFINE data == Encode(block)
           N == 0..Len(data)
           Solves(g) == g = [n \in N |-> IF n = 0 THEN <<>>
                                ELSE Append(g[n - 1], DecodeEntry(g[n - 1], data[n]))]
           all == [n \in N |-> SubSeq(block, 1, n)]
<1>1. Len(block) \in Nat /\ DOMAIN data = 1..Len(block) /\ Len(data) = Len(block)
  BY DEF Encode
<1>2. ASSUME NEW n \in 1..Len(block)
      PROVE  SubSeq(block, 1, n) =
               Append(SubSeq(block, 1, n - 1), DecodeEntry(SubSeq(block, 1, n - 1), data[n]))
  <2>1. DecodeEntry(SubSeq(block, 1, n - 1), data[n]) = block[n]
    BY DecodeEntryIs
  <2>2. SubSeq(block, 1, n) = Append(SubSeq(block, 1, n - 1), block[n])
    <3> DEFINE p == SubSeq(block, 1, n - 1)
               q == SubSeq(block, 1, n)
    <3>1. /\ p \in Seq(Entry) /\ Len(p) = n - 1 /\ \A i \in 1..(n - 1) : p[i] = block[i]
          /\ q \in Seq(Entry) /\ Len(q) = n /\ \A i \in 1..n : q[i] = block[i]
          /\ block[n] \in Entry /\ n \in Nat
      OBVIOUS
    <3> HIDE DEF p, q
    <3>2. Append(p, block[n]) \in Seq(Entry) /\ Len(Append(p, block[n])) = n
      BY <3>1
    <3>3. \A i \in 1..n : Append(p, block[n])[i] = q[i]
      BY <3>1
    <3>4. Append(p, block[n]) = q
      BY <3>1, <3>2, <3>3
    <3> QED BY <3>4 DEF p, q
  <2> QED BY <2>1, <2>2
<1> HIDE DEF data
<1>3. Solves(all)
  <2>1. \A n \in N : n # 0 => n \in 1..Len(block) /\ n - 1 \in N
    BY <1>1
  <2>2. SubSeq(block, 1, 0) = <<>>
    OBVIOUS
  <2>3. \A n \in N : all[n] = IF n = 0 THEN <<>>
                              ELSE Append(all[n - 1], DecodeEntry(all[n - 1], data[n]))
    BY <1>2, <2>1, <2>2
  <2> HIDE DEF N
  <2> QED BY <2>3
<1>4. Decoded(data) = CHOOSE g : Solves(g)
  BY DEF Decoded
<1> HIDE DEF Solves, all
<1>5. PICK g : g = Decoded(data) /\ Solves(g)
  BY <1>3, <1>4
<1> DEFINE T == {n \in N : g[n] # SubSeq(block, 1, n)}
<1>6. T = {}
  <2> SUFFICES ASSUME T # {} PROVE FALSE
    OBVIOUS
  <2>1. PICK n \in T : \A m \in T : n <= m
    <3>1. T \subseteq Nat
      BY <1>1
    <3> HIDE DEF T
    <3> QED BY <3>1, LeastElement
  <2>2. n # 0
    <3>1. SubSeq(block, 1, 0) = <<>>
      OBVIOUS
    <3>2. 0 \in N => g[0] = <<>>
      BY <1>5 DEF Solves
    <3> QED BY <3>1, <3>2
  <2>3. n \in 1..Len(block) /\ n - 1 \in N /\ ~(n <= n - 1)
    BY <1>1, <2>2
  <2>4. g[n - 1] = SubSeq(block, 1, n - 1)
    BY <2>1, <2>3
  <2>5. g[n] = Append(g[n - 1], DecodeEntry(g[n - 1], data[n]))
    BY <1>5, <2>2 DEF Solves
  <2> QED BY <1>2, <2>3, <2>4, <2>5
<1>7. g[Len(block)] = SubSeq(block, 1, Len(block))
  BY <1>1, <1>6
<1>8. SubSeq(block, 1, Len(block)) = block
  OBVIOUS
<1> QED BY <1>1, <1>5, <1>7, <1>8 DEF Decode, data

-----------------------------------------------------------------------------
(* Where the builder cuts *)

LEMMA EndsAscend ==
    ASSUME NEW n \in Nat, NEW m \in Nat, NEW end \in [0..m -> 0..n],
           \A b \in 1..m : end[b - 1] < end[b]
    PROVE  \A a, b \in 0..m : a <= b => end[a] <= end[b]
<1> SUFFICES ASSUME NEW a \in 0..m PROVE \A b \in 0..m : a <= b => end[a] <= end[b]
  OBVIOUS
<1> DEFINE T == {b \in 0..m : a <= b /\ ~(end[a] <= end[b])}
<1>1. T = {}
  <2> SUFFICES ASSUME T # {} PROVE FALSE
    OBVIOUS
  <2>1. PICK b \in T : \A c \in T : b <= c
    <3>1. T \subseteq Nat
      OBVIOUS
    <3> HIDE DEF T
    <3> QED BY <3>1, LeastElement
  <2>2. b # a /\ b \in 1..m /\ b - 1 \in 0..m /\ a <= b - 1 /\ ~(b <= b - 1)
    OBVIOUS
  <2>3. end[a] <= end[b - 1] /\ end[b - 1] < end[b]
    BY <2>1, <2>2
  <2> QED BY <2>2, <2>3
<1> QED BY <1>1

\* Every place lies in one block.
LEMMA EndsCover ==
    ASSUME NEW n \in Nat, NEW m \in Nat, NEW end \in [0..m -> 0..n], end[0] = 0, end[m] = n,
           NEW i \in 1..n
    PROVE  \E b \in 1..m : end[b - 1] < i /\ i <= end[b]
<1> DEFINE T == {b \in 0..m : i <= end[b]}
<1>1. PICK b \in T : \A c \in T : b <= c
  <2>1. T \subseteq Nat /\ m \in T
    OBVIOUS
  <2> HIDE DEF T
  <2> QED BY <2>1, LeastElement
<1>2. b # 0 /\ b \in 1..m /\ b - 1 \in 0..m /\ ~(b <= b - 1)
  OBVIOUS
<1>3. ~(i <= end[b - 1])
  BY <1>1, <1>2
<1> QED BY <1>2, <1>3

-----------------------------------------------------------------------------
(* Tables *)

Blk(t, b) == Decode(t.blocks[b].data)

\* What the reader relies on.
BlocksOK(t) ==
    /\ Len(t.blocks) \in Nat /\ DOMAIN t.blocks = 1..Len(t.blocks) /\ Len(t.blocks) # 0
    /\ \A b \in DOMAIN t.blocks :
          /\ Blk(t, b) \in Seq(Entry) /\ Len(Blk(t, b)) # 0
          /\ t.blocks[b].first = Blk(t, b)[1] /\ t.blocks[b].last = Blk(t, b)[Len(Blk(t, b))]
OrderOK(t) ==
    /\ \A b \in DOMAIN t.blocks : InOrder(Blk(t, b))
    /\ \A a, b \in DOMAIN t.blocks : a < b =>
          \A i \in 1..Len(Blk(t, a)), j \in 1..Len(Blk(t, b)) : Before(Blk(t, a)[i], Blk(t, b)[j])
FilterOK(t) == \A e \in TableEntries(t) : MayContain(t.filter, e.key)
TableOK(t) == BlocksOK(t) /\ OrderOK(t) /\ FilterOK(t)

LEMMA TableHas ==
    ASSUME NEW t, BlocksOK(t)
    PROVE  /\ \A b \in DOMAIN t.blocks : \A i \in 1..Len(Blk(t, b)) : Blk(t, b)[i] \in TableEntries(t)
           /\ \A e \in TableEntries(t) :
                 \E b \in DOMAIN t.blocks : \E i \in 1..Len(Blk(t, b)) : e = Blk(t, b)[i]
<1>1. ToSet(t.blocks) = {t.blocks[b] : b \in DOMAIN t.blocks}
  BY DEF ToSet
<1>2. \A b \in DOMAIN t.blocks : ToSet(Blk(t, b)) = {Blk(t, b)[i] : i \in 1..Len(Blk(t, b))}
  BY DEF ToSet, BlocksOK
<1>3. TableEntries(t) = UNION {ToSet(Blk(t, b)) : b \in DOMAIN t.blocks}
  BY <1>1 DEF TableEntries, Blk
<1> QED BY <1>2, <1>3

\* Wherever the builder cuts, the table has the entries it was given.
LEMMA BuiltIs ==
    ASSUME NEW E, E \subseteq Entry, IsFiniteSet(E), E # {}, NEW bound \in Nat,
           \A e \in E : e.seq <= bound, NEW t \in BuiltTables(E)
    PROVE  TableOK(t) /\ TableEntries(t) = E
<1> DEFINE s == Sorted(E)
           n == Cardinality(E)
<1>1. /\ s \in Seq(Entry) /\ Len(s) = n /\ InOrder(s) /\ \A i \in 1..n : s[i] \in E
      /\ \A e \in E : \E i \in 1..n : s[i] = e
  BY SortedIs
<1>2. n \in Nat
  BY FS_CardinalityType
<1>3. PICK m, end :
         /\ m \in 1..n
         /\ end \in [0..m -> 0..n]
         /\ end[0] = 0 /\ end[m] = n /\ \A b \in 1..m : end[b - 1] < end[b]
         /\ t = [filter |-> BloomFilter(E),
                 blocks |-> [b \in DOMAIN Cut(s, end) |-> WriteBlock(Cut(s, end)[b])]]
  <2>1. PICK end \in Ends(n) :
           t = [filter |-> BloomFilter(E),
                blocks |-> [b \in DOMAIN Cut(s, end) |-> WriteBlock(Cut(s, end)[b])]]
    BY DEF BuiltTables
  <2>2. PICK m \in 1..n : /\ end \in [0..m -> 0..n] /\ end[0] = 0 /\ end[m] = n
                          /\ \A b \in 1..m : end[b - 1] < end[b]
    BY <2>1 DEF Ends
  <2> QED BY <2>1, <2>2
<1> DEFINE part(b) == SubSeq(s, end[b - 1] + 1, end[b])
<1>m. m \in 1..n /\ m \in Nat /\ m # 0
  BY <1>2, <1>3
<1> HIDE DEF s, n
<1>4. \A b \in 1..m : b \in 0..m /\ b - 1 \in 0..m /\ end[b - 1] \in 0..n /\ end[b] \in 0..n
                      /\ end[b - 1] < end[b] /\ end[b - 1] \in Nat /\ end[b] \in Nat /\ end[b] <= n
  BY <1>2, <1>3
<1>5. ASSUME NEW b \in 1..m
      PROVE  /\ part(b) \in Seq(Entry) /\ Len(part(b)) = end[b] - end[b - 1] /\ Len(part(b)) # 0
             /\ \A i \in 1..Len(part(b)) : part(b)[i] = s[end[b - 1] + i]
                                           /\ end[b - 1] + i \in (end[b - 1] + 1)..end[b]
  <2>1. PICK x \in Nat, y \in Nat : x = end[b - 1] /\ y = end[b] /\ x < y /\ y <= n
    BY <1>4
  <2>2. SubSeq(s, x + 1, y) \in Seq(Entry) /\ Len(SubSeq(s, x + 1, y)) = y - x
        /\ \A i \in 1..(y - x) : SubSeq(s, x + 1, y)[i] = s[x + i]
    <3>1. x + 1 \in Int /\ y \in Int /\ \A i \in (x + 1)..y : s[i] \in Entry
      BY <1>1, <1>2, <2>1
    <3>2. SubSeq(s, x + 1, y) \in Seq(Entry)
          /\ Len(SubSeq(s, x + 1, y)) = (IF x + 1 <= y THEN y - (x + 1) + 1 ELSE 0)
          /\ \A i \in 1..(y - (x + 1) + 1) : SubSeq(s, x + 1, y)[i] = s[(x + 1) + i - 1]
      BY <3>1, SubSeqProperties
    <3>3. x + 1 <= y /\ y - (x + 1) + 1 = y - x /\ \A i \in 1..(y - x) : (x + 1) + i - 1 = x + i
      BY <2>1
    <3> QED BY <3>2, <3>3
  <2>3. y - x # 0 /\ \A i \in 1..(y - x) : x + i \in (x + 1)..y
    BY <2>1
  <2> QED BY <2>1, <2>2, <2>3
<1>6. DOMAIN Cut(s, end) = 1..m /\ \A b \in 1..m : Cut(s, end)[b] = part(b)
  <2>1. DOMAIN end \ {0} = 1..m
    BY <1>2, <1>3
  <2> QED BY <2>1 DEF Cut
<1> HIDE DEF part
<1>7. DOMAIN t.blocks = 1..m /\ \A b \in 1..m : t.blocks[b] = WriteBlock(part(b))
  <2>1. t.blocks = [b \in 1..m |-> WriteBlock(part(b))]
    BY <1>3, <1>6
  <2> QED BY <2>1
<1>8. ASSUME NEW b \in 1..m
      PROVE Blk(t, b) = part(b) /\ t.blocks[b].first = part(b)[1]
            /\ t.blocks[b].last = part(b)[Len(part(b))]
  <2>1. Decode(Encode(part(b))) = part(b)
    BY <1>5, DecodeEncode
  <2>2. t.blocks[b].data = Encode(part(b)) /\ t.blocks[b].first = part(b)[1]
        /\ t.blocks[b].last = part(b)[Len(part(b))]
    <3>1. PICK w : w = t.blocks[b]
      OBVIOUS
    <3>2. w = [first |-> part(b)[1], last |-> part(b)[Len(part(b))], data |-> Encode(part(b))]
      BY <1>7, <3>1 DEF WriteBlock
    <3>3. w.data = Encode(part(b)) /\ w.first = part(b)[1] /\ w.last = part(b)[Len(part(b))]
      BY <3>2
    <3> QED BY <3>1, <3>3
  <2> QED BY <2>1, <2>2 DEF Blk
<1>9. Len(t.blocks) = m
  <2>1. m \in Nat
    BY <1>m
  <2>2. t.blocks = [b \in 1..m |-> WriteBlock(part(b))]
    BY <1>3, <1>6
  <2>3. t.blocks \in Seq({WriteBlock(part(b)) : b \in 1..m})
    BY <2>1, <2>2
  <2> QED BY <1>7, <2>1, <2>3
<1>10. BlocksOK(t)
  <2>1. \A b \in 1..m : part(b) \in Seq(Entry) /\ Len(part(b)) # 0
    BY <1>5
  <2>2. m \in Nat /\ m # 0
    BY <1>m
  <2> QED BY <1>7, <1>8, <1>9, <2>1, <2>2 DEF BlocksOK
<1>11. TableEntries(t) = E
  <2>1. ASSUME NEW e \in TableEntries(t) PROVE e \in E
    <3>1. PICK b \in 1..m : \E i \in 1..Len(part(b)) : e = part(b)[i]
      <4>1. PICK b \in DOMAIN t.blocks : \E i \in 1..Len(Blk(t, b)) : e = Blk(t, b)[i]
        BY <1>10, TableHas
      <4> QED BY <1>7, <1>8, <4>1
    <3>2. PICK i \in 1..Len(part(b)) : e = part(b)[i]
      BY <3>1
    <3>3. part(b)[i] = s[end[b - 1] + i] /\ end[b - 1] + i \in (end[b - 1] + 1)..end[b]
      BY <1>5
    <3>4. end[b - 1] + i \in 1..n
      BY <1>2, <1>4, <3>3
    <3> QED BY <1>1, <3>2, <3>3, <3>4
  <2>2. ASSUME NEW e \in E PROVE e \in TableEntries(t)
    <3>1. PICK i \in 1..n : s[i] = e
      BY <1>1
    <3>2. PICK b \in 1..m : end[b - 1] < i /\ i <= end[b]
      <4>1. m \in Nat
        BY <1>m
      <4> QED BY <1>2, <1>3, <4>1, EndsCover
    <3>3. PICK x \in Nat, y \in Nat : x = end[b - 1] /\ y = end[b]
      BY <1>4
    <3>4. i - x \in 1..(y - x) /\ x + (i - x) = i
      BY <1>2, <3>2, <3>3
    <3>5. i - x \in 1..Len(part(b)) /\ part(b)[i - x] = e
      BY <1>5, <3>1, <3>3, <3>4
    <3>6. b \in DOMAIN t.blocks /\ i - x \in 1..Len(Blk(t, b)) /\ Blk(t, b)[i - x] = e
      BY <1>7, <1>8, <3>5
    <3> QED BY <1>10, <3>6, TableHas
  <2> QED BY <2>1, <2>2
<1>12. OrderOK(t)
  <2>1. ASSUME NEW b \in 1..m PROVE InOrder(part(b))
    <3>1. PICK x \in Nat, y \in Nat : x = end[b - 1] /\ y = end[b] /\ x < y /\ y <= n
      BY <1>4
    <3>2. DOMAIN part(b) = 1..(y - x) /\ \A i \in 1..(y - x) : part(b)[i] = s[x + i]
      BY <1>5, <3>1
    <3>3. ASSUME NEW i \in 1..(y - x), NEW j \in 1..(i - 1) PROVE Before(part(b)[j], part(b)[i])
      <4>1. x + i \in DOMAIN s /\ x + j \in 1..((x + i) - 1) /\ j \in 1..(y - x)
        <5>1. DOMAIN s = 1..n /\ n \in Nat
          BY <1>1, <1>2
        <5>2. i \in Nat /\ i # 0 /\ i <= y - x /\ j \in Nat /\ j # 0 /\ j < i
          BY <3>1
        <5>3. x + i <= n /\ x + i # 0 /\ x + j <= (x + i) - 1 /\ x + j # 0 /\ j <= y - x
          BY <3>1, <5>1, <5>2
        <5> QED BY <5>1, <5>2, <5>3
      <4>2. Before(s[x + j], s[x + i])
        BY <1>1, <4>1 DEF InOrder
      <4> QED BY <3>2, <4>1, <4>2
    <3> QED BY <3>2, <3>3 DEF InOrder
  <2>2. ASSUME NEW a \in 1..m, NEW b \in 1..m, a < b,
               NEW i \in 1..Len(part(a)), NEW j \in 1..Len(part(b))
        PROVE  Before(part(a)[i], part(b)[j])
    <3>1. /\ part(a)[i] = s[end[a - 1] + i] /\ end[a - 1] + i \in (end[a - 1] + 1)..end[a]
          /\ part(b)[j] = s[end[b - 1] + j] /\ end[b - 1] + j \in (end[b - 1] + 1)..end[b]
      BY <1>5
    <3>2. end[a] <= end[b - 1]
      <4>1. a \in 0..m /\ b - 1 \in 0..m /\ a <= b - 1 /\ m \in Nat
        BY <1>m, <2>2
      <4> QED BY <1>2, <1>3, <4>1, EndsAscend
    <3>3. end[b - 1] + j \in DOMAIN s /\ end[a - 1] + i \in 1..((end[b - 1] + j) - 1)
      <4>1. PICK u \in Nat, v \in Nat, w \in Nat, z \in Nat :
               /\ u = end[a - 1] /\ v = end[a] /\ w = end[b - 1] /\ z = end[b] /\ z <= n
        BY <1>4
      <4>2. i \in Nat /\ j \in Nat /\ i # 0 /\ j # 0 /\ n \in Nat
        BY <1>2, <1>5
      <4>3. u + i <= v /\ v <= w /\ w + j <= z
        BY <3>1, <3>2, <4>1
      <4>4. w + j \in 1..n /\ u + i \in 1..((w + j) - 1)
        <5>1. w + j \in Nat /\ u + i \in Nat /\ u + i # 0 /\ w + j # 0
          BY <4>2
        <5>2. u + i <= w
          BY <4>2, <4>3
        <5>3. w < w + j /\ w + j <= n
          <6>1. w < w + j
            BY <4>2
          <6>2. z <= n /\ w + j <= z /\ w + j \in Nat
            BY <4>1, <4>3, <5>1
          <6> QED BY <4>2, <6>1, <6>2
        <5>4. u + i <= (w + j) - 1
          BY <4>2, <5>2
        <5> QED BY <4>2, <5>1, <5>3, <5>4
      <4> QED BY <1>1, <4>1, <4>4
    <3> QED BY <1>1, <3>1, <3>3 DEF InOrder
  <2> QED BY <1>7, <1>8, <2>1, <2>2 DEF OrderOK
<1>13. FilterOK(t)
  <2>1. t.filter = BloomFilter(E)
    BY <1>3
  <2>2. \A e \in E : ProbedBits(e.key, t.filter.len) \subseteq t.filter.bits
    BY <2>1 DEF BloomFilter
  <2> QED BY <1>11, <2>2 DEF FilterOK, MayContain
<1> QED BY <1>10, <1>11, <1>12, <1>13 DEF TableOK

-----------------------------------------------------------------------------
(* Lookups in a table *)

LEMMA FoundInBlockIs ==
    ASSUME NEW block \in Seq(Entry), NEW k, NEW s \in Nat
    PROVE  /\ \A x \in FoundInBlock(block, k, s) :
                 \E i \in 1..Len(block) :
                    /\ x = block[i] /\ block[i].key = k /\ block[i].seq <= s
                    /\ \A l \in 1..(i - 1) : block[l].key # k \/ block[l].seq > s
           /\ \A i \in 1..Len(block) :
                 /\ block[i].key = k /\ block[i].seq <= s
                 => \E x \in FoundInBlock(block, k, s) : TRUE
           /\ \A i \in 1..Len(block) :
                 /\ block[i].key = k /\ block[i].seq <= s
                 /\ \A l \in 1..(i - 1) : block[l].key # k \/ block[l].seq > s
                 => block[i] \in FoundInBlock(block, k, s)
<1>1. DOMAIN block = 1..Len(block)
  OBVIOUS
<1>2. \A x \in FoundInBlock(block, k, s) :
         \E i \in 1..Len(block) :
            /\ x = block[i] /\ block[i].key = k /\ block[i].seq <= s
            /\ \A l \in 1..(i - 1) : block[l].key # k \/ block[l].seq > s
  BY <1>1 DEF FoundInBlock
<1>3. \A i \in 1..Len(block) :
         /\ block[i].key = k /\ block[i].seq <= s
         /\ \A l \in 1..(i - 1) : block[l].key # k \/ block[l].seq > s
         => block[i] \in FoundInBlock(block, k, s)
  BY <1>1 DEF FoundInBlock
<1>4. ASSUME NEW j \in 1..Len(block), block[j].key = k, block[j].seq <= s
      PROVE  \E x \in FoundInBlock(block, k, s) : TRUE
  <2> DEFINE T == {i \in 1..Len(block) : block[i].key = k /\ block[i].seq <= s}
  <2>1. PICK i \in T : \A l \in T : i <= l
    <3>1. T \subseteq Nat /\ j \in T
      BY <1>4
    <3> HIDE DEF T
    <3> QED BY <3>1, LeastElement
  <2>2. ASSUME NEW l \in 1..(i - 1) PROVE block[l].key # k \/ block[l].seq > s
    <3>1. l \in 1..Len(block) /\ ~(i <= l)
      OBVIOUS
    <3>2. ~(block[l].key = k /\ block[l].seq <= s)
      BY <2>1, <3>1
    <3>3. block[l].seq \in Nat
      BY <3>1, EntryFields
    <3> QED BY <3>2, <3>3
  <2> QED BY <1>3, <2>1, <2>2
<1> QED BY <1>2, <1>3, <1>4

\* Between two keys of a block, the index sends a lookup into it.
LEMMA IndexCovers ==
    ASSUME NEW t, BlocksOK(t), OrderOK(t), NEW b \in DOMAIN t.blocks,
           NEW i \in 1..Len(Blk(t, b))
    PROVE  IndexMayContain(t.blocks[b], Blk(t, b)[i].key)
<1> DEFINE block == Blk(t, b)
           n == Len(block)
<1>1. /\ block \in Seq(Entry) /\ n # 0 /\ InOrder(block)
      /\ t.blocks[b].first = block[1] /\ t.blocks[b].last = block[n]
  BY DEF BlocksOK, OrderOK
<1>2. n \in Nat /\ DOMAIN block = 1..n /\ 1 \in 1..n /\ n \in 1..n /\ i \in 1..n
  BY <1>1
<1>3. block[1] \in Entry /\ block[n] \in Entry /\ block[i] \in Entry
  BY <1>1, <1>2
<1> HIDE DEF n, block
<1>4. block[1].key <= block[i].key
  <2>1. i = 1 \/ 1 \in 1..(i - 1)
    BY <1>2
  <2>2. i = 1 \/ Before(block[1], block[i])
    BY <1>1, <1>2, <2>1 DEF InOrder
  <2> QED BY <1>3, <2>2, EntryFields DEF Before
<1>5. block[i].key <= block[n].key
  <2>1. i = n \/ i \in 1..(n - 1)
    BY <1>2
  <2>2. i = n \/ Before(block[i], block[n])
    BY <1>1, <1>2, <2>1 DEF InOrder
  <2> QED BY <1>3, <2>2, EntryFields DEF Before
<1> QED BY <1>1, <1>4, <1>5 DEF IndexMayContain, n, block

\* The filter excludes no key of the table, the index no block that has the
\* key, and the first entry found is the newest visible one.
LEMMA FoundInTableIsNewest ==
    ASSUME NEW t, TableOK(t), NEW read, \A b \in DOMAIN t.blocks : read[b] = Blk(t, b),
           NEW k, NEW s \in Nat
    PROVE  FoundInTable(t, read, k, s) = Newest(TableEntries(t), k, s)
<1> DEFINE E == TableEntries(t)
           found(b) == IF IndexMayContain(t.blocks[b], k)
                       THEN FoundInBlock(read[b], k, s) ELSE {}
           hit(b) == \A a \in 1..(b - 1) : found(a) = {}
<1>0. BlocksOK(t) /\ OrderOK(t) /\ FilterOK(t)
  BY DEF TableOK
<1>1. \A b \in DOMAIN t.blocks : Blk(t, b) \in Seq(Entry) /\ DOMAIN Blk(t, b) = 1..Len(Blk(t, b))
  BY <1>0 DEF BlocksOK
<1>2. \A b \in DOMAIN t.blocks : b \in Nat /\ \A a \in 1..(b - 1) : a \in DOMAIN t.blocks /\ a < b
  BY <1>0 DEF BlocksOK
<1>3. \A a, b \in DOMAIN t.blocks : a < b \/ a = b \/ b < a
  BY <1>0 DEF BlocksOK
<1>4. FoundInTable(t, read, k, s) =
        IF MayContain(t.filter, k) THEN UNION {found(b) : b \in {c \in DOMAIN t.blocks : hit(c)}}
        ELSE {}
  BY DEF FoundInTable
<1>5. ASSUME NEW b \in DOMAIN t.blocks, NEW x \in found(b)
      PROVE  /\ x \in FoundInBlock(Blk(t, b), k, s)
             /\ \E i \in 1..Len(Blk(t, b)) :
                   /\ x = Blk(t, b)[i] /\ x.key = k /\ x.seq <= s
                   /\ \A l \in 1..(i - 1) : Blk(t, b)[l].key # k \/ Blk(t, b)[l].seq > s
  <2>1. x \in FoundInBlock(Blk(t, b), k, s)
    BY <1>5
  <2> QED BY <1>1, <2>1, FoundInBlockIs
<1>6. ASSUME NEW b \in DOMAIN t.blocks, NEW i \in 1..Len(Blk(t, b)),
             Blk(t, b)[i].key = k, Blk(t, b)[i].seq <= s
      PROVE  found(b) = FoundInBlock(Blk(t, b), k, s) /\ found(b) # {}
  <2>1. IndexMayContain(t.blocks[b], k)
    BY <1>0, <1>6, IndexCovers
  <2>2. FoundInBlock(Blk(t, b), k, s) # {}
    BY <1>1, <1>6, FoundInBlockIs
  <2> QED BY <2>1, <2>2
<1> HIDE DEF found
<1>7. ASSUME NEW b \in DOMAIN t.blocks, NEW c \in DOMAIN t.blocks,
             NEW i \in 1..Len(Blk(t, b)), NEW j \in 1..Len(Blk(t, c)),
             b < c \/ (b = c /\ i < j)
      PROVE  Before(Blk(t, b)[i], Blk(t, c)[j])
  <2>1. CASE b < c
    BY <1>0, <2>1 DEF OrderOK
  <2>2. CASE b = c /\ i < j
    <3>1. j \in DOMAIN Blk(t, c) /\ i \in 1..(j - 1)
      BY <1>1, <2>2
    <3> QED BY <1>0, <2>2, <3>1 DEF OrderOK, InOrder
  <2> QED BY <1>7, <2>1, <2>2
<1>8. ASSUME NEW x \in Newest(E, k, s) PROVE x \in FoundInTable(t, read, k, s)
  <2>1. x \in E /\ x.key = k /\ x.seq <= s
        /\ \A f \in E : f.key = k /\ f.seq <= s => f = x \/ Before(x, f)
    BY DEF Newest, VersionsOf
  <2>2. PICK b \in DOMAIN t.blocks : \E i \in 1..Len(Blk(t, b)) : x = Blk(t, b)[i]
    BY <1>0, <2>1, TableHas
  <2>3. PICK i \in 1..Len(Blk(t, b)) : x = Blk(t, b)[i]
    BY <2>2
  <2>4. ASSUME NEW c \in DOMAIN t.blocks, NEW l \in 1..Len(Blk(t, c)),
               Blk(t, c)[l].key = k, Blk(t, c)[l].seq <= s, Before(Blk(t, c)[l], x)
        PROVE  FALSE
    <3>1. Blk(t, c)[l] \in E /\ Blk(t, c)[l] \in Entry /\ x \in Entry
      BY <1>0, <1>1, <2>3, TableHas
    <3> QED BY <2>1, <2>4, <3>1, BeforeIsOrder
  <2>5. ASSUME NEW l \in 1..(i - 1) PROVE Blk(t, b)[l].key # k \/ Blk(t, b)[l].seq > s
    <3>1. l \in 1..Len(Blk(t, b)) /\ l < i
      BY <1>1
    <3>2. Before(Blk(t, b)[l], x)
      BY <1>7, <2>3, <3>1
    <3>3. ~(Blk(t, b)[l].key = k /\ Blk(t, b)[l].seq <= s)
      BY <2>4, <3>1, <3>2
    <3>4. Blk(t, b)[l].seq \in Nat
      BY <1>1, <3>1, EntryFields
    <3> QED BY <3>3, <3>4
  <2>6. x \in FoundInBlock(Blk(t, b), k, s)
    BY <1>1, <2>1, <2>3, <2>5, FoundInBlockIs
  <2>7. x \in found(b)
    BY <1>6, <2>1, <2>3, <2>6
  <2>8. hit(b)
    <3> SUFFICES ASSUME NEW a \in 1..(b - 1), NEW y \in found(a) PROVE FALSE
      OBVIOUS
    <3>1. a \in DOMAIN t.blocks /\ a < b
      BY <1>2
    <3>2. PICK l \in 1..Len(Blk(t, a)) : y = Blk(t, a)[l] /\ y.key = k /\ y.seq <= s
      BY <1>5, <3>1
    <3>3. Before(y, x)
      BY <1>7, <2>3, <3>1, <3>2
    <3> QED BY <2>4, <3>1, <3>2, <3>3
  <2>9. MayContain(t.filter, k)
    BY <1>0, <2>1 DEF FilterOK
  <2> QED BY <1>4, <2>7, <2>8, <2>9
<1>9. ASSUME NEW x \in FoundInTable(t, read, k, s) PROVE x \in Newest(E, k, s)
  <2>1. PICK b \in DOMAIN t.blocks : hit(b) /\ x \in found(b)
    BY <1>4
  <2>2. PICK i \in 1..Len(Blk(t, b)) :
           /\ x = Blk(t, b)[i] /\ x.key = k /\ x.seq <= s
           /\ \A l \in 1..(i - 1) : Blk(t, b)[l].key # k \/ Blk(t, b)[l].seq > s
    BY <1>5, <2>1
  <2>3. ASSUME NEW f \in E, f.key = k, f.seq <= s PROVE f = x \/ Before(x, f)
    <3>1. PICK c \in DOMAIN t.blocks : \E j \in 1..Len(Blk(t, c)) : f = Blk(t, c)[j]
      BY <1>0, TableHas
    <3>2. PICK j \in 1..Len(Blk(t, c)) : f = Blk(t, c)[j]
      BY <3>1
    <3>3. ~(c < b)
      <4> SUFFICES ASSUME c < b PROVE FALSE
        OBVIOUS
      <4>1. c \in 1..(b - 1)
        BY <1>0 DEF BlocksOK
      <4> QED BY <1>6, <2>1, <2>3, <3>2, <4>1
    <3>4. ~(c = b /\ j < i)
      <4> SUFFICES ASSUME c = b, j < i PROVE FALSE
        OBVIOUS
      <4>1. j \in 1..(i - 1)
        BY <1>1
      <4>2. f.seq > s
        BY <2>2, <2>3, <3>2, <4>1
      <4>3. f.seq \in Nat
        BY <1>1, <3>2, EntryFields
      <4> QED BY <2>3, <4>2, <4>3
    <3>5. b < c \/ (b = c /\ (i = j \/ i < j))
      <4>1. i \in Nat /\ j \in Nat
        BY <1>1
      <4> QED BY <1>3, <3>3, <3>4, <4>1
    <3> QED BY <1>7, <2>2, <3>2, <3>5
  <2>4. x \in E
    BY <1>0, <2>2, TableHas
  <2> QED BY <2>2, <2>3, <2>4 DEF Newest, VersionsOf
<1> QED BY <1>8, <1>9

-----------------------------------------------------------------------------
(* Seeking *)

\* A target to seek need not have a key that is in use.
Target == [key : Nat, seq : Nat, type : Types]

LEMMA BeforeTarget ==
    ASSUME NEW a \in Entry, NEW b \in Entry, NEW target \in Target, Before(a, b),
           Before(b, target)
    PROVE  Before(a, target)
<1>1. target.key \in Nat /\ target.seq \in Nat /\ target.type \in {"put", "del"}
  BY DEF Target, Types
<1> QED BY <1>1, EntryFields DEF Before

LEMMA PartitionIs ==
    ASSUME NEW sorted \in Seq(Entry), InOrder(sorted), NEW target \in Target
    PROVE  /\ PartitionPoint(sorted, target) \in 0..Len(sorted)
           /\ \A i \in 1..Len(sorted) :
                 Before(sorted[i], target) <=> i <= PartitionPoint(sorted, target)
<1> DEFINE S == {0} \cup {i \in DOMAIN sorted : Before(sorted[i], target)}
           p == Max(S)
<1>1. DOMAIN sorted = 1..Len(sorted) /\ Len(sorted) \in Nat /\ PartitionPoint(sorted, target) = p
  BY DEF PartitionPoint
<1>2. S \subseteq Nat /\ 0 \in S /\ \A n \in S : n <= Len(sorted)
  BY <1>1
<1>3. p \in S /\ \A n \in S : n <= p
  <2> HIDE DEF S
  <2> QED BY <1>1, <1>2, GreatestIs
<1>4. p \in 0..Len(sorted)
  BY <1>1, <1>2, <1>3
<1>5. ASSUME NEW i \in 1..Len(sorted), i <= p PROVE Before(sorted[i], target)
  <2>1. p \in DOMAIN sorted /\ Before(sorted[p], target)
    <3>1. p # 0
      BY <1>4, <1>5
    <3> HIDE DEF p
    <3> QED BY <1>3, <3>1
  <2>2. CASE i = p
    BY <2>1, <2>2
  <2>3. CASE i # p
    <3>1. i \in 1..(p - 1)
      BY <1>4, <1>5, <2>3
    <3>2. Before(sorted[i], sorted[p])
      BY <2>1, <3>1 DEF InOrder
    <3> QED BY <2>1, <3>2, BeforeTarget
  <2> QED BY <2>2, <2>3
<1>6. ASSUME NEW i \in 1..Len(sorted), Before(sorted[i], target) PROVE i <= p
  BY <1>1, <1>3, <1>6
<1> QED BY <1>1, <1>4, <1>5, <1>6

\* The entries of a table from a place in a block on.
From(t, b, p) ==
    {e \in Entry : \E c \in DOMAIN t.blocks : \E i \in 1..Len(Blk(t, c)) :
                      e = Blk(t, c)[i] /\ (b < c \/ (b = c /\ p <= i))}

LEMMA LastsInOrder ==
    ASSUME NEW t, BlocksOK(t), OrderOK(t)
    PROVE  /\ [b \in DOMAIN t.blocks |-> t.blocks[b].last] \in Seq(Entry)
           /\ Len([b \in DOMAIN t.blocks |-> t.blocks[b].last]) = Len(t.blocks)
           /\ InOrder([b \in DOMAIN t.blocks |-> t.blocks[b].last])
<1> DEFINE lasts == [b \in DOMAIN t.blocks |-> t.blocks[b].last]
           m == Len(t.blocks)
           n(b) == Len(Blk(t, b))
<1>1. m \in Nat /\ DOMAIN t.blocks = 1..m
  BY DEF BlocksOK
<1>2. ASSUME NEW b \in 1..m
      PROVE  /\ n(b) \in 1..n(b) /\ Blk(t, b)[n(b)] \in Entry
             /\ t.blocks[b].last = Blk(t, b)[n(b)]
  <2>1. /\ Blk(t, b) \in Seq(Entry) /\ n(b) # 0
        /\ t.blocks[b].last = Blk(t, b)[n(b)]
    BY <1>1 DEF BlocksOK
  <2>2. n(b) \in Nat
    BY <2>1
  <2> QED BY <2>1, <2>2
<1>3. lasts \in [1..m -> Entry]
  BY <1>1, <1>2
<1> HIDE DEF m
<1>4. lasts \in Seq(Entry) /\ Len(lasts) = m
  BY <1>1, <1>3
<1>5. ASSUME NEW i \in 1..m, NEW j \in 1..(i - 1) PROVE Before(lasts[j], lasts[i])
  <2>1. j \in 1..m /\ j < i
    BY <1>1
  <2>2. lasts[j] = Blk(t, j)[n(j)] /\ lasts[i] = Blk(t, i)[n(i)]
    BY <1>1, <1>2, <2>1
  <2>3. n(j) \in 1..n(j) /\ n(i) \in 1..n(i)
    BY <1>2, <2>1
  <2>4. Before(Blk(t, j)[n(j)], Blk(t, i)[n(i)])
    BY <1>1, <2>1, <2>3 DEF OrderOK
  <2> QED BY <2>2, <2>4
<1> QED BY <1>3, <1>4, <1>5 DEF InOrder, m

\* SSTableStorageIterator::seek finds the first entry not before the target, in
\* a block that has one, or else passes the last block.
LEMMA SeekFinds ==
    ASSUME NEW t, BlocksOK(t), OrderOK(t), NEW target \in Target
    PROVE  LET b == SeekBlock(t, target)
               p == SeekPlace(Blk(t, b), target)
           IN  /\ b \in Nat \ {0}
               /\ b \in DOMAIN t.blocks =>
                     /\ p \in 1..Len(Blk(t, b))
                     /\ From(t, b, p) = {e \in TableEntries(t) : ~Before(e, target)}
               /\ b \notin DOMAIN t.blocks =>
                     \A e \in TableEntries(t) : Before(e, target)
<1> DEFINE lasts == [b \in DOMAIN t.blocks |-> t.blocks[b].last]
           b == SeekBlock(t, target)
           m == Len(t.blocks)
           n(c) == Len(Blk(t, c))
           p == SeekPlace(Blk(t, b), target)
<1>1. m \in Nat /\ DOMAIN t.blocks = 1..m
  BY DEF BlocksOK
<1>2. lasts \in Seq(Entry) /\ Len(lasts) = m /\ InOrder(lasts)
  BY LastsInOrder
<1>3. ASSUME NEW c \in 1..m
      PROVE  /\ Blk(t, c) \in Seq(Entry) /\ n(c) \in Nat /\ n(c) # 0 /\ InOrder(Blk(t, c))
             /\ lasts[c] = Blk(t, c)[n(c)] /\ DOMAIN Blk(t, c) = 1..n(c) /\ lasts[c] \in Entry
  <2>1. Blk(t, c) \in Seq(Entry) /\ n(c) # 0 /\ t.blocks[c].last = Blk(t, c)[n(c)]
        /\ InOrder(Blk(t, c))
    BY <1>1 DEF BlocksOK, OrderOK
  <2>2. n(c) \in Nat /\ DOMAIN Blk(t, c) = 1..n(c)
    BY <2>1
  <2>3. Blk(t, c)[n(c)] \in Entry
    BY <2>1, <2>2
  <2> QED BY <1>1, <2>1, <2>2, <2>3
<1>4. b = 1 + PartitionPoint(lasts, target)
  BY DEF SeekBlock
<1> HIDE DEF lasts, b, m
<1>5. b - 1 \in 0..m /\ b \in Nat /\ b # 0 /\ \A c \in 1..m : Before(lasts[c], target) <=> c < b
  <2>1. PICK q \in 0..m : q = PartitionPoint(lasts, target)
                          /\ \A c \in 1..m : Before(lasts[c], target) <=> c <= q
    BY <1>2, PartitionIs
  <2>2. b = 1 + q
    BY <1>4, <2>1
  <2> QED BY <1>1, <2>1, <2>2
<1>6. ASSUME NEW c \in 1..m, c < b, NEW i \in 1..n(c) PROVE Before(Blk(t, c)[i], target)
  <2>1. Before(lasts[c], target)
    BY <1>5, <1>6
  <2>2. i = n(c) \/ i \in 1..(n(c) - 1)
    BY <1>3
  <2>3. i = n(c) \/ Before(Blk(t, c)[i], lasts[c])
    <3>1. n(c) \in DOMAIN Blk(t, c)
      BY <1>3
    <3> QED BY <1>3, <2>2, <3>1 DEF InOrder
  <2>4. Blk(t, c)[i] \in Entry /\ lasts[c] \in Entry
    BY <1>3
  <2> QED BY <1>3, <2>1, <2>3, <2>4, BeforeTarget
<1>7. \A e \in TableEntries(t) : e \in Entry /\ \E c \in 1..m : \E i \in 1..n(c) : e = Blk(t, c)[i]
  <2> SUFFICES ASSUME NEW e \in TableEntries(t)
               PROVE  e \in Entry /\ \E c \in 1..m : \E i \in 1..n(c) : e = Blk(t, c)[i]
    OBVIOUS
  <2>1. PICK c \in 1..m : \E i \in 1..n(c) : e = Blk(t, c)[i]
    BY <1>1, TableHas
  <2> QED BY <1>3, <2>1
<1>8. CASE b \notin 1..m
  <2>1. \A c \in 1..m : c < b
    BY <1>1, <1>5, <1>8
  <2>2. \A e \in TableEntries(t) : Before(e, target)
    BY <1>6, <1>7, <2>1
  <2> QED BY <1>1, <1>5, <1>8, <2>2 DEF b
<1>9. CASE b \in 1..m
  <2>1. p = 1 + PartitionPoint(Blk(t, b), target)
    BY DEF SeekPlace
  <2> HIDE DEF p
  <2>2. PICK q \in 0..n(b) : q = PartitionPoint(Blk(t, b), target)
                             /\ \A i \in 1..n(b) : Before(Blk(t, b)[i], target) <=> i <= q
    BY <1>3, <1>9, PartitionIs
  <2>3. ~Before(Blk(t, b)[n(b)], target)
    BY <1>3, <1>5, <1>9
  <2>4. n(b) \in 1..n(b)
    BY <1>3, <1>9
  <2>5. p \in 1..n(b) /\ \A i \in 1..n(b) : Before(Blk(t, b)[i], target) <=> ~(p <= i)
    <3>1. q \in Nat /\ n(b) \in Nat /\ p = 1 + q
      BY <1>3, <1>9, <2>1, <2>2
    <3>2. ~(n(b) <= q)
      BY <2>2, <2>3, <2>4
    <3> QED BY <2>2, <3>1, <3>2
  <2>6. ASSUME NEW c \in 1..m, b < c, NEW i \in 1..n(c) PROVE ~Before(Blk(t, c)[i], target)
    <3>1. Before(Blk(t, b)[n(b)], Blk(t, c)[i])
      BY <1>1, <1>9, <2>4, <2>6 DEF OrderOK
    <3>2. Blk(t, b)[n(b)] \in Entry /\ Blk(t, c)[i] \in Entry
      BY <1>3, <1>9, <2>4
    <3> QED BY <2>3, <3>1, <3>2, BeforeTarget
  <2>7. ASSUME NEW e \in From(t, b, p) PROVE e \in TableEntries(t) /\ ~Before(e, target)
    <3>1. PICK c \in 1..m : \E i \in 1..n(c) : e = Blk(t, c)[i] /\ (b < c \/ (b = c /\ p <= i))
      BY <1>1 DEF From
    <3>2. PICK i \in 1..n(c) : e = Blk(t, c)[i] /\ (b < c \/ (b = c /\ p <= i))
      BY <3>1
    <3>3. e \in TableEntries(t)
      BY <1>1, <3>2, TableHas
    <3> QED BY <2>5, <2>6, <3>2, <3>3
  <2>8. ASSUME NEW e \in TableEntries(t), ~Before(e, target) PROVE e \in From(t, b, p)
    <3>1. PICK c \in 1..m : \E i \in 1..n(c) : e = Blk(t, c)[i]
      BY <1>7
    <3>2. PICK i \in 1..n(c) : e = Blk(t, c)[i]
      BY <3>1
    <3>3. ~(c < b)
      BY <1>6, <2>8, <3>2
    <3>4. b < c \/ (b = c /\ p <= i)
      BY <1>1, <1>9, <2>5, <2>8, <3>2, <3>3
    <3>5. e \in Entry /\ c \in DOMAIN t.blocks
      BY <1>1, <1>7
    <3> QED BY <3>2, <3>4, <3>5 DEF From
  <2>9. From(t, b, p) = {e \in TableEntries(t) : ~Before(e, target)}
    BY <2>7, <2>8
  <2> QED BY <1>1, <1>5, <1>9, <2>5, <2>9 DEF b, p
<1> QED BY <1>8, <1>9

-----------------------------------------------------------------------------
(* Child iterators *)

TableSet == UNION {BuiltTables(E) : E \in SUBSET Entry}
TablesOK == files \in Seq(TableSet) /\ \A n \in DOMAIN files : TableOK(files[n])

\* The cache holds blocks of tables, each under its own key.
CacheHolds(c) ==
    \A n, b : <<n, b>> \in DOMAIN c =>
        n \in DOMAIN files /\ b \in DOMAIN files[n].blocks /\ c[<<n, b>>] = Blk(files[n], b)

Child == [num : Nat, block : Nat, place : Nat, data : Seq(Entry)]

ChildOK(c) ==
    /\ c \in Child /\ c.place # 0
    /\ c.num = 0 => InOrder(c.data)
    /\ c.num # 0 =>
          /\ c.num \in DOMAIN files /\ c.block # 0
          /\ c.block \in DOMAIN files[c.num].blocks =>
                c.data = Blk(files[c.num], c.block) /\ c.place <= Len(c.data)
          /\ c.block \notin DOMAIN files[c.num].blocks => c.data = <<>>

\* What a child still has to deliver, and all that it can deliver.
Remaining(c) ==
    IF c.num = 0 THEN {e \in Entry : \E i \in 1..Len(c.data) : c.place <= i /\ e = c.data[i]}
                 ELSE From(files[c.num], c.block, c.place)
AllOf(c) == IF c.num = 0 THEN {c.data[i] : i \in 1..Len(c.data)} ELSE TableEntries(files[c.num])

LEMMA BlockIs ==
    ASSUME CacheHolds(cache), NEW j, NEW n, NEW b
    PROVE  Block(j, n, b) = Blk(files[n], b)
BY DEF CacheHolds, Block, Cached, CacheKey, Blk

LEMMA ChildFields ==
    ASSUME NEW n, NEW b, NEW p, NEW d, NEW c,
           c = [num |-> n, block |-> b, place |-> p, data |-> d]
    PROVE  c.num = n /\ c.block = b /\ c.place = p /\ c.data = d
OBVIOUS

LEMMA LoadBlockIs ==
    ASSUME TablesOK, CacheHolds(cache), NEW j, NEW n \in DOMAIN files, NEW b \in Nat \ {0}
    PROVE  /\ ChildOK(LoadBlock(j, n, b)) /\ LoadBlock(j, n, b).num = n
           /\ Remaining(LoadBlock(j, n, b)) = From(files[n], b, 1)
<1>1. PICK c : c = LoadBlock(j, n, b)
  OBVIOUS
<1> DEFINE d == IF b \in DOMAIN files[n].blocks THEN Block(j, n, b) ELSE <<>>
<1>2. c.num = n /\ c.block = b /\ c.place = 1 /\ c.data = d
      /\ c = [num |-> n, block |-> b, place |-> 1, data |-> d]
  BY <1>1, ChildFields DEF LoadBlock
<1>3. n \in Nat /\ n # 0
  BY DEF TablesOK
<1>4. b \in DOMAIN files[n].blocks =>
         d = Blk(files[n], b) /\ d \in Seq(Entry) /\ Len(d) # 0 /\ Len(d) \in Nat
  <2>1. Block(j, n, b) = Blk(files[n], b)
    BY BlockIs
  <2>2. b \in DOMAIN files[n].blocks =>
           Blk(files[n], b) \in Seq(Entry) /\ Len(Blk(files[n], b)) # 0
    BY DEF TablesOK, TableOK, BlocksOK
  <2> QED BY <2>1, <2>2
<1>5. d \in Seq(Entry) /\ (b \notin DOMAIN files[n].blocks => d = <<>>)
  BY <1>4
<1> HIDE DEF d
<1>6. c \in Child
  BY <1>2, <1>3, <1>5 DEF Child
<1>7. ChildOK(c)
  BY <1>2, <1>3, <1>4, <1>5, <1>6 DEF ChildOK
<1> QED BY <1>1, <1>2, <1>3, <1>7 DEF Remaining

LEMMA InvalidIs ==
    ASSUME TablesOK, NEW c, ChildOK(c), ~Valid(c)
    PROVE  Remaining(c) = {}
<1>1. c.place \in Nat /\ c.block \in Nat /\ c.num \in Nat /\ c.data \in Seq(Entry)
      /\ Len(c.data) \in Nat /\ Len(c.data) < c.place
  <2>1. c.place \in Nat /\ c.block \in Nat /\ c.num \in Nat /\ c.data \in Seq(Entry)
    BY DEF ChildOK, Child
  <2> QED BY <2>1 DEF Valid
<1>2. CASE c.num = 0
  BY <1>1, <1>2 DEF Remaining
<1>3. CASE c.num # 0
  <2>1. c.num \in DOMAIN files /\ c.block # 0 /\ c.block \notin DOMAIN files[c.num].blocks
    BY <1>1, <1>3 DEF ChildOK
  <2>2. PICK m \in Nat : DOMAIN files[c.num].blocks = 1..m
    BY <2>1 DEF TablesOK, TableOK, BlocksOK
  <2>3. \A a \in 1..m : ~(c.block < a) /\ a # c.block
    BY <1>1, <2>1, <2>2
  <2> QED BY <1>3, <2>2, <2>3 DEF Remaining, From
<1> QED BY <1>2, <1>3

LEMMA CurrentIs ==
    ASSUME TablesOK, NEW c, ChildOK(c), Valid(c)
    PROVE  /\ Current(c) \in Entry /\ Current(c) \in Remaining(c)
           /\ \A f \in Remaining(c) : f = Current(c) \/ Before(Current(c), f)
<1>1. c.place \in Nat /\ c.place # 0 /\ c.block \in Nat /\ c.num \in Nat /\ c.data \in Seq(Entry)
      /\ Len(c.data) \in Nat /\ DOMAIN c.data = 1..Len(c.data) /\ c.place \in 1..Len(c.data)
  <2>1. c.place \in Nat /\ c.place # 0 /\ c.block \in Nat /\ c.num \in Nat /\ c.data \in Seq(Entry)
    BY DEF ChildOK, Child
  <2> QED BY <2>1 DEF Valid
<1>2. Current(c) = c.data[c.place] /\ Current(c) \in Entry
  BY <1>1 DEF Current
<1>3. InOrder(c.data) => \A i \in 1..Len(c.data) : c.place < i => Before(c.data[c.place], c.data[i])
  BY <1>1 DEF InOrder
<1>4. CASE c.num = 0
  <2>1. InOrder(c.data)
    BY <1>4 DEF ChildOK
  <2>2. \A i \in 1..Len(c.data) : c.place <= i => i = c.place \/ c.place < i
    BY <1>1
  <2> QED BY <1>1, <1>2, <1>3, <1>4, <2>1, <2>2 DEF Remaining
<1>5. CASE c.num # 0
  <2> DEFINE t == files[c.num]
  <2>1. c.num \in DOMAIN files /\ TableOK(t)
    BY <1>5 DEF ChildOK, TablesOK
  <2>2. c.block \in DOMAIN t.blocks /\ c.data = Blk(t, c.block)
    <3>1. c.data # <<>>
      BY <1>1
    <3> QED BY <1>5, <3>1 DEF ChildOK
  <2> HIDE DEF t
  <2>3. Remaining(c) = From(t, c.block, c.place)
    BY <1>5 DEF Remaining, t
  <2>4. Current(c) \in From(t, c.block, c.place)
    BY <1>1, <1>2, <2>2 DEF From
  <2>5. ASSUME NEW f \in From(t, c.block, c.place) PROVE f = Current(c) \/ Before(Current(c), f)
    <3>1. PICK a \in DOMAIN t.blocks : \E i \in 1..Len(Blk(t, a)) :
                  f = Blk(t, a)[i] /\ (c.block < a \/ (c.block = a /\ c.place <= i))
      BY DEF From
    <3>2. PICK i \in 1..Len(Blk(t, a)) :
             f = Blk(t, a)[i] /\ (c.block < a \/ (c.block = a /\ c.place <= i))
      BY <3>1
    <3>3. CASE c.block < a
      BY <1>1, <1>2, <2>1, <2>2, <3>2, <3>3 DEF TableOK, OrderOK
    <3>4. CASE c.block = a /\ c.place <= i
      <4>1. i \in 1..Len(c.data) /\ (i = c.place \/ c.place < i)
        BY <1>1, <2>2, <3>4
      <4>2. InOrder(c.data)
        BY <2>1, <2>2 DEF TableOK, OrderOK
      <4> QED BY <1>2, <1>3, <2>2, <3>2, <3>4, <4>1, <4>2
    <3> QED BY <3>2, <3>3, <3>4
  <2> QED BY <1>2, <2>3, <2>4, <2>5
<1> QED BY <1>4, <1>5

LEMMA NextIs ==
    ASSUME TablesOK, CacheHolds(cache), NEW j, NEW c, ChildOK(c), Valid(c)
    PROVE  /\ ChildOK(NextOf(j, c)) /\ NextOf(j, c).num = c.num
           /\ Remaining(NextOf(j, c)) = Remaining(c) \ {Current(c)}
<1> DEFINE n == NextOf(j, c)
           t == files[c.num]
<1>1. c.place \in Nat /\ c.place # 0 /\ c.block \in Nat /\ c.num \in Nat /\ c.data \in Seq(Entry)
      /\ Len(c.data) \in Nat /\ DOMAIN c.data = 1..Len(c.data) /\ c.place \in 1..Len(c.data)
      /\ c \in Child
  <2>1. c.place \in Nat /\ c.place # 0 /\ c.block \in Nat /\ c.num \in Nat /\ c.data \in Seq(Entry)
        /\ c \in Child
    BY DEF ChildOK, Child
  <2> QED BY <2>1 DEF Valid
<1>2. Current(c) = c.data[c.place] /\ Current(c) \in Entry
  BY <1>1 DEF Current
<1>3. InOrder(c.data) => \A i \in 1..Len(c.data) : c.place < i => c.data[i] # Current(c)
  <2> SUFFICES ASSUME InOrder(c.data), NEW i \in 1..Len(c.data), c.place < i
               PROVE  c.data[i] # Current(c)
    OBVIOUS
  <2>1. c.place \in 1..(i - 1) /\ i \in DOMAIN c.data
    BY <1>1
  <2>2. Before(c.data[c.place], c.data[i]) /\ c.data[i] \in Entry
    BY <1>1, <2>1 DEF InOrder
  <2> QED BY <1>2, <2>2, BeforeIsOrder
<1>4. CASE c.num = 0
  <2>1. InOrder(c.data)
    BY <1>4 DEF ChildOK
  <2>2. n = [c EXCEPT !.place = @ + 1]
    BY <1>4 DEF NextOf
  <2>3. n.num = c.num /\ n.block = c.block /\ n.place = c.place + 1 /\ n.data = c.data
        /\ n \in Child
    BY <1>1, <2>2 DEF Child
  <2>4. ChildOK(n)
    BY <1>1, <1>4, <2>1, <2>3 DEF ChildOK
  <2>5. \A i \in 1..Len(c.data) : c.place + 1 <= i <=> c.place <= i /\ i # c.place
    BY <1>1
  <2>6. \A i \in 1..Len(c.data) : c.place + 1 <= i <=> c.place <= i /\ c.data[i] # Current(c)
    <3>1. \A i \in 1..Len(c.data) : c.place <= i /\ i # c.place => c.place < i
      BY <1>1
    <3> QED BY <1>2, <1>3, <2>1, <2>5, <3>1
  <2>7. Remaining(n) = {e \in Entry : \E i \in 1..Len(c.data) : c.place + 1 <= i /\ e = c.data[i]}
        /\ Remaining(c) = {e \in Entry : \E i \in 1..Len(c.data) : c.place <= i /\ e = c.data[i]}
    BY <1>4, <2>3 DEF Remaining
  <2>8. Remaining(n) = Remaining(c) \ {Current(c)}
    <3> HIDE DEF n
    <3> QED BY <2>6, <2>7
  <2> QED BY <2>3, <2>4, <2>8
<1>5. CASE c.num # 0
  <2>1. c.num \in DOMAIN files /\ TableOK(t) /\ c.block # 0
    BY <1>5 DEF ChildOK, TablesOK
  <2>2. c.block \in DOMAIN t.blocks /\ c.data = Blk(t, c.block)
    <3>1. c.data # <<>>
      BY <1>1
    <3> QED BY <1>5, <3>1 DEF ChildOK
  <2>3. InOrder(c.data) /\ DOMAIN t.blocks = 1..Len(t.blocks) /\ Len(t.blocks) \in Nat
    BY <2>1, <2>2 DEF TableOK, OrderOK, BlocksOK
  <2>4. Remaining(c) = From(t, c.block, c.place)
    BY <1>5 DEF Remaining
  <2> HIDE DEF t
  <2>5. ASSUME NEW a \in DOMAIN t.blocks, c.block < a, NEW i \in 1..Len(Blk(t, a))
        PROVE  Blk(t, a)[i] # Current(c)
    <3>1. Before(Current(c), Blk(t, a)[i])
      BY <1>1, <1>2, <2>1, <2>2, <2>5 DEF TableOK, OrderOK
    <3>2. Blk(t, a)[i] \in Entry
      BY <2>1 DEF TableOK, BlocksOK
    <3> QED BY <1>2, <3>1, <3>2, BeforeIsOrder
  <2> DEFINE after(a, i) == c.block < a \/ (c.block = a /\ c.place < i)
  <2>6. \A a \in DOMAIN t.blocks : \A i \in 1..Len(Blk(t, a)) :
           after(a, i) <=> /\ c.block < a \/ (c.block = a /\ c.place <= i)
                           /\ Blk(t, a)[i] # Current(c)
    <3> SUFFICES ASSUME NEW a \in DOMAIN t.blocks, NEW i \in 1..Len(Blk(t, a))
                 PROVE  after(a, i) <=> /\ c.block < a \/ (c.block = a /\ c.place <= i)
                                        /\ Blk(t, a)[i] # Current(c)
      OBVIOUS
    <3>1. CASE c.block < a
      BY <2>5, <3>1
    <3>2. CASE c.block = a
      <4>1. i \in 1..Len(c.data) /\ Blk(t, a)[i] = c.data[i] /\ ~(c.block < a)
        BY <1>1, <2>2, <3>2
      <4>2. c.place < i => c.data[i] # Current(c) /\ c.place <= i
        BY <1>1, <1>3, <2>3, <4>1
      <4>3. c.place <= i /\ c.data[i] # Current(c) => c.place < i
        BY <1>1, <1>2, <4>1
      <4> QED BY <3>2, <4>1, <4>2, <4>3
    <3>3. CASE ~(c.block < a) /\ c.block # a
      BY <3>3
    <3> QED BY <3>1, <3>2, <3>3
  <2>7. From(t, c.block, c.place) \ {Current(c)} =
          {e \in Entry : \E a \in DOMAIN t.blocks : \E i \in 1..Len(Blk(t, a)) :
                            e = Blk(t, a)[i] /\ after(a, i)}
    <3> HIDE DEF after
    <3> QED BY <2>6 DEF From
  <2>8. CASE c.place < Len(c.data)
    <3>1. n = [c EXCEPT !.place = @ + 1]
      BY <2>8 DEF NextOf
    <3>2. n.num = c.num /\ n.block = c.block /\ n.place = c.place + 1 /\ n.data = c.data
          /\ n \in Child
      BY <1>1, <3>1 DEF Child
    <3>3. n.place <= Len(n.data) /\ n.place # 0
      BY <1>1, <2>8, <3>2
    <3>4. ChildOK(n)
      BY <1>5, <2>1, <2>2, <3>2, <3>3 DEF ChildOK, t
    <3>5. Remaining(n) = From(t, c.block, c.place + 1)
      BY <1>5, <3>2 DEF Remaining, t
    <3>6. \A a \in DOMAIN t.blocks : \A i \in 1..Len(Blk(t, a)) :
             (c.block < a \/ (c.block = a /\ c.place + 1 <= i)) <=> after(a, i)
      BY <1>1
    <3>7. From(t, c.block, c.place + 1) = From(t, c.block, c.place) \ {Current(c)}
      <4> HIDE DEF after
      <4> QED BY <2>7, <3>6 DEF From
    <3> QED BY <2>4, <3>2, <3>4, <3>5, <3>7
  <2>9. CASE ~(c.place < Len(c.data))
    <3>1. n = LoadBlock(j, c.num, c.block + 1)
      BY <1>5, <2>9 DEF NextOf
    <3>2. c.block + 1 \in Nat \ {0}
      BY <1>1
    <3>3. ChildOK(n) /\ n.num = c.num /\ Remaining(n) = From(t, c.block + 1, 1)
      BY <2>1, <3>1, <3>2, LoadBlockIs DEF t
    <3>4. \A a \in DOMAIN t.blocks : \A i \in 1..Len(Blk(t, a)) :
             (c.block + 1 < a \/ (c.block + 1 = a /\ 1 <= i)) <=> after(a, i)
      <4> SUFFICES ASSUME NEW a \in DOMAIN t.blocks, NEW i \in 1..Len(Blk(t, a))
                   PROVE  (c.block + 1 < a \/ (c.block + 1 = a /\ 1 <= i)) <=> after(a, i)
        OBVIOUS
      <4>1. c.block = a => ~(c.place < i)
        <5> SUFFICES ASSUME c.block = a, c.place < i PROVE FALSE
          OBVIOUS
        <5>1. i \in 1..Len(c.data)
          BY <2>2
        <5> QED BY <1>1, <2>9, <5>1
      <4>2. a \in Nat /\ 1 <= i
        BY <2>3
      <4> QED BY <1>1, <4>1, <4>2
    <3>5. From(t, c.block + 1, 1) = From(t, c.block, c.place) \ {Current(c)}
      <4> HIDE DEF after
      <4> QED BY <2>7, <3>4 DEF From
    <3> QED BY <2>4, <3>3, <3>5
  <2> QED BY <2>8, <2>9
<1> QED BY <1>4, <1>5

LEMMA SoughtIs ==
    ASSUME TablesOK, CacheHolds(cache), NEW j, NEW c, ChildOK(c), NEW target \in Target
    PROVE  /\ ChildOK(Sought(j, c, target)) /\ Sought(j, c, target).num = c.num
           /\ Remaining(Sought(j, c, target)) = {e \in AllOf(c) : ~Before(e, target)}
<1> DEFINE n == Sought(j, c, target)
           t == files[c.num]
<1>1. c.num \in Nat /\ c.data \in Seq(Entry) /\ Len(c.data) \in Nat /\ c \in Child
  <2>1. c.num \in Nat /\ c.data \in Seq(Entry) /\ c \in Child
    BY DEF ChildOK, Child
  <2> QED BY <2>1
<1>2. CASE c.num = 0
  <2>1. InOrder(c.data)
    BY <1>2 DEF ChildOK
  <2>2. n = [c EXCEPT !.place = SeekPlace(c.data, target)]
    BY <1>2 DEF Sought
  <2>3. PICK q \in 0..Len(c.data) : /\ SeekPlace(c.data, target) = 1 + q
                                    /\ \A i \in 1..Len(c.data) : Before(c.data[i], target) <=> i <= q
    BY <1>1, <2>1, PartitionIs DEF SeekPlace
  <2>4. n.num = c.num /\ n.block = c.block /\ n.place = 1 + q /\ n.data = c.data /\ n \in Child
        /\ n.place # 0
    BY <1>1, <2>2, <2>3 DEF Child
  <2>5. ChildOK(n)
    BY <1>2, <2>1, <2>4 DEF ChildOK
  <2>6. \A i \in 1..Len(c.data) : (1 + q <= i) <=> ~Before(c.data[i], target)
    BY <1>1, <2>3
  <2>7. Remaining(n) = {e \in Entry : \E i \in 1..Len(c.data) : 1 + q <= i /\ e = c.data[i]}
    BY <1>2, <2>4 DEF Remaining
  <2>8. \A i \in 1..Len(c.data) : c.data[i] \in Entry
    BY <1>1
  <2>9. AllOf(c) = {c.data[i] : i \in 1..Len(c.data)}
    BY <1>2 DEF AllOf
  <2>10. Remaining(n) = {e \in AllOf(c) : ~Before(e, target)}
    <3> HIDE DEF n
    <3> QED BY <2>6, <2>7, <2>8, <2>9
  <2> QED BY <2>4, <2>5, <2>10
<1>3. CASE c.num # 0
  <2> DEFINE b == SeekBlock(t, target)
             at == LoadBlock(j, c.num, b)
             p == SeekPlace(at.data, target)
  <2>1. c.num \in DOMAIN files /\ TableOK(t) /\ BlocksOK(t) /\ OrderOK(t)
    BY <1>3 DEF ChildOK, TablesOK, TableOK
  <2>2. n = [at EXCEPT !.place = p]
    BY <1>3 DEF Sought
  <2>3. AllOf(c) = TableEntries(t)
    BY <1>3 DEF AllOf
  <2>4. /\ b \in Nat \ {0}
        /\ b \in DOMAIN t.blocks =>
              /\ SeekPlace(Blk(t, b), target) \in 1..Len(Blk(t, b))
              /\ From(t, b, SeekPlace(Blk(t, b), target)) = {e \in TableEntries(t) : ~Before(e, target)}
        /\ b \notin DOMAIN t.blocks => \A e \in TableEntries(t) : Before(e, target)
    BY <2>1, SeekFinds
  <2>5. ChildOK(at)
    BY <2>1, <2>4, LoadBlockIs
  <2>6. at.num = c.num /\ at.block = b /\ at \in Child
    BY <2>5 DEF LoadBlock, ChildOK
  <2> HIDE DEF at
  <2>7. /\ b \in DOMAIN t.blocks => at.data = Blk(t, b)
        /\ b \notin DOMAIN t.blocks => at.data = <<>>
    BY <1>3, <2>5, <2>6 DEF ChildOK
  <2> HIDE DEF b, n, t
  <2>8. CASE b \in DOMAIN t.blocks
    <3>1. p \in 1..Len(Blk(t, b)) /\ From(t, b, p) = {e \in TableEntries(t) : ~Before(e, target)}
      BY <2>4, <2>7, <2>8
    <3> HIDE DEF p
    <3>2. Len(Blk(t, b)) \in Nat
      BY <2>1, <2>8 DEF BlocksOK
    <3>3. p \in Nat /\ p # 0 /\ p <= Len(Blk(t, b))
      BY <3>1, <3>2
    <3>4. n.num = c.num /\ n.block = b /\ n.place = p /\ n.data = Blk(t, b) /\ n \in Child
      BY <2>2, <2>6, <2>7, <2>8, <3>3 DEF Child
    <3>5. ChildOK(n)
      BY <1>3, <2>1, <2>4, <2>8, <3>3, <3>4 DEF ChildOK, t
    <3>6. Remaining(n) = From(t, b, p)
      BY <1>3, <3>4 DEF Remaining, t
    <3> QED BY <2>3, <3>1, <3>4, <3>5, <3>6 DEF n
  <2>9. CASE b \notin DOMAIN t.blocks
    <3>1. at.data = <<>> /\ <<>> \in Seq(Entry) /\ InOrder(<<>>) /\ Len(<<>>) = 0
      BY <2>7, <2>9 DEF InOrder
    <3>2. PartitionPoint(at.data, target) = 0
      <4>1. at.data \in Seq(Entry) /\ InOrder(at.data) /\ Len(at.data) = 0
        BY <3>1
      <4>2. PartitionPoint(at.data, target) \in 0..0
        BY <4>1, PartitionIs
      <4> QED BY <4>2
    <3>3. p = 1
      BY <3>2 DEF SeekPlace
    <3>4. n.num = c.num /\ n.block = b /\ n.place = 1 /\ n.data = <<>> /\ n \in Child
      BY <2>2, <2>6, <3>1, <3>3 DEF Child
    <3>5. ChildOK(n)
      BY <1>3, <2>1, <2>4, <2>9, <3>4 DEF ChildOK, t
    <3>6. ~Valid(n)
      BY <3>1, <3>4 DEF Valid
    <3>7. Remaining(n) = {}
      BY <3>5, <3>6, InvalidIs
    <3> QED BY <2>3, <2>4, <2>9, <3>4, <3>5, <3>7 DEF n
  <2> QED BY <2>8, <2>9
<1> QED BY <1>2, <1>3

LEMMA MissedIs ==
    ASSUME TablesOK, NEW j, NEW c, ChildOK(c), NEW m \in Missed(j, c)
    PROVE  \E n \in DOMAIN files : \E b \in DOMAIN files[n].blocks : m = <<n, b>>
BY DEF Missed, ChildOK

-----------------------------------------------------------------------------
(* The block cache *)

CacheOK(c) == IsFiniteSet(DOMAIN c) /\ Cardinality(DOMAIN c) <= CacheBlocks /\ CacheHolds(c)

\* An insert keeps the cache within its limit, whether the block is new or not.
LEMMA InsertedIs ==
    ASSUME NEW c, CacheOK(c), NEW n \in DOMAIN files, NEW b \in DOMAIN files[n].blocks,
           NEW d \in Inserted(c, n, b)
    PROVE  CacheOK(d)
<1> DEFINE new == <<n, b>>
<1>1. PICK kept \in Room(DOMAIN c) :
         d = [k \in kept \cup {new} |-> IF k = new THEN Decode(files[n].blocks[b].data) ELSE c[k]]
  BY DEF Inserted, CacheKey
<1>2. CacheBlocks \in Nat \ {0} /\ Cardinality(DOMAIN c) \in Nat /\ IsFiniteSet(DOMAIN c)
      /\ Cardinality(DOMAIN c) <= CacheBlocks
  BY ReadersAssumption, FS_CardinalityType DEF CacheOK
<1>3. kept \subseteq DOMAIN c /\ IsFiniteSet(kept) /\ Cardinality(kept) + 1 <= CacheBlocks
      /\ Cardinality(kept) \in Nat
  <2>1. CASE Cardinality(DOMAIN c) >= CacheBlocks
    <3>1. PICK x \in DOMAIN c : kept = DOMAIN c \ {x}
      BY <1>1, <2>1 DEF Room
    <3>2. IsFiniteSet(kept) /\ Cardinality(kept) = Cardinality(DOMAIN c) - 1
      BY <1>2, <3>1, FS_RemoveElement
    <3>3. Cardinality(kept) \in Nat
      BY <3>2, FS_CardinalityType
    <3>4. Cardinality(kept) + 1 <= CacheBlocks
      BY <1>2, <3>2, <3>3
    <3> QED BY <3>1, <3>2, <3>3, <3>4
  <2>2. CASE ~(Cardinality(DOMAIN c) >= CacheBlocks)
    <3>1. kept = DOMAIN c
      BY <1>1, <2>2 DEF Room
    <3> QED BY <1>2, <2>2, <3>1
  <2> QED BY <2>1, <2>2
<1>4. DOMAIN d = kept \cup {new}
  BY <1>1
<1>5. IsFiniteSet(DOMAIN d) /\ Cardinality(DOMAIN d) <= CacheBlocks
  <2>1. CASE new \in kept
    <3>1. DOMAIN d = kept
      BY <1>4, <2>1
    <3> QED BY <1>2, <1>3, <3>1
  <2>2. CASE new \notin kept
    <3>1. IsFiniteSet(kept \cup {new}) /\ Cardinality(kept \cup {new}) = Cardinality(kept) + 1
      BY <1>3, <2>2, FS_AddElement
    <3> QED BY <1>3, <1>4, <3>1
  <2> QED BY <2>1, <2>2
<1>6. CacheHolds(d)
  <2> SUFFICES ASSUME NEW p, NEW q, <<p, q>> \in DOMAIN d
               PROVE  p \in DOMAIN files /\ q \in DOMAIN files[p].blocks
                      /\ d[<<p, q>>] = Blk(files[p], q)
    BY DEF CacheHolds
  <2>1. CASE <<p, q>> = new
    <3>1. p = n /\ q = b
      BY <2>1
    <3>2. d[new] = Decode(files[n].blocks[b].data)
      BY <1>1
    <3> QED BY <2>1, <3>1, <3>2 DEF Blk
  <2>2. CASE <<p, q>> # new
    <3>1. <<p, q>> \in kept /\ d[<<p, q>>] = c[<<p, q>>]
      BY <1>1, <1>4, <2>2
    <3> QED BY <1>3, <3>1 DEF CacheOK, CacheHolds
  <2> QED BY <2>1, <2>2
<1> QED BY <1>5, <1>6 DEF CacheOK

\* A recursive function over the naturals up to n exists.
LEMMA CachesWithIs ==
    ASSUME TablesOK, NEW n \in DOMAIN files, NEW caches, \A c \in caches : CacheOK(c)
    PROVE  \A b \in 0..Len(files[n].blocks) : \A c \in CachesWith(caches, n)[b] : CacheOK(c)
<1> DEFINE m == Len(files[n].blocks)
           Step(old, b) == UNION {IF CacheKey(n, b) \in DOMAIN c THEN {c} ELSE Inserted(c, n, b) :
                                     c \in old}
           Solves(f, k) == f = [b \in 0..k |-> IF b = 0 THEN caches ELSE Step(f[b - 1], b)]
           T == {k \in 0..m : ~\E f : Solves(f, k)}
<1>1. m \in Nat /\ DOMAIN files[n].blocks = 1..m
  BY DEF TablesOK, TableOK, BlocksOK
<1> HIDE DEF m, Step
<1>2. T = {}
  <2> SUFFICES ASSUME T # {} PROVE FALSE
    OBVIOUS
  <2>1. PICK k \in T : \A l \in T : k <= l
    <3>1. T \subseteq Nat
      BY <1>1
    <3> HIDE DEF T
    <3> QED BY <3>1, LeastElement
  <2>2. k # 0
    <3>1. Solves([b \in 0..0 |-> caches], 0)
      OBVIOUS
    <3> QED BY <3>1
  <2>3. k - 1 \in 0..m /\ k \in Nat /\ ~(k <= k - 1)
    BY <1>1, <2>2
  <2>4. PICK f : Solves(f, k - 1)
    BY <2>1, <2>3
  <2> DEFINE g == [b \in 0..k |-> IF b = k THEN Step(f[k - 1], k) ELSE f[b]]
  <2>5. ASSUME NEW b \in 0..k PROVE g[b] = IF b = 0 THEN caches ELSE Step(g[b - 1], b)
    <3>1. CASE b = k
      <4>1. k - 1 \in 0..k /\ k - 1 # k
        BY <2>2, <2>3
      <4>2. g[k - 1] = f[k - 1]
        BY <4>1
      <4> QED BY <2>2, <3>1, <4>2
    <3>2. CASE b # k
      <4>1. b \in 0..(k - 1) /\ (b # 0 => b - 1 \in 0..k /\ b - 1 # k)
        BY <2>3, <3>2
      <4>2. g[b] = f[b] /\ (b # 0 => g[b - 1] = f[b - 1])
        BY <3>2, <4>1
      <4>3. f[b] = IF b = 0 THEN caches ELSE Step(f[b - 1], b)
        BY <2>4, <4>1
      <4> QED BY <4>2, <4>3
    <3> QED BY <3>1, <3>2
  <2>6. Solves(g, k)
    <3>1. g = [b \in 0..k |-> g[b]]
      OBVIOUS
    <3> HIDE DEF g
    <3> QED BY <2>5, <3>1
  <2> HIDE DEF g, Solves
  <2> QED BY <2>1, <2>6
<1>3. \E f : Solves(f, m)
  <2> HIDE DEF Solves
  <2>1. m \in 0..m
    BY <1>1
  <2> QED BY <1>2, <2>1
<1>4. CachesWith(caches, n) = CHOOSE f : Solves(f, m)
  BY DEF CachesWith, Step, m
<1>5. PICK f : f = CachesWith(caches, n) /\ Solves(f, m)
  <2> HIDE DEF Solves
  <2> QED BY <1>3, <1>4
<1> DEFINE U == {b \in 0..m : ~ \A c \in f[b] : CacheOK(c)}
<1>6. U = {}
  <2> SUFFICES ASSUME U # {} PROVE FALSE
    OBVIOUS
  <2>1. PICK b \in U : \A a \in U : b <= a
    <3>1. U \subseteq Nat
      BY <1>1
    <3> HIDE DEF U
    <3> QED BY <3>1, LeastElement
  <2>2. b # 0
    <3>1. 0 \in 0..m /\ f[0] = caches
      BY <1>1, <1>5
    <3> QED BY <3>1
  <2>3. b - 1 \in 0..m /\ ~(b <= b - 1) /\ b \in DOMAIN files[n].blocks
    BY <1>1, <2>2
  <2>4. \A c \in f[b - 1] : CacheOK(c)
    BY <2>1, <2>3
  <2>5. f[b] = Step(f[b - 1], b)
    BY <1>5, <2>2
  <2>6. \A c \in Step(f[b - 1], b) : CacheOK(c)
    BY <2>3, <2>4, InsertedIs DEF Step
  <2> QED BY <2>5, <2>6
<1> QED BY <1>5, <1>6 DEF m

LEMMA CachesAfterIs ==
    ASSUME TablesOK, tables \in Seq(DOMAIN files), CacheOK(cache)
    PROVE  \A c \in CachesAfter[Len(tables)] : CacheOK(c)
<1> DEFINE m == Len(tables)
           Step(old, i) == CachesWith(old, tables[i])[Len(files[tables[i]].blocks)]
           Solves(f, k) == f = [i \in 0..k |-> IF i = 0 THEN {cache} ELSE Step(f[i - 1], i)]
           T == {k \in 0..m : ~\E f : Solves(f, k)}
<1>1. m \in Nat /\ \A i \in 1..m : tables[i] \in DOMAIN files
  OBVIOUS
<1> HIDE DEF m, Step
<1>2. T = {}
  <2> SUFFICES ASSUME T # {} PROVE FALSE
    OBVIOUS
  <2>1. PICK k \in T : \A l \in T : k <= l
    <3>1. T \subseteq Nat
      BY <1>1
    <3> HIDE DEF T
    <3> QED BY <3>1, LeastElement
  <2>2. k # 0
    <3>1. Solves([i \in 0..0 |-> {cache}], 0)
      OBVIOUS
    <3> QED BY <3>1
  <2>3. k - 1 \in 0..m /\ k \in Nat /\ ~(k <= k - 1)
    BY <1>1, <2>2
  <2>4. PICK f : Solves(f, k - 1)
    BY <2>1, <2>3
  <2> DEFINE g == [i \in 0..k |-> IF i = k THEN Step(f[k - 1], k) ELSE f[i]]
  <2>5. ASSUME NEW i \in 0..k PROVE g[i] = IF i = 0 THEN {cache} ELSE Step(g[i - 1], i)
    <3>1. CASE i = k
      <4>1. k - 1 \in 0..k /\ k - 1 # k
        BY <2>2, <2>3
      <4>2. g[k - 1] = f[k - 1]
        BY <4>1
      <4> QED BY <2>2, <3>1, <4>2
    <3>2. CASE i # k
      <4>1. i \in 0..(k - 1) /\ (i # 0 => i - 1 \in 0..k /\ i - 1 # k)
        BY <2>3, <3>2
      <4>2. g[i] = f[i] /\ (i # 0 => g[i - 1] = f[i - 1])
        BY <3>2, <4>1
      <4>3. f[i] = IF i = 0 THEN {cache} ELSE Step(f[i - 1], i)
        BY <2>4, <4>1
      <4> QED BY <4>2, <4>3
    <3> QED BY <3>1, <3>2
  <2>6. Solves(g, k)
    <3>1. g = [i \in 0..k |-> g[i]]
      OBVIOUS
    <3> HIDE DEF g
    <3> QED BY <2>5, <3>1
  <2> HIDE DEF g, Solves
  <2> QED BY <2>1, <2>6
<1>3. \E f : Solves(f, m)
  <2>1. m \in 0..m
    BY <1>1
  <2> HIDE DEF Solves
  <2>2. m \notin T
    BY <1>2
  <2> QED BY <2>1, <2>2
<1>4. CachesAfter = CHOOSE f : Solves(f, m)
  BY DEF CachesAfter, Step, m
<1>5. PICK f : f = CachesAfter /\ Solves(f, m)
  <2> HIDE DEF Solves
  <2> QED BY <1>3, <1>4
<1> DEFINE U == {i \in 0..m : ~ \A c \in f[i] : CacheOK(c)}
<1>6. U = {}
  <2> SUFFICES ASSUME U # {} PROVE FALSE
    OBVIOUS
  <2>1. PICK i \in U : \A a \in U : i <= a
    <3>1. U \subseteq Nat
      BY <1>1
    <3> HIDE DEF U
    <3> QED BY <3>1, LeastElement
  <2>2. i # 0
    <3>1. 0 \in 0..m /\ f[0] = {cache}
      BY <1>1, <1>5
    <3> QED BY <3>1
  <2>3. i - 1 \in 0..m /\ ~(i <= i - 1) /\ i \in 1..m
    BY <1>1, <2>2
  <2>4. \A c \in f[i - 1] : CacheOK(c)
    BY <2>1, <2>3
  <2>5. f[i] = Step(f[i - 1], i)
    BY <1>5, <2>2
  <2>6. tables[i] \in DOMAIN files /\ Len(files[tables[i]].blocks) \in 0..Len(files[tables[i]].blocks)
    <3>1. Len(files[tables[i]].blocks) \in Nat
      BY <1>1, <2>3 DEF TablesOK, TableOK, BlocksOK
    <3> QED BY <1>1, <2>3, <3>1
  <2>7. \A c \in Step(f[i - 1], i) : CacheOK(c)
    BY <2>4, <2>6, CachesWithIs DEF Step
  <2> QED BY <2>5, <2>7
<1>7. \A c \in f[m] : CacheOK(c)
  <2>1. m \in 0..m
    BY <1>1
  <2> QED BY <1>6, <2>1
<1> HIDE DEF Solves
<1> QED BY <1>5, <1>7 DEF m

\* The blocks of the inputs are the entries of the tables.
LEMMA CompactReads ==
    ASSUME TablesOK, tables \in Seq(DOMAIN files), CacheHolds(cache)
    PROVE  UNION {ToSet(Block([fill |-> TRUE], m[1], m[2])) : m \in InputBlocks}
             = UNION {TableEntries(files[n]) : n \in ToSet(tables)}
<1>1. \A n \in ToSet(tables) : n \in DOMAIN files
  BY DEF ToSet
<1>2. ASSUME NEW n \in DOMAIN files
      PROVE  TableEntries(files[n]) = UNION {ToSet(Blk(files[n], b)) : b \in DOMAIN files[n].blocks}
  <2>1. ToSet(files[n].blocks) = {files[n].blocks[b] : b \in DOMAIN files[n].blocks}
    BY DEF ToSet
  <2> QED BY <2>1 DEF TableEntries, Blk
<1>3. \A m : Block([fill |-> TRUE], m[1], m[2]) = Blk(files[m[1]], m[2])
  BY BlockIs
<1>4. \A e : e \in UNION {ToSet(Block([fill |-> TRUE], m[1], m[2])) : m \in InputBlocks}
               <=> \E n \in ToSet(tables) : \E b \in DOMAIN files[n].blocks : e \in ToSet(Blk(files[n], b))
  <2>1. \A n \in ToSet(tables) : \A b \in DOMAIN files[n].blocks : <<n, b>> \in InputBlocks
    BY DEF InputBlocks
  <2>2. \A m \in InputBlocks : \E n \in ToSet(tables) : \E b \in DOMAIN files[n].blocks :
           m[1] = n /\ m[2] = b
    BY DEF InputBlocks
  <2>3. ASSUME NEW e, NEW m \in InputBlocks, e \in ToSet(Block([fill |-> TRUE], m[1], m[2]))
        PROVE  \E n \in ToSet(tables) : \E b \in DOMAIN files[n].blocks : e \in ToSet(Blk(files[n], b))
    BY <1>3, <2>2, <2>3
  <2>4. ASSUME NEW e, NEW n \in ToSet(tables), NEW b \in DOMAIN files[n].blocks,
               e \in ToSet(Blk(files[n], b))
        PROVE  \E m \in InputBlocks : e \in ToSet(Block([fill |-> TRUE], m[1], m[2]))
    <3>1. Block([fill |-> TRUE], n, b) = Blk(files[n], b)
      BY BlockIs
    <3>2. <<n, b>>[1] = n /\ <<n, b>>[2] = b /\ <<n, b>> \in InputBlocks
      BY <2>1
    <3> QED BY <2>4, <3>1, <3>2
  <2> QED BY <2>3, <2>4
<1> QED BY <1>1, <1>2, <1>4

-----------------------------------------------------------------------------
(* The store *)

TableData == UNION {TableEntries(files[n]) : n \in ToSet(tables)}
Live == mem \cup TableData

\* What is live answers reads at s like everything ever written.
Faithful(s) == \A k \in Keys : Visible(Newest(Live, k, s)) = Visible(Newest(history, k, s))

HistoryOK ==
    /\ history \subseteq Entry /\ IsFiniteSet(history) /\ LastSeq <= MaxWrites
    /\ \A e \in history : e.seq \in 1..LastSeq
    /\ UniqueSeqs(history)
LayersOK ==
    /\ mem \subseteq history /\ \A n \in DOMAIN files : TableEntries(files[n]) \subseteq history
    /\ tables \in Seq(DOMAIN files) /\ onDisk \subseteq DOMAIN files
    /\ \A e \in mem, f \in TableData : f.seq < e.seq
SnapshotsOK == snap \subseteq 0..LastSeq /\ \A s \in snap \cup {LastSeq} : Faithful(s)
StoreOK == HistoryOK /\ TablesOK /\ LayersOK /\ SnapshotsOK

LEMMA LastSeqIs ==
    ASSUME HistoryOK
    PROVE  LastSeq \in Nat /\ MaxWrites \in Nat /\ \A e \in history : e.seq <= LastSeq
<1>1. LastSeq \in Nat
  BY FS_CardinalityType DEF HistoryOK, LastSeq
<1> QED BY <1>1, ReadersAssumption DEF HistoryOK

\* The files never change once written, and 0 is not the number of one.
LEMMA AppendFile ==
    ASSUME TablesOK, NEW t \in TableSet, TableOK(t)
    PROVE  /\ Append(files, t) \in Seq(TableSet)
           /\ Len(files) \in Nat /\ DOMAIN files = 1..Len(files)
           /\ DOMAIN Append(files, t) = DOMAIN files \cup {Len(files) + 1}
           /\ Len(files) + 1 \notin DOMAIN files
           /\ \A n \in DOMAIN files : Append(files, t)[n] = files[n]
           /\ Append(files, t)[Len(files) + 1] = t
           /\ \A n \in DOMAIN Append(files, t) : TableOK(Append(files, t)[n])
<1>1. files \in Seq(TableSet) /\ \A n \in DOMAIN files : TableOK(files[n])
  BY DEF TablesOK
<1>2. /\ Append(files, t) \in Seq(TableSet) /\ Len(Append(files, t)) = Len(files) + 1
      /\ \A n \in 1..Len(files) : Append(files, t)[n] = files[n]
      /\ Append(files, t)[Len(files) + 1] = t
      /\ Len(files) \in Nat /\ DOMAIN files = 1..Len(files)
      /\ DOMAIN Append(files, t) = 1..(Len(files) + 1)
  BY <1>1
<1>3. 1..(Len(files) + 1) = 1..Len(files) \cup {Len(files) + 1} /\ Len(files) + 1 \notin 1..Len(files)
  BY <1>2
<1> QED BY <1>1, <1>2, <1>3

LEMMA NewestOfNew ==
    ASSUME NEW X, X \subseteq Entry, NEW n \in Nat, \A f \in X : f.seq <= n,
           NEW e \in Entry, NEW m, m = n + 1, e.seq = m, NEW k, NEW Y, Y = X \cup {e}
    PROVE  /\ k = e.key => Newest(Y, k, m) = {e}
           /\ k # e.key => Newest(Y, k, m) = Newest(X, k, n)
<1>1. \A f \in X : f.seq \in Nat /\ f.seq <= n /\ f.seq <= n + 1 /\ f.seq < n + 1
  BY EntryFields
<1>2. ASSUME k = e.key PROVE Newest(Y, k, m) = {e}
  <2>1. \A f \in VersionsOf(Y, k, m) : f = e \/ Before(e, f)
    BY <1>1, <1>2 DEF VersionsOf, Before
  <2>2. e \in VersionsOf(Y, k, m)
    BY <1>2 DEF VersionsOf
  <2>3. \A f \in VersionsOf(Y, k, m) : f \in Entry
    BY DEF VersionsOf
  <2>4. \A f \in Newest(Y, k, m) : f = e
    <3> SUFFICES ASSUME NEW f \in Newest(Y, k, m) PROVE f = e
      OBVIOUS
    <3>1. f \in VersionsOf(Y, k, m) /\ (e = f \/ Before(f, e))
      BY <2>2 DEF Newest
    <3> QED BY <2>1, <2>3, <3>1, BeforeIsOrder
  <2>5. e \in Newest(Y, k, m)
    BY <2>1, <2>2 DEF Newest
  <2> QED BY <2>4, <2>5
<1>3. ASSUME k # e.key PROVE Newest(Y, k, m) = Newest(X, k, n)
  <2>1. VersionsOf(Y, k, m) = VersionsOf(X, k, n)
    BY <1>1, <1>3 DEF VersionsOf
  <2> QED BY <2>1 DEF Newest
<1> QED BY <1>2, <1>3

LEMMA WriteStore ==
    ASSUME StoreOK, NEW k, NEW type, <<k, type>> \in Writes, Write(k, type)
    PROVE  /\ StoreOK' /\ LastSeq' = LastSeq + 1
           /\ history \subseteq history' /\ \A e \in history' \ history : e.seq = LastSeq + 1
<1> DEFINE e == [key |-> k, seq |-> LastSeq + 1, type |-> type]
<1>1. /\ LastSeq < MaxWrites /\ mem' = mem \cup {e} /\ history' = history \cup {e}
      /\ UNCHANGED <<tables, files, onDisk, snap>>
  BY DEF Write
<1>2. HistoryOK /\ LastSeq \in Nat /\ MaxWrites \in Nat /\ \A f \in history : f.seq <= LastSeq
  BY LastSeqIs DEF StoreOK
<1>3. e \in Entry /\ e.seq = LastSeq + 1 /\ e.key = k /\ k \in Keys
  <2>1. k \in Keys /\ type \in Types
    BY ReadersAssumption
  <2> QED BY <1>2, <2>1 DEF Entry
<1> HIDE DEF e
<1>4. e \notin history
  BY <1>2, <1>3
<1>5. IsFiniteSet(history') /\ LastSeq' = LastSeq + 1
  <2>1. IsFiniteSet(history)
    BY <1>2 DEF HistoryOK
  <2>2. IsFiniteSet(history \cup {e}) /\ Cardinality(history \cup {e}) = Cardinality(history) + 1
    BY <1>4, <2>1, FS_AddElement
  <2> QED BY <1>1, <2>2 DEF LastSeq
<1>6. HistoryOK'
  <2>1. history' \subseteq Entry /\ LastSeq' <= MaxWrites
    BY <1>1, <1>2, <1>3, <1>5 DEF HistoryOK
  <2>2. \A f \in history' : f.seq \in 1..LastSeq'
    BY <1>1, <1>2, <1>3, <1>5 DEF HistoryOK
  <2>3. UniqueSeqs(history')
    <3>1. \A f \in history : f.seq # e.seq
      BY <1>2, <1>3 DEF HistoryOK
    <3>2. UniqueSeqs(history)
      BY <1>2 DEF HistoryOK
    <3> QED BY <1>1, <3>1, <3>2 DEF UniqueSeqs
  <2> QED BY <1>5, <2>1, <2>2, <2>3 DEF HistoryOK
<1>7. TablesOK'
  <2>1. files' = files
    BY <1>1
  <2> QED BY <2>1 DEF StoreOK, TablesOK
<1>8. LayersOK /\ TableData' = TableData /\ TableData \subseteq history /\ Live \subseteq history
  <2>1. LayersOK
    BY DEF StoreOK
  <2>2. TableData \subseteq history
    BY <2>1 DEF LayersOK, TableData, ToSet
  <2>3. TableData' = TableData
    BY <1>1 DEF TableData
  <2> QED BY <2>1, <2>2, <2>3 DEF LayersOK, Live
<1>9. LayersOK'
  <2>1. mem' \subseteq history' /\ \A n \in DOMAIN files' : TableEntries(files'[n]) \subseteq history'
    BY <1>1, <1>8 DEF LayersOK
  <2>2. tables' \in Seq(DOMAIN files') /\ onDisk' \subseteq DOMAIN files'
    BY <1>1, <1>8 DEF LayersOK
  <2>3. \A f \in TableData : f.seq < e.seq
    <3>1. \A f \in TableData : f.seq \in Nat /\ f.seq <= LastSeq
      BY <1>2, <1>8, EntryFields DEF HistoryOK
    <3> QED BY <1>2, <1>3, <3>1
  <2>4. \A d \in mem', f \in TableData' : f.seq < d.seq
    BY <1>1, <1>8, <2>3 DEF LayersOK
  <2> QED BY <2>1, <2>2, <2>4 DEF LayersOK
<1>10. Live' = Live \cup {e} /\ history' = history \cup {e} /\ Live \subseteq Entry /\ history \subseteq Entry
  BY <1>1, <1>2, <1>8 DEF Live, HistoryOK
<1>11. \A f \in Live : f.seq <= LastSeq
  BY <1>2, <1>8
<1>12. ASSUME NEW s \in Nat, s <= LastSeq, Faithful(s) PROVE Faithful(s)'
  <2> SUFFICES ASSUME NEW l \in Keys
               PROVE  Visible(Newest(Live', l, s)) = Visible(Newest(history', l, s))
    BY DEF Faithful
  <2>1. ~(e.seq <= s)
    BY <1>2, <1>3, <1>12
  <2>2. Newest(Live', l, s) = Newest(Live, l, s)
    <3>1. \A f \in Live' \ Live : ~(f.seq <= s)
      BY <1>10, <2>1
    <3> QED BY <1>10, <3>1, NewestIgnoresNewer
  <2>3. Newest(history', l, s) = Newest(history, l, s)
    <3>1. \A f \in history' \ history : ~(f.seq <= s)
      BY <1>10, <2>1
    <3> QED BY <1>10, <3>1, NewestIgnoresNewer
  <2> QED BY <1>12, <2>2, <2>3 DEF Faithful
<1>13. ASSUME NEW s, s = LastSeq + 1 PROVE Faithful(s)'
  <2>1. Faithful(LastSeq)
    BY DEF StoreOK, SnapshotsOK
  <2>2. PICK n \in Nat : n = LastSeq
    BY <1>2
  <2>3. e.seq = s /\ s = n + 1 /\ (\A f \in history : f.seq <= n) /\ \A f \in Live : f.seq <= n
    BY <1>2, <1>3, <1>11, <1>13, <2>2
  <2>5. Newest(Live', e.key, s) = {e} /\ Newest(history', e.key, s) = {e}
    <3>1. e \in Entry /\ n \in Nat /\ e.seq = s /\ s = n + 1
      BY <1>3, <2>3
    <3>2. ASSUME NEW X, X \subseteq Entry, \A f \in X : f.seq <= n, NEW Y, Y = X \cup {e}
          PROVE  Newest(Y, e.key, s) = {e}
      BY <3>1, <3>2, NewestOfNew
    <3> QED BY <1>10, <2>3, <3>2
  <2>4. ASSUME NEW l \in Keys
        PROVE  Visible(Newest(Live', l, s)) = Visible(Newest(history', l, s))
    <3>1. CASE l = e.key
      <4>1. Newest(Live', l, s) = {e}
        BY <2>5, <3>1
      <4>2. Newest(history', l, s) = {e}
        BY <2>5, <3>1
      <4> QED BY <4>1, <4>2
    <3>2. CASE l # e.key
      <4>1. Newest(Live', l, s) = Newest(Live, l, n)
        BY <1>3, <1>10, <2>3, <3>2, NewestOfNew
      <4>2. Newest(history', l, s) = Newest(history, l, n)
        BY <1>3, <1>10, <2>3, <3>2, NewestOfNew
      <4> QED BY <2>1, <2>2, <4>1, <4>2 DEF Faithful
    <3> QED BY <3>1, <3>2
  <2> QED BY <2>4 DEF Faithful
<1>14. SnapshotsOK'
  <2>1. snap \subseteq 0..LastSeq /\ \A s \in snap : Faithful(s) /\ s \in Nat /\ s <= LastSeq
    BY <1>2 DEF StoreOK, SnapshotsOK
  <2>2. snap' \subseteq 0..LastSeq'
    BY <1>1, <1>2, <1>5, <2>1
  <2>3. \A s \in snap' : Faithful(s)'
    BY <1>1, <1>12, <2>1
  <2>4. \A s : s = LastSeq + 1 => Faithful(s)'
    BY <1>13
  <2>5. \A s \in snap' \cup {LastSeq'} : Faithful(s)'
    BY <1>5, <2>3, <2>4
  <2> QED BY <2>2, <2>5 DEF SnapshotsOK
<1>15. \A f \in history' \ history : f.seq = LastSeq + 1
  BY <1>1, <1>3
<1> QED BY <1>1, <1>5, <1>6, <1>7, <1>9, <1>14, <1>15 DEF StoreOK

\* A new table in place of some or of none.
LEMMA BuiltInStore ==
    ASSUME HistoryOK, NEW E, E \subseteq history, E # {}, NEW t \in BuiltTables(E)
    PROVE  t \in TableSet /\ TableOK(t) /\ TableEntries(t) = E
<1>1. E \subseteq Entry /\ IsFiniteSet(E) /\ LastSeq \in Nat /\ \A e \in E : e.seq <= LastSeq
  BY LastSeqIs, FS_Subset DEF HistoryOK
<1>2. t \in TableSet
  BY <1>1 DEF TableSet
<1>3. PICK n \in Nat : n = LastSeq
  BY <1>1
<1>4. \A e \in E : e.seq <= n
  BY <1>1, <1>3
<1> QED BY <1>1, <1>2, <1>4, BuiltIs

FilesGrow == \A n \in DOMAIN files : n \in DOMAIN files' /\ files'[n] = files[n]
HistoryGrows ==
    /\ history \subseteq history' /\ LastSeq <= LastSeq'
    /\ \A e \in history' \ history : ~(e.seq <= LastSeq)

\* DB::flush moves entries from the memtable to a table.
LEMMA FlushStore ==
    ASSUME StoreOK, Flush
    PROVE  StoreOK' /\ FilesGrow /\ UNCHANGED <<history, snap, cache, scan>>
<1>1. PICK t \in BuiltTables(mem) : files' = Append(files, t)
  BY DEF Flush
<1> DEFINE n == Len(files) + 1
<1>2. /\ mem # {} /\ tables' = <<n>> \o tables /\ mem' = {} /\ onDisk' = onDisk \cup {n}
      /\ UNCHANGED <<history, snap, cache, scan>>
  BY DEF Flush
<1>3. HistoryOK /\ TablesOK /\ LayersOK /\ SnapshotsOK /\ mem \subseteq history
  BY DEF StoreOK, LayersOK
<1>4. t \in TableSet /\ TableOK(t) /\ TableEntries(t) = mem
  BY <1>1, <1>2, <1>3, BuiltInStore
<1>5. /\ files' \in Seq(TableSet) /\ DOMAIN files' = DOMAIN files \cup {n} /\ n \notin DOMAIN files
      /\ \A m \in DOMAIN files : files'[m] = files[m]
      /\ files'[n] = t
      /\ \A m \in DOMAIN files' : TableOK(files'[m])
  BY <1>1, <1>3, <1>4, AppendFile
<1> HIDE DEF n
<1>6. tables \in Seq(DOMAIN files) /\ onDisk \subseteq DOMAIN files
      /\ \A m \in DOMAIN files : TableEntries(files[m]) \subseteq history
  BY <1>3 DEF LayersOK
<1>7. tables' \in Seq(DOMAIN files') /\ ToSet(tables') = {n} \cup ToSet(tables)
  <2>1. tables \in Seq(DOMAIN files') /\ <<n>> \in Seq(DOMAIN files')
    BY <1>5, <1>6
  <2>2. tables' \in Seq(DOMAIN files') /\ Len(tables') = Len(tables) + 1 /\ tables'[1] = n
        /\ \A i \in 1..Len(tables) : tables'[i + 1] = tables[i]
    BY <1>2, <2>1
  <2>3. Len(tables) \in Nat /\ DOMAIN tables = 1..Len(tables)
        /\ DOMAIN tables' = 1..(Len(tables) + 1)
    BY <1>6, <2>2
  <2>4. \A m \in ToSet(tables') : m \in {n} \cup ToSet(tables)
    <3> SUFFICES ASSUME NEW i \in 1..(Len(tables) + 1) PROVE tables'[i] \in {n} \cup ToSet(tables)
      BY <2>3 DEF ToSet
    <3>1. CASE i = 1
      BY <2>2, <3>1
    <3>2. CASE i # 1
      <4>1. i - 1 \in 1..Len(tables) /\ (i - 1) + 1 = i
        BY <2>3, <3>2
      <4>2. tables'[(i - 1) + 1] = tables[i - 1]
        BY <2>2, <4>1
      <4> QED BY <2>3, <4>1, <4>2 DEF ToSet
    <3> QED BY <3>1, <3>2
  <2>5. \A m \in {n} \cup ToSet(tables) : m \in ToSet(tables')
    <3>1. 1 \in DOMAIN tables' /\ \A i \in 1..Len(tables) : i + 1 \in DOMAIN tables'
      BY <2>3
    <3> QED BY <2>2, <2>3, <3>1 DEF ToSet
  <2> QED BY <2>2, <2>4, <2>5
<1>8. ToSet(tables) \subseteq DOMAIN files
  BY <1>6 DEF ToSet
<1>9. TableData' = mem \cup TableData /\ Live' = Live
  <2>1. \A m \in ToSet(tables) : TableEntries(files'[m]) = TableEntries(files[m])
    BY <1>5, <1>8
  <2>2. TableEntries(files'[n]) = mem
    BY <1>4, <1>5
  <2>3. TableData' = mem \cup TableData
    BY <1>7, <2>1, <2>2 DEF TableData
  <2> QED BY <1>2, <2>3 DEF Live
<1>10. TablesOK'
  BY <1>5 DEF TablesOK
<1>11. LayersOK'
  <2>1. \A m \in DOMAIN files' : TableEntries(files'[m]) \subseteq history'
    BY <1>2, <1>3, <1>4, <1>5, <1>6
  <2>2. onDisk' \subseteq DOMAIN files'
    BY <1>2, <1>5, <1>6
  <2> QED BY <1>2, <1>7, <2>1, <2>2 DEF LayersOK
<1>12. LastSeq' = LastSeq /\ HistoryOK'
  BY <1>2, <1>3 DEF HistoryOK, LastSeq
<1>13. SnapshotsOK'
  <2>1. \A s : Faithful(s) => Faithful(s)'
    BY <1>2, <1>9 DEF Faithful
  <2> QED BY <1>2, <1>3, <1>12, <2>1 DEF SnapshotsOK
<1> QED BY <1>2, <1>5, <1>10, <1>11, <1>12, <1>13 DEF StoreOK, FilesGrow

\* A compaction of all tables drops nothing that a snapshot or a read at the
\* last sequence sees, because what it leaves alone is newer.
LEMMA CompactStore ==
    ASSUME StoreOK, CacheHolds(cache), Compact,
           \A r \in Readers : scan[r].pc # "idle" => scan[r].seq \in 0..LastSeq
    PROVE  StoreOK' /\ FilesGrow /\ UNCHANGED <<mem, history, snap, scan>>
<1> DEFINE inputs == ToSet(tables)
           n == Len(files) + 1
           oldest == IF ActiveSequences = {} THEN LastSeq
                     ELSE CHOOSE s \in ActiveSequences : \A u \in ActiveSequences : s <= u
           output == CompactEntries(TableData, oldest, TRUE)
<1>1. HistoryOK /\ TablesOK /\ LayersOK /\ SnapshotsOK /\ mem \subseteq history /\ LastSeq \in Nat
      /\ tables \in Seq(DOMAIN files)
  BY LastSeqIs DEF StoreOK, LayersOK
<1>2. UNION {ToSet(Block([fill |-> TRUE], m[1], m[2])) : m \in InputBlocks} = TableData
  BY <1>1, CompactReads DEF TableData
<1>3. /\ UNCHANGED <<mem, history, snap, scan>>
      /\ \/ output = {} /\ tables' = <<>> /\ onDisk' = onDisk \ inputs /\ files' = files
         \/ /\ output # {} /\ tables' = <<n>> /\ onDisk' = (onDisk \ inputs) \cup {n}
            /\ \E t \in BuiltTables(output) : files' = Append(files, t)
  <2> HIDE DEF n
  <2> QED BY <1>2 DEF Compact, n
<1>4. oldest \in Nat /\ oldest <= LastSeq /\ \A s \in snap \cup {LastSeq} : s \in Nat /\ oldest <= s
  <2>1. snap \subseteq 0..LastSeq
    BY <1>1 DEF SnapshotsOK
  <2>2. ActiveSequences \subseteq 0..LastSeq /\ snap \subseteq ActiveSequences
    BY <2>1 DEF ActiveSequences
  <2>3. CASE ActiveSequences = {}
    <3>1. oldest = LastSeq /\ snap = {}
      BY <2>2, <2>3
    <3> HIDE DEF oldest
    <3> QED BY <1>1, <3>1
  <2>4. CASE ActiveSequences # {}
    <3>1. ActiveSequences \subseteq Nat
      BY <1>1, <2>2
    <3>2. \E s \in ActiveSequences : \A u \in ActiveSequences : s <= u
      BY <2>4, <3>1, LeastElement
    <3>3. oldest \in ActiveSequences /\ \A u \in ActiveSequences : oldest <= u
      BY <2>4, <3>2
    <3> HIDE DEF oldest
    <3> QED BY <1>1, <2>1, <2>2, <3>1, <3>3
  <2> QED BY <2>3, <2>4
<1> HIDE DEF oldest, n
<1>5. output \subseteq TableData /\ TableData \subseteq history /\ output \subseteq history
  <2>1. output \subseteq TableData
    BY DEF CompactEntries
  <2>2. TableData \subseteq history
    BY <1>1 DEF LayersOK, TableData, ToSet
  <2> QED BY <2>1, <2>2
<1>6. ASSUME NEW s \in snap \cup {LastSeq}, NEW k \in Keys
      PROVE  Visible(Newest(mem \cup output, k, s)) = Visible(Newest(mem \cup TableData, k, s))
  <2>1. mem \cup TableData \subseteq Entry /\ UniqueSeqs(mem \cup TableData)
    <3>1. mem \cup TableData \subseteq history
      BY <1>1, <1>5
    <3> QED BY <1>1, <3>1 DEF HistoryOK, UniqueSeqs
  <2>2. Separate(mem, TableData, TRUE)
    BY <1>1 DEF Separate, LayersOK
  <2>3. s \in Nat /\ oldest <= s /\ oldest \in Nat
    BY <1>4
  <2>4. ASSUME NEW drop, Separate(mem, TableData, drop)
        PROVE  Visible(Newest(mem \cup CompactEntries(TableData, oldest, drop), k, s))
                 = Visible(Newest(mem \cup TableData, k, s))
    BY <2>1, <2>3, <2>4, CompactionKeepsReads
  <2> QED BY <2>2, <2>4
<1> HIDE DEF output
<1>7. /\ TablesOK' /\ FilesGrow /\ tables' \in Seq(DOMAIN files') /\ onDisk' \subseteq DOMAIN files'
      /\ (\A m \in DOMAIN files' : TableEntries(files'[m]) \subseteq history)
      /\ TableData' = output
  <2>1. onDisk \subseteq DOMAIN files /\ \A m \in DOMAIN files : TableEntries(files[m]) \subseteq history
    BY <1>1 DEF LayersOK
  <2>2. CASE output = {} /\ tables' = <<>> /\ onDisk' = onDisk \ inputs /\ files' = files
    <3>1. ToSet(tables') = {}
      BY <2>2 DEF ToSet
    <3>2. TableData' = {}
      BY <3>1 DEF TableData
    <3>3. TablesOK' /\ tables' \in Seq(DOMAIN files')
      BY <1>1, <2>2 DEF TablesOK
    <3> QED BY <2>1, <2>2, <3>2, <3>3 DEF FilesGrow
  <2>3. CASE /\ output # {} /\ tables' = <<n>> /\ onDisk' = (onDisk \ inputs) \cup {n}
             /\ \E t \in BuiltTables(output) : files' = Append(files, t)
    <3>1. PICK t \in BuiltTables(output) : files' = Append(files, t)
      BY <2>3
    <3>2. t \in TableSet /\ TableOK(t) /\ TableEntries(t) = output
      BY <1>1, <1>5, <2>3, BuiltInStore
    <3>3. /\ files' \in Seq(TableSet) /\ DOMAIN files' = DOMAIN files \cup {n} /\ n \notin DOMAIN files
          /\ \A m \in DOMAIN files : files'[m] = files[m]
          /\ files'[n] = t
          /\ \A m \in DOMAIN files' : TableOK(files'[m])
      BY <1>1, <3>1, <3>2, AppendFile DEF n
    <3>4. ToSet(tables') = {n} /\ tables' \in Seq(DOMAIN files')
      BY <2>3, <3>3 DEF ToSet
    <3>5. TableEntries(files'[n]) = output
      BY <3>2, <3>3
    <3>6. TableData' = output
      BY <3>4, <3>5 DEF TableData
    <3>7. TablesOK' /\ FilesGrow
      BY <3>3 DEF TablesOK, FilesGrow
    <3>8. \A m \in DOMAIN files' : TableEntries(files'[m]) \subseteq history
      BY <1>5, <2>1, <3>3, <3>5
    <3> QED BY <2>1, <2>3, <3>3, <3>4, <3>6, <3>7, <3>8
  <2> QED BY <1>3, <2>2, <2>3
<1>8. LayersOK'
  <2>1. \A e \in mem', f \in TableData' : f.seq < e.seq
    BY <1>1, <1>3, <1>5, <1>7 DEF LayersOK
  <2> QED BY <1>1, <1>3, <1>7, <2>1 DEF LayersOK
<1>9. LastSeq' = LastSeq /\ HistoryOK'
  BY <1>1, <1>3 DEF HistoryOK, LastSeq
<1>10. SnapshotsOK'
  <2>1. Live' = mem \cup output /\ Live = mem \cup TableData
    BY <1>3, <1>7 DEF Live
  <2>2. \A s \in snap \cup {LastSeq} : Faithful(s)'
    BY <1>1, <1>3, <1>6, <2>1 DEF Faithful, SnapshotsOK
  <2> QED BY <1>1, <1>3, <1>9, <2>2 DEF SnapshotsOK
<1> QED BY <1>3, <1>7, <1>8, <1>9, <1>10 DEF StoreOK

-----------------------------------------------------------------------------
(* Readers *)

Row == [key : Nat, seq : Nat]
ScanRec ==
    [pc : {"open", "scan", "done", "failed"}, range : ScanRanges, fill : FillCache,
     pinned : BOOLEAN, seq : Nat, left : Seq(Nat), children : Seq(Child),
     missed : SUBSET (Nat \X Nat), seen : SUBSET Keys, rows : Seq(Row)]

\* What children and tables not yet opened have still to deliver.
OfChildren(cs) == UNION {Remaining(cs[i]) : i \in DOMAIN cs}
OfTables(left) == UNION {TableEntries(files[left[i]]) : i \in DOMAIN left}
Pending(j) == OfChildren(j.children) \cup OfTables(j.left)

Expected(j, k) == Visible(Newest(history, k, j.seq))

\* For a key without a decision what is pending decides as everything would ...
ToCome(j) ==
    \A k \in Keys : WithinBounds(k, j.range) /\ k \notin j.seen =>
        Visible(Newest(Pending(j), k, j.seq)) = Expected(j, k)
\* ... and a key with one is in the range and behind.
Behind(j) ==
    \A k \in j.seen : WithinBounds(k, j.range) /\ \A e \in Pending(j) : k <= e.key
RowsExact(j) ==
    /\ \A i \in 1..Len(j.rows) : j.rows[i].key \in j.seen /\ j.rows[i].seq \in Expected(j, j.rows[i].key)
    /\ \A k \in j.seen : \A v \in Expected(j, k) :
          \E i \in 1..Len(j.rows) : j.rows[i] = [key |-> k, seq |-> v]
    /\ \A i \in 2..Len(j.rows) : j.rows[i - 1].key < j.rows[i].key
RowsOK(j) == ToCome(j) /\ Behind(j) /\ RowsExact(j)

MissedOK(missed) ==
    \A m \in missed : \E n \in DOMAIN files : \E b \in DOMAIN files[n].blocks : m = <<n, b>>
ChildrenOK(cs) == \A i \in DOMAIN cs : ChildOK(cs[i])
Fresh(j) ==
    /\ j.seen = {} /\ j.rows = <<>>
    /\ \A i \in DOMAIN j.children : AllOf(j.children[i]) = Remaining(j.children[i])
ReaderOK(j) ==
    /\ j \in ScanRec /\ j.seq <= LastSeq
    /\ MissedOK(j.missed) /\ ChildrenOK(j.children)
    /\ j.left \in Seq(DOMAIN files) /\ Pending(j) \subseteq history
    /\ j.pc = "open" => Fresh(j)
    /\ j.pc \in {"scan", "done"} => j.left = <<>>
    /\ j.pc = "done" => j.children = <<>>
    /\ j.pc # "failed" => RowsOK(j)
ScansOK ==
    /\ scan \in [Readers -> {Idle} \cup ScanRec]
    /\ \A r \in Readers : \A j : j = scan[r] => j = Idle \/ ReaderOK(j)

LEMMA ChildFrame ==
    ASSUME TablesOK, FilesGrow, NEW c, ChildOK(c)
    PROVE  ChildOK(c)' /\ Remaining(c)' = Remaining(c) /\ AllOf(c)' = AllOf(c)
<1>1. c.num # 0 => c.num \in DOMAIN files /\ c.num \in DOMAIN files' /\ files'[c.num] = files[c.num]
  BY DEF ChildOK, FilesGrow
<1>2. ChildOK(c)'
  BY <1>1 DEF ChildOK
<1>3. Remaining(c)' = Remaining(c)
  BY <1>1 DEF Remaining
<1>4. AllOf(c)' = AllOf(c)
  BY <1>1 DEF AllOf
<1> QED BY <1>2, <1>3, <1>4

LEMMA ReaderFields ==
    ASSUME NEW j \in ScanRec
    PROVE  /\ j.pc \in {"open", "scan", "done", "failed"} /\ j.range \in ScanRanges
           /\ j.fill \in FillCache /\ j.pinned \in BOOLEAN /\ j.seq \in Nat
           /\ j.left \in Seq(Nat) /\ j.children \in Seq(Child)
           /\ j.missed \in SUBSET (Nat \X Nat) /\ j.seen \in SUBSET Keys /\ j.rows \in Seq(Row)
BY DEF ScanRec

\* What others write, flush and compact changes nothing for a reader.
LEMMA ReaderFrame ==
    ASSUME TablesOK, HistoryOK, FilesGrow, HistoryGrows, LastSeq' \in Nat, history' \subseteq Entry,
           NEW j, ReaderOK(j)
    PROVE  ReaderOK(j)'
<1>1. j \in ScanRec /\ j.seq <= LastSeq /\ j.seq \in Nat /\ LastSeq \in Nat
  BY ReaderFields, LastSeqIs DEF ReaderOK
<1>2. j.seq <= LastSeq'
  BY <1>1 DEF HistoryGrows
<1>3. MissedOK(j.missed)'
  BY DEF ReaderOK, MissedOK, FilesGrow
<1>4. ChildrenOK(j.children) /\ ChildrenOK(j.children)'
  BY ChildFrame DEF ReaderOK, ChildrenOK
<1>5. OfChildren(j.children)' = OfChildren(j.children)
  <2>1. \A i \in DOMAIN j.children : Remaining(j.children[i])' = Remaining(j.children[i])
    BY <1>4, ChildFrame DEF ChildrenOK
  <2> QED BY <2>1 DEF OfChildren
<1>6. (j.left \in Seq(DOMAIN files))' /\ OfTables(j.left)' = OfTables(j.left)
  <2>1. j.left \in Seq(DOMAIN files) /\ DOMAIN files \subseteq DOMAIN files'
    BY DEF ReaderOK, FilesGrow
  <2>2. j.left \in Seq(DOMAIN files')
    BY <2>1
  <2>3. \A i \in DOMAIN j.left : j.left[i] \in DOMAIN files
    BY <2>1
  <2>4. \A i \in DOMAIN j.left : files'[j.left[i]] = files[j.left[i]]
    BY <2>3 DEF FilesGrow
  <2> QED BY <2>2, <2>4 DEF OfTables
<1>7. Pending(j)' = Pending(j) /\ (Pending(j) \subseteq history)'
  BY <1>5, <1>6 DEF Pending, ReaderOK, HistoryGrows
<1>8. \A k : Expected(j, k)' = Expected(j, k)
  <2>1. \A e \in history' \ history : ~(e.seq <= j.seq)
    <3> SUFFICES ASSUME NEW e \in history', e \notin history, e.seq <= j.seq PROVE FALSE
      OBVIOUS
    <3>1. ~(e.seq <= LastSeq)
      BY DEF HistoryGrows
    <3>2. e.seq <= LastSeq
      <4>1. PICK n \in Nat : n = LastSeq
        BY <1>1
      <4>2. e.seq \in Nat
        BY EntryFields
      <4> QED BY <1>1, <4>1, <4>2
    <3> QED BY <3>1, <3>2
  <2>2. \A k : Newest(history', k, j.seq) = Newest(history, k, j.seq)
    BY <2>1, NewestIgnoresNewer DEF HistoryGrows
  <2> QED BY <2>2 DEF Expected
<1>9. j.pc = "open" => Fresh(j)'
  <2>1. \A i \in DOMAIN j.children : AllOf(j.children[i])' = AllOf(j.children[i])
                                     /\ Remaining(j.children[i])' = Remaining(j.children[i])
    BY <1>4, ChildFrame DEF ChildrenOK
  <2> QED BY <2>1 DEF ReaderOK, Fresh
<1>10. j.pc # "failed" => RowsOK(j)'
  <2> SUFFICES ASSUME RowsOK(j) PROVE RowsOK(j)'
    BY DEF ReaderOK
  <2>1. ToCome(j)'
    BY <1>7, <1>8 DEF RowsOK, ToCome
  <2>2. Behind(j)'
    BY <1>7 DEF RowsOK, Behind
  <2>3. RowsExact(j)'
    BY <1>8 DEF RowsOK, RowsExact
  <2> QED BY <2>1, <2>2, <2>3 DEF RowsOK
<1> QED BY <1>1, <1>2, <1>3, <1>4, <1>6, <1>7, <1>9, <1>10 DEF ReaderOK

-----------------------------------------------------------------------------
(* The merge *)

\* pick_current yields the smallest entry of all that is to come.
LEMMA PickedIs ==
    ASSUME TablesOK, NEW cs \in Seq(Child), ChildrenOK(cs), NEW i \in Picked(cs)
    PROVE  /\ i \in DOMAIN cs /\ Valid(cs[i]) /\ Current(cs[i]) \in OfChildren(cs)
           /\ \A f \in OfChildren(cs) : f = Current(cs[i]) \/ Before(Current(cs[i]), f)
<1>1. i \in DOMAIN cs /\ Valid(cs[i]) /\ ChildOK(cs[i])
  BY DEF Picked, ChildrenOK
<1>2. Current(cs[i]) \in Entry /\ Current(cs[i]) \in Remaining(cs[i])
  BY <1>1, CurrentIs
<1>3. ASSUME NEW l \in DOMAIN cs, NEW f \in Remaining(cs[l])
      PROVE  f = Current(cs[i]) \/ Before(Current(cs[i]), f)
  <2>1. ChildOK(cs[l])
    BY DEF ChildrenOK
  <2>2. Valid(cs[l])
    BY <1>3, <2>1, InvalidIs
  <2>3. Current(cs[l]) \in Entry /\ (f = Current(cs[l]) \/ Before(Current(cs[l]), f))
    BY <2>1, <2>2, CurrentIs
  <2>4. f \in Entry
    <3>1. CASE cs[l].num = 0
      BY <3>1 DEF Remaining
    <3>2. CASE cs[l].num # 0
      BY <3>2 DEF Remaining, From
    <3> QED BY <3>1, <3>2
  <2>5. CASE l = i
    BY <2>3, <2>5
  <2>6. CASE l # i
    <3>1. Current(cs[i]) = Current(cs[l]) \/ Before(Current(cs[i]), Current(cs[l]))
      BY <2>2, <2>6 DEF Picked
    <3> QED BY <1>2, <2>3, <2>4, <3>1, BeforeIsOrder
  <2> QED BY <2>5, <2>6
<1> QED BY <1>1, <1>2, <1>3 DEF OfChildren

LEMMA NonePicked ==
    ASSUME TablesOK, HistoryOK, NEW cs \in Seq(Child), ChildrenOK(cs),
           OfChildren(cs) \subseteq history, Picked(cs) = {}
    PROVE  OfChildren(cs) = {}
<1> SUFFICES ASSUME OfChildren(cs) # {} PROVE FALSE
  OBVIOUS
<1> DEFINE C == {Current(cs[l]) : l \in {l \in DOMAIN cs : Valid(cs[l])}}
<1>1. PICK i \in DOMAIN cs : Remaining(cs[i]) # {}
  BY DEF OfChildren
<1>2. Valid(cs[i])
  BY <1>1, InvalidIs DEF ChildrenOK
<1>3. C # {}
  BY <1>2
<1>4. C \subseteq history
  <2>1. \A l \in DOMAIN cs : Valid(cs[l]) => Current(cs[l]) \in Remaining(cs[l])
    BY CurrentIs DEF ChildrenOK
  <2> QED BY <2>1 DEF OfChildren
<1>5. PICK n \in Nat : \A e \in history : e.seq <= n
  BY LastSeqIs
<1>6. PICK e \in C : \A f \in C : f = e \/ Before(e, f)
  <2>1. C \subseteq Entry /\ \A f \in C : f.seq <= n
    BY <1>4, <1>5 DEF HistoryOK
  <2> HIDE DEF C
  <2> QED BY <1>3, <2>1, FirstEntry
<1> DEFINE T == {l \in DOMAIN cs : Valid(cs[l]) /\ Current(cs[l]) = e}
<1>7. PICK p \in T : \A l \in T : p <= l
  <2>1. T \subseteq Nat /\ T # {}
    BY <1>6
  <2> HIDE DEF T
  <2> QED BY <2>1, LeastElement
<1>8. p \in Picked(cs)
  <2> SUFFICES ASSUME NEW l \in DOMAIN cs, Valid(cs[l]), l # p
               PROVE  \/ Before(Current(cs[p]), Current(cs[l]))
                      \/ Current(cs[p]) = Current(cs[l]) /\ p < l
    BY <1>7 DEF Picked
  <2>1. Current(cs[l]) = e \/ Before(e, Current(cs[l]))
    BY <1>6
  <2>2. Current(cs[l]) = e => p <= l
    BY <1>7
  <2>3. p \in Nat /\ l \in Nat
    BY <1>7
  <2> QED BY <1>7, <2>1, <2>2, <2>3
<1> QED BY <1>8

-----------------------------------------------------------------------------
(* Steps of a reader *)

LEMMA FromStart ==
    ASSUME NEW t, BlocksOK(t)
    PROVE  From(t, 1, 1) = TableEntries(t)
<1>1. \A b \in DOMAIN t.blocks : \A i \in 1..Len(Blk(t, b)) :
         Blk(t, b)[i] \in Entry /\ (1 < b \/ (1 = b /\ 1 <= i))
  <2> SUFFICES ASSUME NEW b \in DOMAIN t.blocks, NEW i \in 1..Len(Blk(t, b))
               PROVE  Blk(t, b)[i] \in Entry /\ (1 < b \/ (1 = b /\ 1 <= i))
    OBVIOUS
  <2>1. Blk(t, b) \in Seq(Entry) /\ b \in 1..Len(t.blocks)
    BY DEF BlocksOK
  <2> QED BY <2>1
<1> QED BY <1>1, TableHas DEF From

LEMMA SameExact ==
    ASSUME NEW j, NEW q, RowsExact(j), q.seq = j.seq, q.seen = j.seen, q.rows = j.rows
    PROVE  RowsExact(q)
<1>1. \A k : Expected(q, k) = Expected(j, k)
  BY DEF Expected
<1> QED BY <1>1 DEF RowsExact

LEMMA SameRows ==
    ASSUME NEW j, NEW q, RowsOK(j), Pending(q) = Pending(j), q.range = j.range, q.seq = j.seq,
           q.seen = j.seen, q.rows = j.rows
    PROVE  RowsOK(q)
<1>1. \A k : Expected(q, k) = Expected(j, k)
  BY DEF Expected
<1>2. ToCome(q)
  BY <1>1 DEF RowsOK, ToCome
<1>3. Behind(q)
  BY DEF RowsOK, Behind
<1>4. RowsExact(q)
  BY <1>1 DEF RowsOK, RowsExact
<1> QED BY <1>2, <1>3, <1>4 DEF RowsOK

OpenedScan(range, fill, pinned) ==
    [pc |-> "open", range |-> range, fill |-> fill, pinned |-> pinned,
     seq |-> IF pinned THEN CHOOSE s \in snap : TRUE ELSE LastSeq,
     left |-> tables,
     children |-> IF mem = {} THEN <<>>
                  ELSE <<[num |-> 0, block |-> 1, place |-> 1, data |-> Sorted(mem)]>>,
     missed |-> {}, seen |-> {}, rows |-> <<>>]

LEMMA MemtableChild ==
    ASSUME HistoryOK, mem \subseteq history, NEW c,
           c = [num |-> 0, block |-> 1, place |-> 1, data |-> Sorted(mem)]
    PROVE  ChildOK(c) /\ Remaining(c) = mem /\ AllOf(c) = mem
<1> DEFINE s == Sorted(mem)
<1>1. PICK n \in Nat : \A e \in history : e.seq <= n
  BY LastSeqIs
<1>2. /\ s \in Seq(Entry) /\ InOrder(s) /\ \A i \in 1..Len(s) : s[i] \in mem
      /\ \A e \in mem : \E i \in 1..Len(s) : s[i] = e
  <2>1. mem \subseteq Entry /\ IsFiniteSet(mem) /\ \A e \in mem : e.seq <= n
    BY <1>1, FS_Subset DEF HistoryOK
  <2> QED BY <2>1, SortedIs
<1> HIDE DEF s
<1>3. c.num = 0 /\ c.block = 1 /\ c.place = 1 /\ c.data = s /\ c \in Child
  BY <1>2 DEF Child, s
<1>4. ChildOK(c)
  BY <1>2, <1>3 DEF ChildOK
<1>5. Len(s) \in Nat /\ mem \subseteq Entry
  BY <1>2 DEF HistoryOK
<1>6. Remaining(c) = mem
  <2>1. Remaining(c) = {e \in Entry : \E i \in 1..Len(s) : 1 <= i /\ e = s[i]}
    BY <1>3 DEF Remaining
  <2>2. \A i \in 1..Len(s) : 1 <= i
    BY <1>5
  <2>3. \A e \in mem : e \in Remaining(c)
    BY <1>2, <1>5, <2>1, <2>2
  <2>4. \A e \in Remaining(c) : e \in mem
    BY <1>2, <2>1
  <2> QED BY <2>3, <2>4
<1>7. AllOf(c) = mem
  BY <1>2, <1>3 DEF AllOf
<1> QED BY <1>4, <1>6, <1>7

\* scan_iter_opt captures everything that is live.
LEMMA OpenIs ==
    ASSUME StoreOK, NEW range \in ScanRanges, NEW fill \in FillCache, NEW pinned \in BOOLEAN,
           pinned => snap # {}, NEW j, j = OpenedScan(range, fill, pinned)
    PROVE  ReaderOK(j)
<1> DEFINE child == [num |-> 0, block |-> 1, place |-> 1, data |-> Sorted(mem)]
           cs == IF mem = {} THEN <<>> ELSE <<child>>
           s == IF pinned THEN CHOOSE u \in snap : TRUE ELSE LastSeq
<1>1. HistoryOK /\ TablesOK /\ LayersOK /\ SnapshotsOK /\ mem \subseteq history
  BY DEF StoreOK, LayersOK
<1>2. s \in Nat /\ s <= LastSeq /\ Faithful(s)
  <2>1. s \in snap \cup {LastSeq}
    OBVIOUS
  <2>2. LastSeq \in Nat /\ snap \subseteq 0..LastSeq
    BY <1>1, LastSeqIs DEF SnapshotsOK
  <2>3. Faithful(s)
    BY <1>1, <2>1 DEF SnapshotsOK
  <2> HIDE DEF s
  <2> QED BY <2>1, <2>2, <2>3
<1> HIDE DEF s
<1>3. ChildOK(child) /\ Remaining(child) = mem /\ AllOf(child) = mem
  BY <1>1, MemtableChild
<1>4. child \in Child
  BY <1>3 DEF ChildOK
<1> HIDE DEF child
<1>5. /\ cs \in Seq(Child) /\ ChildrenOK(cs) /\ OfChildren(cs) = mem
      /\ \A i \in DOMAIN cs : AllOf(cs[i]) = Remaining(cs[i])
  <2>1. CASE mem = {}
    <3>1. cs = <<>> /\ DOMAIN cs = {}
      BY <2>1
    <3> HIDE DEF cs
    <3> QED BY <2>1, <3>1 DEF ChildrenOK, OfChildren
  <2>2. CASE mem # {}
    <3>1. cs \in Seq(Child) /\ DOMAIN cs = {1} /\ cs[1] = child
      BY <1>4, <2>2
    <3> HIDE DEF cs
    <3> QED BY <1>3, <3>1 DEF ChildrenOK, OfChildren
  <2> QED BY <2>1, <2>2
<1> HIDE DEF cs
<1>6. tables \in Seq(DOMAIN files) /\ tables \in Seq(Nat) /\ OfTables(tables) = TableData
  <2>1. tables \in Seq(DOMAIN files)
    BY <1>1 DEF LayersOK
  <2>2. DOMAIN files \subseteq Nat
    BY <1>1 DEF TablesOK
  <2>3. tables \in Seq(Nat)
    BY <2>1, <2>2
  <2> QED BY <2>1, <2>3 DEF OfTables, TableData, ToSet
<1>7. j = [pc |-> "open", range |-> range, fill |-> fill, pinned |-> pinned, seq |-> s,
           left |-> tables, children |-> cs, missed |-> {}, seen |-> {}, rows |-> <<>>]
  BY DEF OpenedScan, s, cs, child
<1>8. /\ j.pc = "open" /\ j.range = range /\ j.seq = s /\ j.left = tables /\ j.children = cs
      /\ j.missed = {} /\ j.seen = {} /\ j.rows = <<>> /\ j \in ScanRec
  <2>1. <<>> \in Seq(Row) /\ {} \in SUBSET (Nat \X Nat) /\ {} \in SUBSET Keys
    OBVIOUS
  <2> QED BY <1>2, <1>5, <1>6, <1>7, <2>1 DEF ScanRec
<1>9. Pending(j) = Live /\ Live \subseteq history
  <2>1. TableData \subseteq history
    BY <1>1 DEF LayersOK, TableData, ToSet
  <2> QED BY <1>1, <1>5, <1>6, <1>8, <2>1 DEF Pending, Live
<1>10. RowsOK(j)
  <2>1. ToCome(j)
    BY <1>2, <1>8, <1>9 DEF ToCome, Expected, Faithful
  <2>2. Behind(j)
    BY <1>8 DEF Behind
  <2>3. Len(j.rows) = 0
    BY <1>8
  <2>4. RowsExact(j)
    BY <1>8, <2>3 DEF RowsExact
  <2> QED BY <2>1, <2>2, <2>4 DEF RowsOK
<1>11. Fresh(j) /\ MissedOK(j.missed)
  BY <1>5, <1>8 DEF Fresh, MissedOK
<1> QED BY <1>2, <1>5, <1>6, <1>8, <1>9, <1>10, <1>11 DEF ReaderOK

LEMMA AppendChild ==
    ASSUME NEW cs \in Seq(Child), NEW c \in Child
    PROVE  /\ Append(cs, c) \in Seq(Child)
           /\ OfChildren(Append(cs, c)) = OfChildren(cs) \cup Remaining(c)
           /\ \A i \in DOMAIN Append(cs, c) :
                 Append(cs, c)[i] = c \/ \E l \in DOMAIN cs : Append(cs, c)[i] = cs[l]
<1> DEFINE d == Append(cs, c)
<1>1. /\ d \in Seq(Child) /\ Len(d) = Len(cs) + 1 /\ d[Len(cs) + 1] = c
      /\ \A i \in 1..Len(cs) : d[i] = cs[i]
      /\ Len(cs) \in Nat /\ DOMAIN cs = 1..Len(cs) /\ DOMAIN d = 1..(Len(cs) + 1)
  OBVIOUS
<1> HIDE DEF d
<1>2. DOMAIN d = DOMAIN cs \cup {Len(cs) + 1}
  BY <1>1
<1>3. OfChildren(d) = OfChildren(cs) \cup Remaining(c)
  BY <1>1, <1>2 DEF OfChildren
<1>4. \A i \in DOMAIN d : d[i] = c \/ \E l \in DOMAIN cs : d[i] = cs[l]
  BY <1>1, <1>2
<1> QED BY <1>1, <1>3, <1>4 DEF d

\* A table that still exists is opened at its first entry.
LEMMA OpenTableIs ==
    ASSUME TablesOK, CacheHolds(cache), NEW j, ReaderOK(j), j.pc = "open", j.left # <<>>,
           NEW c, c = LoadBlock(j, Head(j.left), 1),
           NEW q, q = [j EXCEPT !.left = Tail(j.left), !.children = Append(j.children, c),
                                !.missed = Missed(j, c)]
    PROVE  ReaderOK(q)
<1> DEFINE n == Head(j.left)
<1>1. j \in ScanRec /\ j.left \in Seq(DOMAIN files) /\ ChildrenOK(j.children) /\ Fresh(j)
      /\ Pending(j) \subseteq history /\ RowsOK(j) /\ j.seq <= LastSeq
  BY DEF ReaderOK
<1>2. j.children \in Seq(Child)
  BY <1>1, ReaderFields
<1>3. n \in DOMAIN files /\ Tail(j.left) \in Seq(DOMAIN files)
      /\ OfTables(j.left) = TableEntries(files[n]) \cup OfTables(Tail(j.left))
  <2>1. /\ n \in DOMAIN files /\ Tail(j.left) \in Seq(DOMAIN files) /\ n = j.left[1]
        /\ Len(j.left) \in Nat /\ Len(j.left) # 0
        /\ DOMAIN j.left = 1..Len(j.left) /\ DOMAIN Tail(j.left) = 1..(Len(j.left) - 1)
        /\ \A i \in 1..(Len(j.left) - 1) : Tail(j.left)[i] = j.left[i + 1]
    <3>1. PICK s \in Seq(DOMAIN files) : s = j.left /\ s # <<>>
      BY <1>1
    <3>2. /\ Head(s) \in DOMAIN files /\ Tail(s) \in Seq(DOMAIN files) /\ Head(s) = s[1]
          /\ Len(s) \in Nat /\ Len(s) # 0
          /\ DOMAIN s = 1..Len(s) /\ DOMAIN Tail(s) = 1..(Len(s) - 1)
          /\ \A i \in 1..(Len(s) - 1) : Tail(s)[i] = s[i + 1]
      <4>1. /\ Head(s) \in DOMAIN files /\ Tail(s) \in Seq(DOMAIN files)
            /\ Len(Tail(s)) = Len(s) - 1 /\ \A i \in 1..Len(Tail(s)) : Tail(s)[i] = s[i + 1]
        BY <3>1, HeadTailProperties
      <4>2. Len(s) \in Nat /\ DOMAIN s = 1..Len(s) /\ Len(s) # 0
        BY <3>1, EmptySeq
      <4>3. DOMAIN Tail(s) = 1..Len(Tail(s)) /\ Head(s) = s[1]
        BY <3>1, <4>1 
      <4> QED BY <4>1, <4>2, <4>3
    <3> QED BY <3>1, <3>2
  <2>2. ASSUME NEW i \in DOMAIN j.left, i # 1
        PROVE  \E l \in DOMAIN Tail(j.left) : j.left[i] = Tail(j.left)[l]
    <3>1. i - 1 \in 1..(Len(j.left) - 1) /\ (i - 1) + 1 = i
      BY <2>1, <2>2
    <3> QED BY <2>1, <3>1
  <2>3. ASSUME NEW l \in DOMAIN Tail(j.left)
        PROVE  \E i \in DOMAIN j.left : j.left[i] = Tail(j.left)[l]
    <3>1. l + 1 \in DOMAIN j.left
      BY <2>1
    <3> QED BY <2>1, <3>1
  <2>4. 1 \in DOMAIN j.left
    BY <2>1
  <2>5. \A e : e \in OfTables(j.left) <=> e \in TableEntries(files[n]) \/ e \in OfTables(Tail(j.left))
    <3> DEFINE tl == Tail(j.left)
    <3> HIDE DEF tl, n
    <3>1. \A e \in OfTables(j.left) : e \in TableEntries(files[n]) \/ e \in OfTables(tl)
      BY <2>1, <2>2 DEF OfTables, tl
    <3>2. \A e \in TableEntries(files[n]) : e \in OfTables(j.left)
      BY <2>1, <2>4 DEF OfTables
    <3>3. \A e \in OfTables(tl) : e \in OfTables(j.left)
      BY <2>3 DEF OfTables, tl
    <3> QED BY <3>1, <3>2, <3>3 DEF tl
  <2> QED BY <2>1, <2>5
<1> HIDE DEF n
<1>4. ChildOK(c) /\ c \in Child /\ c.num = n /\ Remaining(c) = From(files[n], 1, 1)
  <2>1. ChildOK(c) /\ c.num = n /\ Remaining(c) = From(files[n], 1, 1)
    BY <1>3, LoadBlockIs DEF n
  <2> QED BY <2>1 DEF ChildOK
<1>5. Remaining(c) = TableEntries(files[n]) /\ AllOf(c) = TableEntries(files[n])
  <2>1. BlocksOK(files[n]) /\ n # 0
    BY <1>3 DEF TablesOK, TableOK
  <2>2. From(files[n], 1, 1) = TableEntries(files[n])
    BY <2>1, FromStart
  <2> QED BY <1>4, <2>1, <2>2 DEF AllOf
<1> DEFINE cs == Append(j.children, c)
<1>6. /\ cs \in Seq(Child)
      /\ OfChildren(cs) = OfChildren(j.children) \cup Remaining(c)
      /\ \A i \in DOMAIN cs : cs[i] = c \/ \E l \in DOMAIN j.children : cs[i] = j.children[l]
  BY <1>2, <1>4, AppendChild
<1> HIDE DEF cs
<1>7. Missed(j, c) \in SUBSET (Nat \X Nat) /\ MissedOK(Missed(j, c))
  <2>1. MissedOK(Missed(j, c))
    BY <1>4, MissedIs DEF MissedOK
  <2>2. \A m \in DOMAIN files : m \in Nat /\ \A b \in DOMAIN files[m].blocks : b \in Nat
    BY DEF TablesOK, TableOK, BlocksOK
  <2>3. \A m \in Missed(j, c) : m \in Nat \X Nat
    BY <2>1, <2>2 DEF MissedOK
  <2> QED BY <2>1, <2>3
<1>8. Tail(j.left) \in Seq(Nat)
  <2>1. DOMAIN files \subseteq Nat
    BY DEF TablesOK
  <2>2. PICK tl \in Seq(DOMAIN files) : tl = Tail(j.left)
    BY <1>3
  <2>3. tl \in Seq(Nat)
    BY <2>1
  <2> QED BY <2>2, <2>3
<1>9. /\ q.pc = "open" /\ q.range = j.range /\ q.seq = j.seq /\ q.left = Tail(j.left)
      /\ q.children = cs /\ q.missed = Missed(j, c) /\ q.seen = j.seen /\ q.rows = j.rows
      /\ q \in ScanRec
  <2>1. q = [j EXCEPT !.left = Tail(j.left), !.children = cs, !.missed = Missed(j, c)]
    BY DEF cs
  <2>2. PICK tl \in Seq(Nat), mi \in SUBSET (Nat \X Nat) : tl = Tail(j.left) /\ mi = Missed(j, c)
    BY <1>7, <1>8
  <2>3. q = [j EXCEPT !.left = tl, !.children = cs, !.missed = mi]
    BY <2>1, <2>2
  <2>4. /\ q.pc = j.pc /\ q.range = j.range /\ q.seq = j.seq /\ q.left = tl
        /\ q.children = cs /\ q.missed = mi /\ q.seen = j.seen /\ q.rows = j.rows
        /\ q \in ScanRec
    BY <1>1, <1>6, <2>3 DEF ScanRec
  <2> QED BY <2>2, <2>4
<1>10. ChildrenOK(cs) /\ \A i \in DOMAIN cs : AllOf(cs[i]) = Remaining(cs[i])
  BY <1>1, <1>4, <1>5, <1>6 DEF ChildrenOK, Fresh
<1>11. Pending(q) = Pending(j)
  BY <1>3, <1>5, <1>6, <1>9 DEF Pending
<1>12. RowsOK(q)
  BY <1>1, <1>9, <1>11, SameRows
<1>13. Fresh(q)
  BY <1>1, <1>9, <1>10 DEF Fresh
<1> QED BY <1>1, <1>3, <1>7, <1>9, <1>10, <1>11, <1>12, <1>13 DEF ReaderOK

\* The lower bound's seek key is before exactly what is below the bound.
LEMMA SeekKeyIs ==
    ASSUME NEW range \in ScanRanges, range.lower.kind # "unbounded"
    PROVE  /\ SeekKey(range.lower) \in Target
           /\ \A e \in Entry : WithinBounds(e.key, range) /\ e.seq <= MaxWrites
                                  => ~Before(e, SeekKey(range.lower))
<1>1. range \in [lower : Bounds, upper : Bounds] /\ MaxSequence \in Nat /\ MaxWrites \in Nat
      /\ MaxSequence > MaxWrites
  BY ReadersAssumption
<1>2. range.lower \in Bounds
  BY <1>1
<1> DEFINE lower == range.lower
           target == SeekKey(lower)
<1>3. lower.kind \in {"included", "excluded"} /\ lower.key \in Nat
  BY <1>2 DEF Bounds
<1>4. CASE lower.kind = "included"
  <2>1. target = [key |-> lower.key, seq |-> MaxSequence, type |-> "put"]
    BY <1>4 DEF SeekKey
  <2>2. target \in Target /\ target.key = lower.key /\ target.seq = MaxSequence
        /\ target.type = "put"
    BY <1>1, <1>3, <2>1 DEF Target, Types
  <2>3. ASSUME NEW e \in Entry, WithinBounds(e.key, range), e.seq <= MaxWrites
        PROVE  ~Before(e, target)
    <3>1. e.key \in Nat /\ e.seq \in Nat /\ e.key >= lower.key
      BY <1>4, <2>3, EntryFields DEF WithinBounds
    <3> HIDE DEF target, lower
    <3> QED BY <1>1, <1>3, <2>2, <2>3, <3>1 DEF Before
  <2> QED BY <2>2, <2>3
<1>5. CASE lower.kind = "excluded"
  <2>1. target = [key |-> lower.key, seq |-> 0, type |-> "del"]
    BY <1>5 DEF SeekKey
  <2>2. target \in Target /\ target.key = lower.key /\ target.seq = 0 /\ target.type = "del"
    BY <1>1, <1>3, <2>1 DEF Target, Types
  <2>3. ASSUME NEW e \in Entry, WithinBounds(e.key, range) PROVE ~Before(e, target)
    <3>1. e.key \in Nat /\ e.seq \in Nat /\ e.key > lower.key
      BY <1>5, <2>3, EntryFields DEF WithinBounds
    <3> HIDE DEF target, lower
    <3> QED BY <1>3, <2>2, <3>1 DEF Before
  <2> QED BY <2>2, <2>3
<1> QED BY <1>3, <1>4, <1>5

SoughtChildren(j) ==
    [i \in DOMAIN j.children |-> Sought(j, j.children[i], SeekKey(j.range.lower))]
SoughtOf(j, to) ==
    IF j.range.lower.kind = "unbounded" THEN [j EXCEPT !.pc = "scan"]
    ELSE [j EXCEPT !.pc = "scan", !.children = to,
                   !.missed = UNION {Missed(j, to[i]) : i \in DOMAIN to}]

LEMMA SeekIs ==
    ASSUME TablesOK, HistoryOK, CacheHolds(cache), NEW j, ReaderOK(j), j.pc = "open",
           j.left = <<>>, NEW to, to = SoughtChildren(j), NEW q, q = SoughtOf(j, to)
    PROVE  ReaderOK(q)
<1>1. j \in ScanRec /\ j.left \in Seq(DOMAIN files) /\ ChildrenOK(j.children) /\ Fresh(j)
      /\ Pending(j) \subseteq history /\ RowsOK(j) /\ j.seq <= LastSeq /\ MissedOK(j.missed)
  BY DEF ReaderOK
<1>2. j.children \in Seq(Child) /\ j.range \in ScanRanges /\ j.seq \in Nat
  BY <1>1, ReaderFields
<1>3. CASE j.range.lower.kind = "unbounded"
  <2>1. q = [j EXCEPT !.pc = "scan"]
    BY <1>3 DEF SoughtOf
  <2>2. /\ q.pc = "scan" /\ q.range = j.range /\ q.seq = j.seq /\ q.left = j.left
        /\ q.children = j.children /\ q.missed = j.missed /\ q.seen = j.seen /\ q.rows = j.rows
        /\ q \in ScanRec
    BY <1>1, <2>1 DEF ScanRec
  <2>3. Pending(q) = Pending(j)
    BY <2>2 DEF Pending
  <2>4. RowsOK(q)
    <3>1. RowsOK(j)
      BY <1>1
    <3> QED BY ONLY <2>2, <2>3, <3>1, SameRows
  <2> QED BY <1>1, <2>2, <2>3, <2>4 DEF ReaderOK
<1>4. CASE j.range.lower.kind # "unbounded"
  <2> DEFINE target == SeekKey(j.range.lower)
             missed == UNION {Missed(j, to[i]) : i \in DOMAIN to}
  <2>1. /\ target \in Target
        /\ \A e \in Entry : WithinBounds(e.key, j.range) /\ e.seq <= MaxWrites => ~Before(e, target)
    BY <1>2, <1>4, SeekKeyIs
  <2>2. to = [i \in DOMAIN j.children |-> Sought(j, j.children[i], target)]
    BY DEF SoughtChildren
  <2>3. q = [j EXCEPT !.pc = "scan", !.children = to, !.missed = missed]
    BY <1>4 DEF SoughtOf
  <2> HIDE DEF target, missed
  <2>4. ASSUME NEW i \in DOMAIN j.children
        PROVE  /\ ChildOK(to[i])
               /\ Remaining(to[i]) = {e \in Remaining(j.children[i]) : ~Before(e, target)}
    <3>1. ChildOK(j.children[i]) /\ AllOf(j.children[i]) = Remaining(j.children[i])
      BY <1>1 DEF ChildrenOK, Fresh
    <3>2. PICK c : c = j.children[i]
      OBVIOUS
    <3>3. PICK d : d = Sought(j, c, target)
      OBVIOUS
    <3>4. ChildOK(d) /\ Remaining(d) = {e \in AllOf(c) : ~Before(e, target)}
      BY <2>1, <3>1, <3>2, <3>3, SoughtIs
    <3>5. to[i] = d
      BY <2>2, <3>2, <3>3
    <3> QED BY <3>1, <3>2, <3>4, <3>5
  <2>5. to \in Seq(Child) /\ ChildrenOK(to) /\ DOMAIN to = DOMAIN j.children
    <3>1. PICK n \in Nat : DOMAIN j.children = 1..n
      BY <1>2
    <3>2. DOMAIN to = 1..n /\ \A i \in 1..n : to[i] \in Child
      BY <2>2, <2>4, <3>1 DEF ChildOK
    <3>3. to \in [1..n -> Child]
      BY <2>2, <3>1, <3>2
    <3> QED BY <2>4, <3>1, <3>3 DEF ChildrenOK
  <2>6. OfChildren(to) = {e \in OfChildren(j.children) : ~Before(e, target)}
    <3>1. ASSUME NEW e \in OfChildren(to) PROVE e \in OfChildren(j.children) /\ ~Before(e, target)
      <4>1. PICK i \in DOMAIN j.children : e \in Remaining(to[i])
        BY <2>5 DEF OfChildren
      <4>2. e \in Remaining(j.children[i]) /\ ~Before(e, target)
        BY <2>4, <4>1
      <4> QED BY <4>2 DEF OfChildren
    <3>2. ASSUME NEW e \in OfChildren(j.children), ~Before(e, target) PROVE e \in OfChildren(to)
      <4>1. PICK i \in DOMAIN j.children : e \in Remaining(j.children[i])
        BY <3>2 DEF OfChildren
      <4>2. e \in Remaining(to[i])
        BY <2>4, <3>2, <4>1
      <4> QED BY <2>5, <4>2 DEF OfChildren
    <3> QED BY <3>1, <3>2
  <2>7. missed \in SUBSET (Nat \X Nat) /\ MissedOK(missed)
    <3>1. MissedOK(missed)
      <4> SUFFICES ASSUME NEW i \in DOMAIN to, NEW m \in Missed(j, to[i])
                   PROVE  \E n \in DOMAIN files : \E b \in DOMAIN files[n].blocks : m = <<n, b>>
        BY DEF MissedOK, missed
      <4>1. ChildOK(to[i])
        BY <2>5 DEF ChildrenOK
      <4> QED BY <4>1, MissedIs
    <3>2. \A m \in DOMAIN files : m \in Nat /\ \A b \in DOMAIN files[m].blocks : b \in Nat
      BY DEF TablesOK, TableOK, BlocksOK
    <3>3. \A m \in missed : m \in Nat \X Nat
      BY <3>1, <3>2 DEF MissedOK
    <3> QED BY <3>1, <3>3
  <2>8. /\ q.pc = "scan" /\ q.range = j.range /\ q.seq = j.seq /\ q.left = j.left
        /\ q.children = to /\ q.missed = missed /\ q.seen = j.seen /\ q.rows = j.rows
        /\ q \in ScanRec
    BY <1>1, <2>3, <2>5, <2>7 DEF ScanRec
  <2>9. OfTables(j.left) = {}
    BY DEF OfTables
  <2>10. Pending(q) = {e \in Pending(j) : ~Before(e, target)} /\ Pending(q) \subseteq history
    BY <1>1, <2>6, <2>8, <2>9 DEF Pending
  <2>11. ASSUME NEW k \in Keys, WithinBounds(k, j.range)
         PROVE  Newest(Pending(q), k, j.seq) = Newest(Pending(j), k, j.seq)
    <3>1. \A e \in Pending(j) : e \in Entry /\ e.seq <= MaxWrites
      <4>1. LastSeq <= MaxWrites /\ history \subseteq Entry /\ LastSeq \in Nat /\ MaxWrites \in Nat
            /\ \A e \in history : e.seq <= LastSeq
        BY LastSeqIs DEF HistoryOK
      <4>2. \A e \in history : e \in Entry /\ e.seq <= MaxWrites
        <5> SUFFICES ASSUME NEW e \in history PROVE e \in Entry /\ e.seq <= MaxWrites
          OBVIOUS
        <5>1. e \in Entry /\ e.seq \in Nat /\ e.seq <= LastSeq
          BY <4>1, EntryFields
        <5> QED BY <4>1, <5>1
      <4> QED BY <1>1, <4>2
    <3>2. \A e \in Pending(j) : e.key = k => ~Before(e, target)
      BY <2>1, <2>11, <3>1
    <3>3. VersionsOf(Pending(q), k, j.seq) = VersionsOf(Pending(j), k, j.seq)
      BY <2>10, <3>2 DEF VersionsOf
    <3> QED BY <3>3 DEF Newest
  <2>12. \A k : Expected(q, k) = Expected(j, k)
    BY <2>8 DEF Expected
  <2>13. ToCome(q)
    <3>1. ToCome(j)
      BY <1>1 DEF RowsOK
    <3> QED BY <2>8, <2>11, <2>12, <3>1 DEF ToCome
  <2>14. Behind(q)
    BY <1>1, <2>8, <2>10 DEF RowsOK, Behind
  <2>15. RowsExact(q)
    <3>1. RowsExact(j)
      BY <1>1 DEF RowsOK
    <3> QED BY <2>8, <3>1, SameExact
  <2>16. RowsOK(q)
    BY <2>13, <2>14, <2>15 DEF RowsOK
  <2> QED BY <1>1, <2>5, <2>7, <2>8, <2>10, <2>16 DEF ReaderOK
<1> QED BY <1>3, <1>4

LEMMA DoneIs ==
    ASSUME TablesOK, HistoryOK, NEW j, ReaderOK(j), j.pc = "scan", Picked(j.children) = {},
           NEW q, q = [j EXCEPT !.pc = "done", !.children = <<>>]
    PROVE  ReaderOK(q)
<1>1. j \in ScanRec /\ j.left \in Seq(DOMAIN files) /\ ChildrenOK(j.children) /\ j.left = <<>>
      /\ Pending(j) \subseteq history /\ RowsOK(j) /\ j.seq <= LastSeq /\ MissedOK(j.missed)
  BY DEF ReaderOK
<1>2. j.children \in Seq(Child)
  BY <1>1, ReaderFields
<1>3. OfChildren(j.children) = {}
  BY <1>1, <1>2, NonePicked DEF Pending
<1>4. <<>> \in Seq(Child) /\ OfChildren(<<>>) = {} /\ ChildrenOK(<<>>)
  BY DEF OfChildren, ChildrenOK
<1>5. /\ q.pc = "done" /\ q.range = j.range /\ q.seq = j.seq /\ q.left = j.left
      /\ q.children = <<>> /\ q.missed = j.missed /\ q.seen = j.seen /\ q.rows = j.rows
      /\ q \in ScanRec
  BY <1>1, <1>4 DEF ScanRec
<1>6. Pending(q) = Pending(j)
  BY <1>3, <1>4, <1>5 DEF Pending
<1>7. RowsOK(q)
  BY <1>1, <1>5, <1>6, SameRows
<1> QED BY <1>1, <1>4, <1>5, <1>6, <1>7 DEF ReaderOK

Moved(j, i) ==
    [j EXCEPT !.children[i] = NextOf(j, j.children[i]),
              !.missed = IF NextOf(j, j.children[i]).block = j.children[i].block THEN {}
                         ELSE Missed(j, NextOf(j, j.children[i]))]

\* One round takes the smallest entry.
LEMMA MovedIs ==
    ASSUME TablesOK, HistoryOK, CacheHolds(cache), NEW j, ReaderOK(j), j.pc = "scan",
           NEW i \in Picked(j.children), NEW q, q = Moved(j, i),
           NEW e, e = Current(j.children[i])
    PROVE  /\ q.pc = "scan" /\ q.range = j.range /\ q.seq = j.seq /\ q.left = <<>>
           /\ q.seen = j.seen /\ q.rows = j.rows /\ q \in ScanRec
           /\ MissedOK(q.missed) /\ ChildrenOK(q.children)
           /\ e \in Pending(j) /\ \A f \in Pending(j) : f = e \/ Before(e, f)
           /\ Pending(q) \subseteq Pending(j) /\ Pending(j) \ {e} \subseteq Pending(q)
<1> DEFINE cs == j.children
           to == NextOf(j, cs[i])
           ds == [cs EXCEPT ![i] = to]
           mi == IF to.block = cs[i].block THEN {} ELSE Missed(j, to)
<1>1. j \in ScanRec /\ ChildrenOK(cs) /\ j.left = <<>>
  BY DEF ReaderOK
<1>2. cs \in Seq(Child)
  BY <1>1, ReaderFields
<1>3. /\ i \in DOMAIN cs /\ Valid(cs[i]) /\ e \in OfChildren(cs)
      /\ \A f \in OfChildren(cs) : f = e \/ Before(e, f)
  BY <1>1, <1>2, PickedIs
<1>4. ChildOK(to) /\ Remaining(to) = Remaining(cs[i]) \ {e}
  <2>1. PICK c : c = cs[i]
    OBVIOUS
  <2>2. ChildOK(c) /\ Valid(c) /\ e = Current(c)
    BY <1>1, <1>3, <2>1 DEF ChildrenOK
  <2>3. ChildOK(NextOf(j, c)) /\ Remaining(NextOf(j, c)) = Remaining(c) \ {Current(c)}
    BY <2>2, NextIs
  <2> QED BY <2>1, <2>2, <2>3
<1>5. mi \in SUBSET (Nat \X Nat) /\ MissedOK(mi)
  <2>1. MissedOK(mi)
    <3> SUFFICES ASSUME NEW m \in mi
                 PROVE  \E n \in DOMAIN files : \E b \in DOMAIN files[n].blocks : m = <<n, b>>
      BY DEF MissedOK
    <3>1. m \in Missed(j, to)
      OBVIOUS
    <3> HIDE DEF to, mi
    <3> QED BY <1>4, <3>1, MissedIs
  <2>2. \A m \in DOMAIN files : m \in Nat /\ \A b \in DOMAIN files[m].blocks : b \in Nat
    BY DEF TablesOK, TableOK, BlocksOK
  <2> HIDE DEF mi
  <2>3. \A m \in mi : m \in Nat \X Nat
    BY <2>1, <2>2 DEF MissedOK
  <2> QED BY <2>1, <2>3
<1>6. to \in Child
  BY <1>4 DEF ChildOK
<1>7. q = [j EXCEPT !.children = ds, !.missed = mi]
  BY <1>1 DEF Moved, ScanRec
<1> HIDE DEF to, mi
<1>8. ds \in Seq(Child) /\ DOMAIN ds = DOMAIN cs /\ ds[i] = to
      /\ \A l \in DOMAIN cs : l # i => ds[l] = cs[l]
  <2> HIDE DEF cs
  <2>1. PICK n \in Nat : cs \in [1..n -> Child] /\ DOMAIN cs = 1..n
    BY <1>2
  <2>2. ds \in [1..n -> Child]
    BY <1>6, <2>1
  <2> QED BY <1>3, <2>1, <2>2
<1> HIDE DEF ds
<1>9. /\ q.pc = "scan" /\ q.range = j.range /\ q.seq = j.seq /\ q.left = <<>>
      /\ q.children = ds /\ q.missed = mi /\ q.seen = j.seen /\ q.rows = j.rows /\ q \in ScanRec
  BY <1>1, <1>5, <1>7, <1>8 DEF ScanRec
<1> HIDE DEF cs
<1>10. ChildrenOK(ds)
  BY <1>1, <1>4, <1>8 DEF ChildrenOK
<1>11. Pending(j) = OfChildren(cs) /\ Pending(q) = OfChildren(ds)
  <2>1. OfTables(<<>>) = {}
    BY DEF OfTables
  <2> QED BY <1>1, <1>9, <2>1 DEF Pending, cs
<1>12. ASSUME NEW f \in OfChildren(ds) PROVE f \in OfChildren(cs)
  <2>1. PICK l \in DOMAIN ds : f \in Remaining(ds[l])
    BY DEF OfChildren
  <2>2. f \in Remaining(cs[l])
    <3>1. CASE l = i
      BY <1>4, <1>8, <2>1, <3>1
    <3>2. CASE l # i
      BY <1>8, <2>1, <3>2
    <3> QED BY <3>1, <3>2
  <2> QED BY <1>8, <2>2 DEF OfChildren
<1>13. ASSUME NEW f \in OfChildren(cs), f # e PROVE f \in OfChildren(ds)
  <2>1. PICK l \in DOMAIN cs : f \in Remaining(cs[l])
    BY DEF OfChildren
  <2>2. f \in Remaining(ds[l])
    <3>1. CASE l = i
      BY <1>4, <1>8, <1>13, <2>1, <3>1
    <3>2. CASE l # i
      BY <1>8, <2>1, <3>2
    <3> QED BY <3>1, <3>2
  <2> QED BY <1>8, <2>2 DEF OfChildren
<1> QED BY <1>3, <1>5, <1>9, <1>10, <1>11, <1>12, <1>13

\* What a round passes over decides nothing for a key without a decision.
LEMMA SkipIs ==
    ASSUME HistoryOK, NEW j, ReaderOK(j), j.pc = "scan", NEW e \in Pending(j),
           \A f \in Pending(j) : f = e \/ Before(e, f),
           ~(e.seq <= j.seq /\ WithinBounds(e.key, j.range) /\ e.key \notin j.seen),
           NEW q, q.range = j.range, q.seq = j.seq, q.seen = j.seen, q.rows = j.rows,
           Pending(q) \subseteq Pending(j), Pending(j) \ {e} \subseteq Pending(q)
    PROVE  RowsOK(q)
<1>1. RowsOK(j)
  BY DEF ReaderOK
<1>2. ASSUME NEW k, WithinBounds(k, j.range), k \notin j.seen
      PROVE  Newest(Pending(q), k, j.seq) = Newest(Pending(j), k, j.seq)
  <2>1. ~(e.key = k /\ e.seq <= j.seq)
    BY <1>2
  <2>2. VersionsOf(Pending(q), k, j.seq) = VersionsOf(Pending(j), k, j.seq)
    BY <2>1 DEF VersionsOf
  <2> QED BY <2>2 DEF Newest
<1>3. \A k : Expected(q, k) = Expected(j, k)
  BY DEF Expected
<1>4. ToCome(q)
  BY <1>1, <1>2, <1>3 DEF RowsOK, ToCome
<1>5. Behind(q)
  BY <1>1 DEF RowsOK, Behind
<1>6. RowsExact(q)
  BY <1>1, SameExact DEF RowsOK
<1> QED BY <1>4, <1>5, <1>6 DEF RowsOK

\* The first visible entry of a key decides it, and it is behind then.
LEMMA AcceptIs ==
    ASSUME HistoryOK, NEW j, ReaderOK(j), j.pc = "scan", NEW e \in Pending(j),
           \A f \in Pending(j) : f = e \/ Before(e, f),
           e.seq <= j.seq, WithinBounds(e.key, j.range), e.key \notin j.seen,
           NEW q, q.range = j.range, q.seq = j.seq, q.seen = j.seen \cup {e.key},
           q.rows = IF e.type = "put" THEN Append(j.rows, [key |-> e.key, seq |-> e.seq])
                    ELSE j.rows,
           Pending(q) \subseteq Pending(j), Pending(j) \ {e} \subseteq Pending(q)
    PROVE  RowsOK(q) /\ q.rows \in Seq(Row) /\ q.seen \in SUBSET Keys
<1>1. RowsOK(j) /\ j \in ScanRec /\ Pending(j) \subseteq history
  BY DEF ReaderOK
<1>2. j.rows \in Seq(Row) /\ j.seen \in SUBSET Keys
  BY <1>1, ReaderFields
<1>3. Pending(j) \subseteq Entry /\ UniqueSeqs(Pending(j))
  BY <1>1 DEF HistoryOK, UniqueSeqs
<1>4. e \in Entry /\ e.key \in Keys /\ e.key \in Nat /\ e.seq \in Nat /\ e.type \in {"put", "del"}
  BY <1>3, EntryFields
<1>5. \A k : Expected(q, k) = Expected(j, k)
  BY DEF Expected
<1>6. \A v : v \in Expected(j, e.key) <=> e.type = "put" /\ v = e.seq
  <2>1. e \in Newest(Pending(j), e.key, j.seq)
    BY DEF Newest, VersionsOf
  <2>2. Newest(Pending(j), e.key, j.seq) = {e}
    BY <1>3, <2>1, NewestUnique
  <2>3. Expected(j, e.key) = Visible({e})
    BY <1>1, <1>4, <2>2 DEF RowsOK, ToCome
  <2> QED BY <2>3 DEF Visible
<1>7. ToCome(q)
  <2> SUFFICES ASSUME NEW k \in Keys, WithinBounds(k, q.range), k \notin q.seen
               PROVE  Visible(Newest(Pending(q), k, q.seq)) = Expected(q, k)
    BY DEF ToCome
  <2>1. k \notin j.seen /\ e.key # k
    OBVIOUS
  <2>2. VersionsOf(Pending(q), k, j.seq) = VersionsOf(Pending(j), k, j.seq)
    BY <2>1 DEF VersionsOf
  <2>3. Newest(Pending(q), k, j.seq) = Newest(Pending(j), k, j.seq)
    BY <2>2 DEF Newest
  <2> QED BY <1>1, <1>5, <2>1, <2>3 DEF RowsOK, ToCome
<1>8. Behind(q)
  <2>1. \A f \in Pending(j) : e.key <= f.key
    <3> SUFFICES ASSUME NEW f \in Pending(j) PROVE e.key <= f.key
      OBVIOUS
    <3>1. f \in Entry /\ f.key \in Nat
      BY <1>3, EntryFields
    <3> QED BY <1>4, <3>1 DEF Before
  <2>2. \A k \in j.seen : WithinBounds(k, q.range) /\ \A f \in Pending(q) : k <= f.key
    BY <1>1 DEF RowsOK, Behind
  <2>3. WithinBounds(e.key, q.range) /\ \A f \in Pending(q) : e.key <= f.key
    BY <2>1
  <2> QED BY <2>2, <2>3 DEF Behind
<1>9. \A i \in 1..Len(j.rows) : j.rows[i].key \in j.seen /\ j.rows[i].key < e.key
  <2> SUFFICES ASSUME NEW i \in 1..Len(j.rows)
               PROVE  j.rows[i].key \in j.seen /\ j.rows[i].key < e.key
    OBVIOUS
  <2>1. j.rows[i].key \in j.seen
    BY <1>1 DEF RowsOK, RowsExact
  <2>2. j.rows[i].key <= e.key
    BY <1>1, <2>1 DEF RowsOK, Behind
  <2>3. j.rows[i].key \in Nat
    BY <1>2, <2>1, KeysAssumption
  <2> QED BY <1>4, <2>1, <2>2, <2>3
<1>10. RowsExact(j)
  BY <1>1 DEF RowsOK
<1>11. CASE e.type = "put"
  <2> DEFINE row == [key |-> e.key, seq |-> e.seq]
             n == Len(j.rows)
  <2>1. row \in Row /\ row.key = e.key /\ row.seq = e.seq
    BY <1>4 DEF Row
  <2>2. n \in Nat /\ q.rows = Append(j.rows, row)
    BY <1>2, <1>11
  <2>3. /\ q.rows \in Seq(Row) /\ Len(q.rows) = n + 1 /\ q.rows[n + 1] = row
        /\ \A i \in 1..n : q.rows[i] = j.rows[i]
    BY <1>2, <2>1, <2>2
  <2> HIDE DEF row, n
  <2>4. 1..Len(q.rows) = 1..n \cup {n + 1}
    BY <2>2, <2>3
  <2>5. \A i \in 1..Len(q.rows) : q.rows[i].key \in q.seen /\ q.rows[i].seq \in Expected(q, q.rows[i].key)
    <3>1. \A i \in 1..n : j.rows[i].key \in j.seen /\ j.rows[i].seq \in Expected(j, j.rows[i].key)
      BY <1>10 DEF RowsExact, n
    <3>2. row.seq \in Expected(q, row.key) /\ row.key \in q.seen
      BY <1>5, <1>6, <1>11, <2>1
    <3> QED BY <1>5, <2>3, <2>4, <3>1, <3>2
  <2>6. ASSUME NEW k \in q.seen, NEW v \in Expected(q, k)
        PROVE  \E i \in 1..Len(q.rows) : q.rows[i] = [key |-> k, seq |-> v]
    <3>1. CASE k \in j.seen
      <4>1. PICK i \in 1..n : j.rows[i] = [key |-> k, seq |-> v]
        BY <1>5, <1>10, <2>6, <3>1 DEF RowsExact, n
      <4> QED BY <2>3, <2>4, <4>1
    <3>2. CASE k = e.key
      <4>1. v = e.seq
        BY <1>5, <1>6, <2>6, <3>2
      <4>2. row = [key |-> k, seq |-> v]
        BY <3>2, <4>1 DEF row
      <4> QED BY <2>3, <2>4, <4>2
    <3> QED BY <3>1, <3>2
  <2>7. ASSUME NEW i \in 2..Len(q.rows) PROVE q.rows[i - 1].key < q.rows[i].key
    <3>1. i - 1 \in 1..n /\ (i # n + 1 => i \in 2..n /\ i \in 1..n)
      BY <2>2, <2>3
    <3>2. CASE i = n + 1
      BY <1>9, <2>1, <2>3, <3>1, <3>2 DEF n
    <3>3. CASE i # n + 1
      <4>1. j.rows[i - 1].key < j.rows[i].key
        BY <1>10, <3>1, <3>3 DEF RowsExact, n
      <4> QED BY <2>3, <3>1, <3>3, <4>1
    <3> QED BY <3>2, <3>3
  <2>8. RowsExact(q)
    BY <2>5, <2>6, <2>7 DEF RowsExact
  <2>9. q.seen \in SUBSET Keys
    BY <1>2, <1>4
  <2> QED BY <1>7, <1>8, <2>3, <2>8, <2>9 DEF RowsOK
<1>12. CASE e.type # "put"
  <2>1. q.rows = j.rows
    BY <1>12
  <2>2. RowsExact(q)
    <3>1. \A i \in 1..Len(q.rows) : q.rows[i].key \in q.seen
                                    /\ q.rows[i].seq \in Expected(q, q.rows[i].key)
      <4>1. \A i \in 1..Len(j.rows) : j.rows[i].key \in j.seen
                                      /\ j.rows[i].seq \in Expected(j, j.rows[i].key)
        BY <1>10 DEF RowsExact
      <4>2. j.seen \subseteq q.seen
        OBVIOUS
      <4> QED BY <1>5, <2>1, <4>1, <4>2
    <3>2. \A k \in q.seen : \A v \in Expected(q, k) :
             \E i \in 1..Len(q.rows) : q.rows[i] = [key |-> k, seq |-> v]
      BY <1>5, <1>6, <1>10, <1>12, <2>1 DEF RowsExact
    <3>3. \A i \in 2..Len(q.rows) : q.rows[i - 1].key < q.rows[i].key
      BY <1>10, <2>1 DEF RowsExact
    <3> QED BY <3>1, <3>2, <3>3 DEF RowsExact
  <2>3. q.seen \in SUBSET Keys
    BY <1>2, <1>4
  <2> QED BY <1>2, <1>7, <1>8, <2>1, <2>2, <2>3 DEF RowsOK
<1> QED BY <1>11, <1>12

AdvanceOf(j) ==
    IF Picked(j.children) = {} THEN [j EXCEPT !.pc = "done", !.children = <<>>]
    ELSE LET i == CHOOSE p \in Picked(j.children) : TRUE
             e == Current(j.children[i])
         IN  IF e.seq <= j.seq /\ WithinBounds(e.key, j.range) /\ e.key \notin j.seen
             THEN Accept(Moved(j, i), e) ELSE Moved(j, i)

LEMMA AdvanceIs ==
    ASSUME TablesOK, HistoryOK, CacheHolds(cache), NEW j, ReaderOK(j), j.pc = "scan",
           NEW q, q = AdvanceOf(j)
    PROVE  ReaderOK(q)
<1>1. CASE Picked(j.children) = {}
  <2>1. q = [j EXCEPT !.pc = "done", !.children = <<>>]
    BY <1>1 DEF AdvanceOf
  <2> QED BY <1>1, <2>1, DoneIs
<1>2. CASE Picked(j.children) # {}
  <2>1. PICK i \in Picked(j.children) : i = CHOOSE p \in Picked(j.children) : TRUE
    BY <1>2
  <2>2. PICK e : e = Current(j.children[i])
    OBVIOUS
  <2>3. PICK m : m = Moved(j, i)
    OBVIOUS
  <2>4. q = IF e.seq <= j.seq /\ WithinBounds(e.key, j.range) /\ e.key \notin j.seen
            THEN Accept(m, e) ELSE m
    BY <1>2, <2>1, <2>2, <2>3 DEF AdvanceOf
  <2>5. /\ m.pc = "scan" /\ m.range = j.range /\ m.seq = j.seq /\ m.left = <<>>
        /\ m.seen = j.seen /\ m.rows = j.rows /\ m \in ScanRec
        /\ MissedOK(m.missed) /\ ChildrenOK(m.children)
        /\ e \in Pending(j) /\ \A f \in Pending(j) : f = e \/ Before(e, f)
        /\ Pending(m) \subseteq Pending(j) /\ Pending(j) \ {e} \subseteq Pending(m)
    BY <2>2, <2>3, MovedIs
  <2>6. j.seq <= LastSeq /\ Pending(j) \subseteq history /\ <<>> \in Seq(DOMAIN files)
    BY DEF ReaderOK
  <2>7. CASE ~(e.seq <= j.seq /\ WithinBounds(e.key, j.range) /\ e.key \notin j.seen)
    <3>1. q = m
      BY <2>4, <2>7
    <3>2. RowsOK(m)
      BY <2>5, <2>7, SkipIs
    <3> QED BY <2>5, <2>6, <3>1, <3>2 DEF ReaderOK
  <2>8. CASE e.seq <= j.seq /\ WithinBounds(e.key, j.range) /\ e.key \notin j.seen
    <3> DEFINE seen == j.seen \cup {e.key}
               rows == IF e.type = "put" THEN Append(j.rows, [key |-> e.key, seq |-> e.seq])
                       ELSE j.rows
    <3>1. q = [m EXCEPT !.seen = seen, !.rows = rows]
      BY <2>4, <2>5, <2>8 DEF Accept
    <3> HIDE DEF seen, rows
    <3>2. /\ q.pc = "scan" /\ q.range = j.range /\ q.seq = j.seq /\ q.left = <<>>
          /\ q.children = m.children /\ q.missed = m.missed /\ q.seen = seen /\ q.rows = rows
      BY <2>5, <3>1 DEF ScanRec
    <3>3. Pending(q) = Pending(m)
      BY <2>5, <3>2 DEF Pending
    <3>4. RowsOK(q) /\ q.rows \in Seq(Row) /\ q.seen \in SUBSET Keys
      <4>1. q.seen = j.seen \cup {e.key}
            /\ q.rows = IF e.type = "put" THEN Append(j.rows, [key |-> e.key, seq |-> e.seq])
                        ELSE j.rows
        BY <3>2 DEF seen, rows
      <4> QED BY <2>5, <2>8, <3>2, <3>3, <4>1, AcceptIs
    <3>5. q \in ScanRec
      BY <2>5, <3>1, <3>2, <3>4 DEF ScanRec
    <3> QED BY <2>5, <2>6, <3>2, <3>3, <3>4, <3>5 DEF ReaderOK
  <2> QED BY <2>7, <2>8
<1> QED BY <1>1, <1>2

-----------------------------------------------------------------------------
(* The inductive invariant *)

IInv == StoreOK /\ CacheOK(cache) /\ ScansOK

LEMMA CacheFrame ==
    ASSUME FilesGrow, NEW c, CacheOK(c)
    PROVE  CacheOK(c)'
<1>1. \A n, b : <<n, b>> \in DOMAIN c =>
         n \in DOMAIN files' /\ b \in DOMAIN files'[n].blocks /\ c[<<n, b>>] = Blk(files'[n], b)
  BY DEF CacheOK, CacheHolds, FilesGrow
<1> QED BY <1>1 DEF CacheOK, CacheHolds

LEMMA ScansFrame ==
    ASSUME StoreOK, StoreOK', FilesGrow, HistoryGrows, ScansOK, UNCHANGED scan
    PROVE  ScansOK'
<1>1. TablesOK /\ HistoryOK /\ history' \subseteq Entry /\ LastSeq' \in Nat
  <2>1. LastSeq' \in Nat
    BY FS_CardinalityType DEF StoreOK, HistoryOK, LastSeq
  <2> QED BY <2>1 DEF StoreOK, HistoryOK
<1>2. \A j : ReaderOK(j) => ReaderOK(j)'
  BY <1>1, ReaderFrame
<1> QED BY <1>2 DEF ScansOK

\* A step of one reader.
LEMMA OneReader ==
    ASSUME StoreOK, ScansOK, UNCHANGED <<engine, snap>>, NEW r \in Readers, NEW q,
           q = Idle \/ ReaderOK(q), scan' = [scan EXCEPT ![r] = q]
    PROVE  StoreOK' /\ ScansOK'
<1>1. files' = files /\ history' = history /\ mem' = mem /\ tables' = tables /\ onDisk' = onDisk
      /\ snap' = snap
  BY DEF engine
<1>2. HistoryOK /\ TablesOK /\ LayersOK /\ SnapshotsOK
  BY DEF StoreOK
<1>3. LastSeq' = LastSeq /\ TableData' = TableData /\ Live' = Live
  BY <1>1 DEF LastSeq, TableData, Live
<1>4. HistoryOK' /\ TablesOK' /\ LayersOK'
  BY <1>1, <1>2, <1>3 DEF HistoryOK, TablesOK, LayersOK
<1>5. \A s : Faithful(s)' <=> Faithful(s)
  BY <1>1, <1>3 DEF Faithful
<1>6. SnapshotsOK'
  BY <1>1, <1>2, <1>3, <1>5 DEF SnapshotsOK
<1>7. StoreOK'
  BY <1>4, <1>6 DEF StoreOK
<1>8. FilesGrow /\ HistoryGrows /\ LastSeq' \in Nat /\ history' \subseteq Entry
  <2>1. LastSeq \in Nat
    BY <1>2, LastSeqIs
  <2> QED BY <1>1, <1>2, <1>3, <2>1 DEF FilesGrow, HistoryGrows, HistoryOK
<1>9. \A j : ReaderOK(j) => ReaderOK(j)'
  BY <1>2, <1>8, ReaderFrame
<1>10. q = Idle \/ q \in ScanRec
  BY DEF ReaderOK
<1>11. scan \in [Readers -> {Idle} \cup ScanRec] /\ \A p \in Readers : \A j : j = scan[p] => j = Idle \/ ReaderOK(j)
  BY DEF ScansOK
<1>12. scan' \in [Readers -> {Idle} \cup ScanRec]
  BY <1>10, <1>11
<1>13. ASSUME NEW p \in Readers, NEW j, j = scan'[p] PROVE j = Idle \/ ReaderOK(j)'
  <2>1. CASE p = r
    <3>1. j = q
      BY <1>11, <1>13, <2>1
    <3> QED BY <1>9, <3>1
  <2>2. CASE p # r
    <3>1. j = scan[p]
      BY <1>11, <1>13, <2>2
    <3> QED BY <1>9, <1>11, <3>1
  <2> QED BY <2>1, <2>2
<1> QED BY <1>7, <1>12, <1>13 DEF ScansOK

LEMMA InitIInv == ASSUME Init PROVE IInv
<1>1. mem = {} /\ tables = <<>> /\ history = {} /\ files = <<>> /\ onDisk = {} /\ snap = {}
      /\ cache = <<>> /\ scan = [r \in Readers |-> Idle]
  BY DEF Init
<1>2. IsFiniteSet(history) /\ LastSeq = 0
  BY <1>1, FS_EmptySet DEF LastSeq
<1>3. HistoryOK
  BY <1>1, <1>2, ReadersAssumption DEF HistoryOK, UniqueSeqs
<1>4. DOMAIN files = {} /\ ToSet(tables) = {} /\ files \in Seq(TableSet)
      /\ tables \in Seq(DOMAIN files)
  BY <1>1 DEF ToSet
<1>5. TablesOK
  BY <1>4 DEF TablesOK
<1>6. TableData = {} /\ Live = {}
  BY <1>1, <1>4 DEF TableData, Live
<1>7. LayersOK
  BY <1>1, <1>4, <1>6 DEF LayersOK
<1>8. SnapshotsOK
  BY <1>1, <1>2, <1>6 DEF SnapshotsOK, Faithful
<1>9. CacheOK(cache)
  <2>1. DOMAIN cache = {}
    BY <1>1
  <2>2. IsFiniteSet(DOMAIN cache) /\ Cardinality(DOMAIN cache) = 0
    BY <2>1, FS_EmptySet
  <2> QED BY <2>1, <2>2, ReadersAssumption DEF CacheOK, CacheHolds
<1>10. ScansOK
  BY <1>1 DEF ScansOK
<1> QED BY <1>3, <1>5, <1>7, <1>8, <1>9, <1>10 DEF IInv, StoreOK

LEMMA WriteIInv ==
    ASSUME IInv, NEW w \in Writes, Write(w[1], w[2])
    PROVE  IInv'
<1>1. StoreOK /\ CacheOK(cache) /\ ScansOK /\ HistoryOK
  BY DEF IInv, StoreOK
<1>2. <<w[1], w[2]>> \in Writes
  BY ReadersAssumption
<1>3. /\ StoreOK' /\ LastSeq' = LastSeq + 1
      /\ history \subseteq history' /\ \A e \in history' \ history : e.seq = LastSeq + 1
  BY <1>1, <1>2, WriteStore
<1>4. files' = files /\ cache' = cache /\ scan' = scan
  BY DEF Write
<1>5. FilesGrow /\ HistoryGrows
  <2>1. LastSeq \in Nat
    BY <1>1, LastSeqIs
  <2>2. \A e \in history' \ history : ~(e.seq <= LastSeq)
    BY <1>3, <2>1
  <2> QED BY <1>3, <1>4, <2>1, <2>2 DEF FilesGrow, HistoryGrows
<1>6. CacheOK(cache)'
  <2>1. PICK c : c = cache
    OBVIOUS
  <2>2. CacheOK(c)'
    BY <1>1, <1>5, <2>1, CacheFrame
  <2> QED BY <1>4, <2>1, <2>2 DEF CacheOK, CacheHolds
<1> QED BY <1>1, <1>3, <1>4, <1>5, <1>6, ScansFrame DEF IInv

LEMMA FlushIInv == ASSUME IInv, Flush PROVE IInv'
<1>1. StoreOK /\ CacheOK(cache) /\ ScansOK /\ HistoryOK
  BY DEF IInv, StoreOK
<1>2. StoreOK' /\ FilesGrow /\ UNCHANGED <<history, snap, cache, scan>>
  BY <1>1, FlushStore
<1>3. HistoryGrows
  <2>1. LastSeq' = LastSeq /\ LastSeq \in Nat
    BY <1>1, <1>2, LastSeqIs DEF LastSeq
  <2> QED BY <1>2, <2>1 DEF HistoryGrows
<1>4. CacheOK(cache)'
  <2>1. PICK c : c = cache
    OBVIOUS
  <2>2. CacheOK(c)'
    BY <1>1, <1>2, <2>1, CacheFrame
  <2> QED BY <1>2, <2>1, <2>2 DEF CacheOK, CacheHolds
<1> QED BY <1>1, <1>2, <1>3, <1>4, ScansFrame DEF IInv

LEMMA CompactIInv == ASSUME IInv, Compact PROVE IInv'
<1>1. StoreOK /\ CacheOK(cache) /\ ScansOK /\ HistoryOK /\ TablesOK /\ CacheHolds(cache)
      /\ tables \in Seq(DOMAIN files)
  BY DEF IInv, StoreOK, CacheOK, LayersOK
<1>2. \A r \in Readers : scan[r].pc # "idle" => scan[r].seq \in 0..LastSeq
  <2> SUFFICES ASSUME NEW r \in Readers, scan[r].pc # "idle" PROVE scan[r].seq \in 0..LastSeq
    OBVIOUS
  <2>1. PICK j : j = scan[r]
    OBVIOUS
  <2>2. ReaderOK(j)
    BY <1>1, <2>1 DEF ScansOK, Idle
  <2>3. j.seq \in Nat /\ j.seq <= LastSeq /\ LastSeq \in Nat
    BY <1>1, <2>2, ReaderFields, LastSeqIs DEF ReaderOK
  <2> QED BY <2>1, <2>3
<1>3. StoreOK' /\ FilesGrow /\ UNCHANGED <<mem, history, snap, scan>>
  BY <1>1, <1>2, CompactStore
<1>4. HistoryGrows
  <2>1. LastSeq' = LastSeq /\ LastSeq \in Nat
    BY <1>1, <1>3, LastSeqIs DEF LastSeq
  <2> QED BY <1>3, <2>1 DEF HistoryGrows
<1>5. CacheOK(cache)'
  <2>1. PICK c : c = cache'
    OBVIOUS
  <2>2. c \in CachesAfter[Len(tables)]
    BY <2>1 DEF Compact
  <2>3. CacheOK(c)'
    BY <1>1, <1>3, <2>2, CachesAfterIs, CacheFrame
  <2> QED BY <2>1, <2>3 DEF CacheOK, CacheHolds
<1> QED BY <1>1, <1>3, <1>4, <1>5, ScansFrame DEF IInv

\* A snapshot is taken at the last sequence, where what is live is faithful.
LEMMA SnapshotIInv ==
    ASSUME IInv, UNCHANGED <<engine, cache, scan>>, snap' = {LastSeq} \/ snap' \subseteq snap
    PROVE  IInv'
<1>1. files' = files /\ history' = history /\ mem' = mem /\ tables' = tables /\ onDisk' = onDisk
      /\ cache' = cache /\ scan' = scan
  BY DEF engine
<1>2. HistoryOK /\ TablesOK /\ LayersOK /\ SnapshotsOK /\ StoreOK /\ CacheOK(cache) /\ ScansOK
  BY DEF IInv, StoreOK
<1>3. LastSeq' = LastSeq /\ TableData' = TableData /\ Live' = Live /\ LastSeq \in Nat
  BY <1>1, <1>2, LastSeqIs DEF LastSeq, TableData, Live
<1>4. HistoryOK' /\ TablesOK' /\ LayersOK'
  BY <1>1, <1>2, <1>3 DEF HistoryOK, TablesOK, LayersOK
<1>5. \A s : Faithful(s)' <=> Faithful(s)
  BY <1>1, <1>3 DEF Faithful
<1>6. SnapshotsOK'
  <2>1. snap' \subseteq snap \cup {LastSeq} /\ snap \subseteq 0..LastSeq
        /\ \A s \in snap \cup {LastSeq} : Faithful(s)
    BY <1>2 DEF SnapshotsOK
  <2>2. LastSeq \in 0..LastSeq
    BY <1>3
  <2>3. snap' \subseteq 0..LastSeq'
    BY <1>3, <2>1, <2>2
  <2>4. \A s \in snap' \cup {LastSeq'} : Faithful(s)'
    BY <1>3, <1>5, <2>1
  <2> QED BY <2>3, <2>4 DEF SnapshotsOK
<1>7. StoreOK'
  BY <1>4, <1>6 DEF StoreOK
<1>8. FilesGrow /\ HistoryGrows
  BY <1>1, <1>3 DEF FilesGrow, HistoryGrows
<1>9. CacheOK(cache)'
  BY <1>1, <1>2 DEF CacheOK, CacheHolds
<1>10. ScansOK'
  BY <1>1, <1>2, <1>7, <1>8, ScansFrame
<1> QED BY <1>7, <1>9, <1>10 DEF IInv

LEMMA InsertBlockIInv ==
    ASSUME IInv, NEW r \in Readers, InsertBlock(r)
    PROVE  IInv'
<1>1. StoreOK /\ CacheOK(cache) /\ ScansOK /\ TablesOK
  BY DEF IInv, StoreOK
<1>2. UNCHANGED <<engine, snap>> /\ files' = files
  BY DEF InsertBlock, engine
<1>3. PICK j : j = scan[r]
  OBVIOUS
<1>4. ReaderOK(j)
  BY <1>1, <1>3 DEF ScansOK, InsertBlock, Idle
<1>5. PICK m \in j.missed : /\ cache' \in Inserted(cache, m[1], m[2])
                            /\ scan' = [scan EXCEPT ![r].missed = @ \ {m}]
  BY <1>3 DEF InsertBlock
<1>6. PICK n \in DOMAIN files : \E b \in DOMAIN files[n].blocks : m = <<n, b>>
  BY <1>4 DEF ReaderOK, MissedOK
<1>7. PICK b \in DOMAIN files[n].blocks : m = <<n, b>>
  BY <1>6
<1>8. CacheOK(cache')
  <2>1. cache' \in Inserted(cache, n, b)
    BY <1>5, <1>7
  <2> QED BY <1>1, <2>1, InsertedIs
<1>9. CacheOK(cache)'
  BY <1>2, <1>8 DEF CacheOK, CacheHolds
<1> DEFINE q == [j EXCEPT !.missed = @ \ {m}]
<1>10. scan' = [scan EXCEPT ![r] = q]
  BY <1>3, <1>5
<1>11. ReaderOK(q)
  <2>1. j \in ScanRec
    BY <1>4 DEF ReaderOK
  <2>2. /\ q.pc = j.pc /\ q.range = j.range /\ q.seq = j.seq /\ q.left = j.left
        /\ q.children = j.children /\ q.missed = j.missed \ {m} /\ q.seen = j.seen
        /\ q.rows = j.rows /\ q \in ScanRec
    BY <2>1 DEF ScanRec
  <2> HIDE DEF q
  <2>3. Pending(q) = Pending(j)
    BY <2>2 DEF Pending
  <2>4. MissedOK(q.missed)
    BY <1>4, <2>2 DEF ReaderOK, MissedOK
  <2>5. j.pc # "failed" => RowsOK(q)
    BY <1>4, <2>2, <2>3, SameRows DEF ReaderOK
  <2>6. j.pc = "open" => Fresh(q)
    BY <1>4, <2>2 DEF ReaderOK, Fresh
  <2> QED BY <1>4, <2>2, <2>3, <2>4, <2>5, <2>6 DEF ReaderOK
<1> HIDE DEF q
<1>12. StoreOK' /\ ScansOK'
  BY <1>1, <1>2, <1>10, <1>11, OneReader
<1> QED BY <1>9, <1>12 DEF IInv

\* A step of one reader that leaves the cache alone.
LEMMA ReaderStep ==
    ASSUME IInv, UNCHANGED <<engine, snap, cache>>, NEW r \in Readers, NEW q,
           q = Idle \/ ReaderOK(q), scan' = [scan EXCEPT ![r] = q]
    PROVE  IInv'
<1>1. StoreOK /\ CacheOK(cache) /\ ScansOK /\ files' = files /\ UNCHANGED <<engine, snap>>
  BY DEF IInv, engine
<1>2. StoreOK' /\ ScansOK'
  BY <1>1, OneReader
<1>3. CacheOK(cache)'
  BY <1>1 DEF CacheOK, CacheHolds
<1> QED BY <1>2, <1>3 DEF IInv

LEMMA OpenScanIInv ==
    ASSUME IInv, NEW r \in Readers, NEW range \in ScanRanges, NEW fill \in FillCache,
           NEW pinned \in BOOLEAN, OpenScan(r, range, fill, pinned)
    PROVE  IInv'
<1>1. PICK q : q = OpenedScan(range, fill, pinned)
  OBVIOUS
<1>2. StoreOK /\ (pinned => snap # {})
  BY DEF IInv, OpenScan
<1>3. ReaderOK(q)
  BY <1>1, <1>2, OpenIs
<1>4. scan' = [scan EXCEPT ![r] = q] /\ UNCHANGED <<engine, snap, cache>>
  BY <1>1 DEF OpenScan, OpenedScan
<1> QED BY <1>3, <1>4, ReaderStep

LEMMA OpenTableIInv ==
    ASSUME IInv, NEW r \in Readers, OpenTable(r)
    PROVE  IInv'
<1>1. PICK j : j = scan[r]
  OBVIOUS
<1>2. StoreOK /\ ScansOK /\ TablesOK /\ CacheHolds(cache) /\ UNCHANGED <<engine, snap, cache>>
  BY DEF IInv, StoreOK, CacheOK, OpenTable
<1>3. j.pc = "open" /\ j.left # <<>>
  BY <1>1 DEF OpenTable, Busy
<1>4. ReaderOK(j)
  BY <1>1, <1>2, <1>3 DEF ScansOK, Idle
<1>5. PICK c : c = LoadBlock(j, Head(j.left), 1)
  OBVIOUS
<1>6. CASE Head(j.left) \in onDisk
  <2>1. PICK q : q = [j EXCEPT !.left = Tail(j.left), !.children = Append(j.children, c),
                               !.missed = Missed(j, c)]
    OBVIOUS
  <2>2. scan' = [scan EXCEPT ![r] = q]
    BY <1>1, <1>5, <1>6, <2>1 DEF OpenTable
  <2>3. ReaderOK(q)
    BY <1>2, <1>3, <1>4, <1>5, <2>1, OpenTableIs
  <2> QED BY <1>2, <2>2, <2>3, ReaderStep
<1>7. CASE Head(j.left) \notin onDisk
  <2>1. PICK q : q = [j EXCEPT !.pc = "failed", !.left = <<>>, !.children = <<>>]
    OBVIOUS
  <2>2. scan' = [scan EXCEPT ![r] = q]
    BY <1>1, <1>7, <2>1 DEF OpenTable
  <2>3. j \in ScanRec /\ <<>> \in Seq(Child) /\ <<>> \in Seq(Nat) /\ <<>> \in Seq(DOMAIN files)
    BY <1>4 DEF ReaderOK
  <2>4. /\ q.pc = "failed" /\ q.seq = j.seq /\ q.left = <<>> /\ q.children = <<>>
        /\ q.missed = j.missed /\ q \in ScanRec
    BY <2>1, <2>3 DEF ScanRec
  <2>5. Pending(q) = {} /\ ChildrenOK(q.children)
    BY <2>4 DEF Pending, OfChildren, OfTables, ChildrenOK
  <2>6. ReaderOK(q)
    BY <1>4, <2>3, <2>4, <2>5 DEF ReaderOK
  <2> QED BY <1>2, <2>2, <2>6, ReaderStep
<1> QED BY <1>6, <1>7

LEMMA SeekIInv ==
    ASSUME IInv, NEW r \in Readers, SeekToLowerBound(r)
    PROVE  IInv'
<1>1. PICK j : j = scan[r]
  OBVIOUS
<1>2. /\ StoreOK /\ ScansOK /\ TablesOK /\ HistoryOK /\ CacheHolds(cache)
      /\ UNCHANGED <<engine, snap, cache>>
  BY DEF IInv, StoreOK, CacheOK, SeekToLowerBound
<1>3. j.pc = "open" /\ j.left = <<>>
  BY <1>1 DEF SeekToLowerBound, Busy
<1>4. ReaderOK(j)
  BY <1>1, <1>2, <1>3 DEF ScansOK, Idle
<1>5. PICK to : to = SoughtChildren(j)
  OBVIOUS
<1>6. PICK q : q = SoughtOf(j, to)
  OBVIOUS
<1>7. ReaderOK(q)
  BY <1>2, <1>3, <1>4, <1>5, <1>6, SeekIs
<1>8. scan' = [scan EXCEPT ![r] = q]
  BY <1>1, <1>5, <1>6 DEF SeekToLowerBound, SoughtChildren, SoughtOf
<1> QED BY <1>2, <1>7, <1>8, ReaderStep

LEMMA AdvanceIInv ==
    ASSUME IInv, NEW r \in Readers, Advance(r)
    PROVE  IInv'
<1>1. PICK j : j = scan[r]
  OBVIOUS
<1>2. /\ StoreOK /\ ScansOK /\ TablesOK /\ HistoryOK /\ CacheHolds(cache)
      /\ UNCHANGED <<engine, snap, cache>>
  BY DEF IInv, StoreOK, CacheOK, Advance
<1>3. j.pc = "scan"
  BY <1>1 DEF Advance, Busy
<1>4. ReaderOK(j)
  BY <1>1, <1>2, <1>3 DEF ScansOK, Idle
<1>5. PICK q : q = AdvanceOf(j)
  OBVIOUS
<1>6. ReaderOK(q)
  BY <1>2, <1>3, <1>4, <1>5, AdvanceIs
<1>7. scan' = [scan EXCEPT ![r] = q]
  BY <1>1, <1>5 DEF Advance, AdvanceOf, Moved
<1> QED BY <1>2, <1>6, <1>7, ReaderStep

LEMMA IInvNext == IInv /\ [Next]_vars => IInv'
<1> SUFFICES ASSUME IInv, [Next]_vars PROVE IInv'
  OBVIOUS
<1>1. ASSUME NEW w \in Writes, Write(w[1], w[2]) PROVE IInv'
  BY <1>1, WriteIInv
<1>2. CASE Flush
  BY <1>2, FlushIInv
<1>3. CASE Compact
  BY <1>3, CompactIInv
<1>4. CASE TakeSnapshot
  BY <1>4, SnapshotIInv DEF TakeSnapshot
<1>5. CASE DropSnapshot
  BY <1>5, SnapshotIInv DEF DropSnapshot
<1>6. ASSUME NEW r \in Readers, NEW range \in ScanRanges, NEW fill \in FillCache,
             NEW pinned \in BOOLEAN, OpenScan(r, range, fill, pinned)
      PROVE  IInv'
  BY <1>6, OpenScanIInv
<1>7. ASSUME NEW r \in Readers, InsertBlock(r) PROVE IInv'
  BY <1>7, InsertBlockIInv
<1>8. ASSUME NEW r \in Readers, OpenTable(r) PROVE IInv'
  BY <1>8, OpenTableIInv
<1>9. ASSUME NEW r \in Readers, SeekToLowerBound(r) PROVE IInv'
  BY <1>9, SeekIInv
<1>10. ASSUME NEW r \in Readers, Advance(r) PROVE IInv'
  BY <1>10, AdvanceIInv
<1>11. ASSUME NEW r \in Readers, ReturnScan(r) PROVE IInv'
  <2>1. scan' = [scan EXCEPT ![r] = Idle] /\ UNCHANGED <<engine, snap, cache>>
    BY <1>11 DEF ReturnScan
  <2> QED BY <2>1, ReaderStep
<1>12. CASE UNCHANGED vars
  BY <1>12, SnapshotIInv DEF vars
<1> QED BY <1>1, <1>2, <1>3, <1>4, <1>5, <1>6, <1>7, <1>8, <1>9, <1>10, <1>11, <1>12 DEF Next

LEMMA Invariance == Spec => []IInv
<1>1. Init => IInv
  BY InitIInv
<1> QED BY <1>1, IInvNext, PTL DEF Spec

-----------------------------------------------------------------------------
(* What the invariant says of scans and lookups *)

LEMMA RangeKeys ==
    ASSUME NEW range \in ScanRanges, NEW k \in Keys
    PROVE  OverlapsRange({[key |-> k]}, range) <=> WithinBounds(k, range)
<1>1. range \in [lower : Bounds, upper : Bounds]
  BY ReadersAssumption
<1>2. range.lower \in Bounds /\ range.upper \in Bounds
  BY <1>1
<1>3. range.lower.kind \in {"unbounded", "included", "excluded"}
      /\ range.upper.kind \in {"unbounded", "included", "excluded"}
  BY <1>2 DEF Bounds
<1>4. PICK x : x = [key |-> k]
  OBVIOUS
<1>5. PICK E : E = {[key |-> k]} /\ E # {} /\ \A e \in E : e.key = k
  <2>1. x.key = k
    BY <1>4
  <2>2. {x} # {} /\ \A e \in {x} : e.key = k
    BY <2>1
  <2> QED BY <1>4, <2>2
<1>6. OverlapsRange(E, range) <=> WithinBounds(k, range)
  BY <1>3, <1>5 DEF OverlapsRange, WithinBounds
<1> QED BY <1>5, <1>6

\* The rows to deliver are those of the keys in the range.
LEMMA RowsAtIs ==
    ASSUME HistoryOK, NEW range \in ScanRanges, NEW s \in Nat, NEW x
    PROVE  x \in RowsAt(range, s) <=>
              \E k \in Keys : WithinBounds(k, range) /\
                  \E v \in Visible(Newest(history, k, s)) : x = [key |-> k, seq |-> v]
<1> DEFINE inside == {l \in Keys : OverlapsRange({[key |-> l]}, range)}
<1>1. \A k \in Keys : k \in inside <=> WithinBounds(k, range)
  BY RangeKeys
<1>2. ASSUME NEW k \in Keys, NEW v \in Visible(Newest(history, k, s)) PROVE v \in 1..s
  <2>1. PICK e \in Newest(history, k, s) : v = e.seq
    BY <1>2 DEF Visible
  <2>2. e \in history /\ e.seq <= s
    BY <2>1 DEF Newest, VersionsOf
  <2>3. e.seq \in 1..LastSeq /\ LastSeq \in Nat
    BY <2>2, LastSeqIs DEF HistoryOK
  <2> QED BY <2>1, <2>2, <2>3
<1> HIDE DEF inside
<1>3. RowsAt(range, s) =
        {[key |-> k, seq |-> v] : k \in inside, v \in 1..s}
           \cap UNION {{[key |-> k, seq |-> v] : v \in Visible(Newest(history, k, s))} : k \in Keys}
  BY DEF RowsAt, inside
<1>4. ASSUME x \in RowsAt(range, s)
      PROVE  \E k \in Keys : WithinBounds(k, range) /\
                \E v \in Visible(Newest(history, k, s)) : x = [key |-> k, seq |-> v]
  <2>1. PICK k \in inside, v \in 1..s : x = [key |-> k, seq |-> v]
    BY <1>3, <1>4
  <2>2. PICK l \in Keys : \E w \in Visible(Newest(history, l, s)) : x = [key |-> l, seq |-> w]
    BY <1>3, <1>4
  <2>3. x.key = k /\ x.key = l
    BY <2>1, <2>2
  <2> QED BY <1>1, <2>1, <2>2, <2>3
<1>5. ASSUME NEW k \in Keys, WithinBounds(k, range), NEW v \in Visible(Newest(history, k, s)),
             x = [key |-> k, seq |-> v]
      PROVE  x \in RowsAt(range, s)
  <2>1. k \in inside /\ v \in 1..s
    BY <1>1, <1>2, <1>5
  <2> QED BY <1>3, <1>5, <2>1
<1> QED BY <1>4, <1>5

LEMMA ReaderExact ==
    ASSUME HistoryOK, NEW j, ReaderOK(j), j.pc \in {"scan", "done"}
    PROVE  /\ \A i \in DOMAIN j.rows : j.rows[i] \in RowsAt(j.range, j.seq)
           /\ \A i \in 2..Len(j.rows) : j.rows[i - 1].key < j.rows[i].key
           /\ j.pc = "done" => RowsAt(j.range, j.seq) = {j.rows[i] : i \in DOMAIN j.rows}
<1>1. RowsOK(j) /\ j \in ScanRec
  BY DEF ReaderOK
<1>2. ToCome(j) /\ Behind(j) /\ RowsExact(j)
  BY <1>1 DEF RowsOK
<1>3. /\ j.rows \in Seq(Row) /\ j.seen \in SUBSET Keys /\ j.range \in ScanRanges /\ j.seq \in Nat
      /\ DOMAIN j.rows = 1..Len(j.rows)
  <2>1. j.rows \in Seq(Row) /\ j.seen \in SUBSET Keys /\ j.range \in ScanRanges /\ j.seq \in Nat
    BY <1>1, ReaderFields
  <2> QED BY <2>1
<1>4. ASSUME NEW i \in DOMAIN j.rows PROVE j.rows[i] \in RowsAt(j.range, j.seq)
  <2>1. PICK k, v : k = j.rows[i].key /\ v = j.rows[i].seq
    OBVIOUS
  <2>2. k \in j.seen /\ v \in Visible(Newest(history, k, j.seq))
    BY <1>2, <1>3, <2>1 DEF RowsExact, Expected
  <2>3. k \in Keys /\ WithinBounds(k, j.range)
    BY <1>2, <1>3, <2>2 DEF Behind
  <2>4. j.rows[i] = [key |-> k, seq |-> v]
    <3>1. PICK x \in Row : x = j.rows[i]
      BY <1>3
    <3>2. x = [key |-> x.key, seq |-> x.seq]
      BY DEF Row
    <3> QED BY <2>1, <3>1, <3>2
  <2> QED BY <1>3, <2>2, <2>3, <2>4, RowsAtIs
<1>5. ASSUME j.pc = "done", NEW x \in RowsAt(j.range, j.seq)
      PROVE  \E i \in DOMAIN j.rows : x = j.rows[i]
  <2>1. PICK k \in Keys : /\ WithinBounds(k, j.range)
                          /\ \E v \in Visible(Newest(history, k, j.seq)) : x = [key |-> k, seq |-> v]
    BY <1>3, <1>5, RowsAtIs
  <2>2. PICK v \in Expected(j, k) : x = [key |-> k, seq |-> v]
    BY <2>1 DEF Expected
  <2>3. Pending(j) = {}
    BY <1>5 DEF ReaderOK, Pending, OfChildren, OfTables
  <2>4. Visible(Newest(Pending(j), k, j.seq)) = {}
    BY <2>3 DEF Visible, Newest, VersionsOf
  <2>5. k \in j.seen
    BY <1>2, <2>1, <2>2, <2>4 DEF ToCome
  <2> QED BY <1>2, <1>3, <2>2, <2>5 DEF RowsExact
<1>6. j.pc = "done" => RowsAt(j.range, j.seq) = {j.rows[i] : i \in DOMAIN j.rows}
  BY <1>4, <1>5
<1> QED BY <1>2, <1>4, <1>6 DEF RowsExact

\* The iterators keep their shape and refer to tables that were written, and
\* the block cache never holds more than max_entries blocks (BlockCache::insert
\* makes room before it inserts, also when two readers missed the same block).
THEOREM TypeCorrect == Spec => []TypeOK
<1> SUFFICES ASSUME IInv PROVE TypeOK
  BY Invariance, PTL
<1>1. HistoryOK /\ TablesOK /\ LayersOK /\ SnapshotsOK /\ CacheOK(cache) /\ ScansOK
  BY DEF IInv, StoreOK
<1>2. LastSeq \in Nat /\ MaxWrites \in Nat /\ LastSeq <= MaxWrites
  BY <1>1, LastSeqIs DEF HistoryOK
<1>3. mem \subseteq Entry /\ history \subseteq Entry /\ onDisk \subseteq DOMAIN files
      /\ tables \in Seq(DOMAIN files) /\ snap \subseteq 0..MaxWrites
  <2>1. 0..LastSeq \subseteq 0..MaxWrites
    BY <1>2
  <2> QED BY <1>1, <2>1 DEF HistoryOK, LayersOK, SnapshotsOK
<1>4. ASSUME NEW r \in Readers, scan[r].pc # "idle"
      PROVE  /\ scan[r].pc \in {"open", "scan", "done", "failed"} /\ scan[r].seq \in 0..MaxWrites
             /\ \A i \in DOMAIN scan[r].children :
                   scan[r].children[i].num \in {0} \cup DOMAIN files
  <2>1. PICK j : j = scan[r]
    OBVIOUS
  <2>2. ReaderOK(j)
    BY <1>1, <1>4, <2>1 DEF ScansOK, Idle
  <2>3. j.pc \in {"open", "scan", "done", "failed"} /\ j.seq \in Nat /\ j.seq <= LastSeq
    BY <2>2, ReaderFields DEF ReaderOK
  <2>4. \A i \in DOMAIN j.children : j.children[i].num \in {0} \cup DOMAIN files
    BY <2>2 DEF ReaderOK, ChildrenOK, ChildOK
  <2>5. j.seq \in 0..MaxWrites
    BY <1>2, <2>3
  <2> QED BY <2>1, <2>3, <2>4, <2>5
<1> QED BY <1>1, <1>3, <1>4 DEF TypeOK, CacheOK

\* A scan (scan_iter_opt, MergeIterator, DBIterator) delivers, in key order and
\* once each, exactly the rows that its range had at its read sequence, while
\* others write, flush, compact, unlink and fill the block cache.
THEOREM ScansAreExact == Spec => []ScansExact
<1> SUFFICES ASSUME IInv PROVE ScansExact
  BY Invariance, PTL
<1>1. HistoryOK /\ ScansOK
  BY DEF IInv, StoreOK
<1>2. ASSUME NEW r \in Readers, scan[r].pc \in {"scan", "done"}, NEW j, j = scan[r]
      PROVE  /\ \A i \in DOMAIN j.rows : j.rows[i] \in RowsAt(j.range, j.seq)
             /\ \A i \in 2..Len(j.rows) : j.rows[i - 1].key < j.rows[i].key
             /\ j.pc = "done" => RowsAt(j.range, j.seq) = {j.rows[i] : i \in DOMAIN j.rows}
  <2>1. ReaderOK(j)
    BY <1>1, <1>2 DEF ScansOK, Idle
  <2>2. j.pc \in {"scan", "done"}
    BY <1>2
  <2> QED BY ONLY <1>1, <2>1, <2>2, ReaderExact
<1> QED BY <1>2 DEF ScansExact

\* SSTableReader::get_with_cache finds in every table that exists the newest
\* version not newer than the read sequence, through filter and index, with
\* whatever blocks are in the cache and wherever the builder ended its blocks.
THEOREM LookupsAreExact == Spec => []IndexedGetsExact
<1> SUFFICES ASSUME IInv PROVE IndexedGetsExact
  BY Invariance, PTL
<1>1. TablesOK /\ LayersOK /\ CacheHolds(cache) /\ HistoryOK
  BY DEF IInv, StoreOK, CacheOK
<1>2. ASSUME NEW n \in onDisk, NEW t, t = files[n], NEW read,
             read = [b \in DOMAIN t.blocks |-> Block([fill |-> TRUE], n, b)],
             NEW k \in Keys, NEW s \in {e.seq : e \in TableEntries(t)}
      PROVE  FoundInTable(t, read, k, s) = Newest(TableEntries(t), k, s)
  <2>1. n \in DOMAIN files /\ TableOK(t) /\ TableEntries(t) \subseteq history
    BY <1>1, <1>2 DEF TablesOK, LayersOK
  <2>2. s \in Nat
    BY <1>1, <2>1, EntryFields DEF HistoryOK
  <2>3. \A b \in DOMAIN t.blocks : read[b] = Blk(t, b)
    BY <1>1, <1>2, BlockIs
  <2> QED BY <2>1, <2>2, <2>3, FoundInTableIsNewest
<1> QED BY <1>2 DEF IndexedGetsExact
=============================================================================
