--------------------------- MODULE LsmTreeProofs ---------------------------
(***************************************************************************)
(* What point lookups and compaction's garbage collection do to any set of *)
(* entries, of whatever size.                                              *)
(***************************************************************************)
EXTENDS LsmTree, Sequences, WellFoundedInduction, TLAPS

\* Numbers are well-founded: the induction the lemmas below rest on.
LEMMA LeastElement ==
    ASSUME NEW T, T \subseteq Nat, T # {}
    PROVE  \E x \in T : \A y \in T : x <= y
<1> DEFINE R == {ss \in Nat \X Nat : ss[1] < ss[2]}
<1>1. IsWellFoundedOn(R, Nat)
  BY NatLessThanWellFounded DEF OpToRel
<1>2. \A x, y \in Nat : x < y => <<x, y>> \in R
  OBVIOUS
<1> HIDE DEF R
<1>3. PICK x \in T : \A y \in T : ~(<<y, x>> \in R)
  BY <1>1, WFMin
<1>4. \A y \in T : ~(y < x) /\ x \in Nat /\ y \in Nat
  BY <1>2, <1>3
<1> QED BY <1>4

LEMMA GreatestElement ==
    ASSUME NEW T, T \subseteq Nat, T # {}, NEW bound \in Nat, \A y \in T : y <= bound
    PROVE  \E x \in T : \A y \in T : y <= x
<1> DEFINE D == {n \in Nat : \E y \in T : n = bound - y}
<1>0. PICK t \in T : TRUE
  OBVIOUS
<1>1. D \subseteq Nat /\ bound - t \in D
  BY <1>0
<1>2. PICK d \in D : \A n \in D : d <= n
  <2> HIDE DEF D
  <2> QED BY <1>1, LeastElement
<1>3. PICK x \in T : d = bound - x
  OBVIOUS
<1>4. ASSUME NEW y \in T PROVE y <= x
  <2>1. y \in Nat /\ x \in Nat /\ y <= bound /\ bound - y \in D
    OBVIOUS
  <2>2. d <= bound - y /\ d = bound - x
    <3> HIDE DEF D
    <3> QED BY <1>2, <1>3, <2>1
  <2> QED BY <2>1, <2>2
<1> QED BY <1>4

-----------------------------------------------------------------------------
(* Lookups *)

\* Without two records of one sequence the first entry in internal key order
\* is the one with the greatest sequence.
LEMMA NewestIsGreatest ==
    ASSUME NEW E, E \subseteq Entry, UniqueSeqs(E), NEW k, NEW s
    PROVE  Newest(E, k, s) =
             {e \in E : e.key = k /\ e.seq <= s
                        /\ \A f \in E : f.key = k /\ f.seq <= s => f.seq <= e.seq}
<1>1. \A e, f \in E : e.key \in Nat /\ e.seq \in Nat /\ f.key \in Nat /\ f.seq \in Nat
  BY KeysAssumption DEF Entry
<1>2. \A e, f \in E : e.key = f.key => ((f = e \/ Before(e, f)) <=> f.seq <= e.seq)
  BY <1>1 DEF Before, UniqueSeqs
<1> QED BY <1>2 DEF Newest, VersionsOf

LEMMA NewestUnique ==
    ASSUME NEW E, E \subseteq Entry, UniqueSeqs(E), NEW k, NEW s,
           NEW e \in Newest(E, k, s)
    PROVE  Newest(E, k, s) = {e}
<1>1. \A f \in E : f.seq \in Nat
  BY DEF Entry
<1>2. \A f, g \in Newest(E, k, s) : f.seq = g.seq /\ f \in E /\ g \in E
  BY <1>1, NewestIsGreatest
<1> QED BY <1>2 DEF UniqueSeqs

\* A key with a version that the read may see is found.
LEMMA NewestExists ==
    ASSUME NEW E, E \subseteq Entry, UniqueSeqs(E), NEW k, NEW s \in Nat,
           NEW g \in E, g.key = k, g.seq <= s
    PROVE  \E e \in E : e \in Newest(E, k, s)
<1> DEFINE T == {e.seq : e \in VersionsOf(E, k, s)}
<1>1. T \subseteq Nat /\ T # {} /\ \A n \in T : n <= s
  BY DEF VersionsOf, Entry
<1>2. PICK n \in T : \A m \in T : m <= n
  <2> HIDE DEF T
  <2> QED BY <1>1, GreatestElement
<1>3. PICK e \in VersionsOf(E, k, s) : e.seq = n
  OBVIOUS
<1>4. \A f \in E : f.key = k /\ f.seq <= s => f.seq <= e.seq
  BY <1>2, <1>3 DEF VersionsOf
<1> QED BY <1>3, <1>4, NewestIsGreatest DEF VersionsOf

\* A read finds its version in the part D of the entries if it finds one there
\* and everything else is older or too new for it.
LEMMA NewestInPart ==
    ASSUME NEW E, E \subseteq Entry, UniqueSeqs(E), NEW D, D \subseteq E, NEW k, NEW s,
           Newest(D, k, s) # {},
           \A e \in E : e.key = k /\ e.seq <= s =>
              e \in D \/ \A d \in D : d.key = k => e.seq < d.seq
    PROVE  Newest(E, k, s) = Newest(D, k, s)
<1>1. D \subseteq Entry /\ UniqueSeqs(D) /\ \A e \in E : e.seq \in Nat
  BY DEF UniqueSeqs, Entry
<1>2. PICK d \in D : d \in Newest(D, k, s)
  BY DEF Newest, VersionsOf
<1>3. /\ d.key = k /\ d.seq <= s
      /\ \A f \in D : f.key = k /\ f.seq <= s => f.seq <= d.seq
  BY <1>1, <1>2, NewestIsGreatest
<1>4. \A f \in E : f.key = k /\ f.seq <= s => f.seq <= d.seq
  BY <1>1, <1>2, <1>3
<1>5. d \in Newest(E, k, s)
  BY <1>3, <1>4, NewestIsGreatest
<1>6. Newest(E, k, s) = {d}
  BY <1>5, NewestUnique
<1>7. Newest(D, k, s) = {d}
  BY <1>1, <1>2, NewestUnique
<1> QED BY <1>6, <1>7

LEMMA NewestOfNone ==
    ASSUME NEW E, NEW k, NEW s, \A e \in E : ~(e.key = k /\ e.seq <= s)
    PROVE  Newest(E, k, s) = {}
BY DEF Newest, VersionsOf

\* Searching memtables from the newest on and stopping at the first hit finds
\* what a search of all of them finds.
LEMMA MemGetIsNewest ==
    ASSUME NEW m \in Seq(SUBSET Entry), NEW E, E = UNION {m[i] : i \in DOMAIN m}, UniqueSeqs(E),
           \A i, l \in DOMAIN m : i < l => Older(m[i], m[l]),
           NEW k, NEW s \in Nat
    PROVE  MemGet(m, k, s) = Newest(E, k, s)
<1>1. E \subseteq Entry /\ \A i \in DOMAIN m : m[i] \subseteq E
  OBVIOUS
<1>2. DOMAIN m = 1..Len(m) /\ Len(m) \in Nat /\ \A e \in E : e.seq \in Nat
  BY <1>1 DEF Entry
<1> DEFINE T == {i \in DOMAIN m : Newest(m[i], k, s) # {}}
<1>3. CASE T = {}
  <2>1. MemGet(m, k, s) = {}
    BY <1>3 DEF MemGet
  <2>2. ASSUME NEW e \in E, e.key = k, e.seq <= s PROVE FALSE
    <3>1. PICK i \in DOMAIN m : e \in m[i]
      OBVIOUS
    <3>2. m[i] \subseteq Entry /\ UniqueSeqs(m[i])
      BY <1>1 DEF UniqueSeqs
    <3>3. Newest(m[i], k, s) # {}
      BY <2>2, <3>1, <3>2, NewestExists
    <3> QED BY <1>3, <3>3
  <2>3. Newest(E, k, s) = {}
    BY <2>2, NewestOfNone
  <2> QED BY <2>1, <2>3
<1>4. CASE T # {}
  <2>1. PICK n \in T : \A i \in T : i <= n
    <3>1. T \subseteq Nat /\ \A i \in T : i <= Len(m)
      BY <1>2
    <3> HIDE DEF T
    <3> QED BY <1>2, <1>4, <3>1, GreatestElement
  <2>2. n \in DOMAIN m /\ Newest(m[n], k, s) # {}
    OBVIOUS
  <2>3. \A l \in DOMAIN m : l > n => Newest(m[l], k, s) = {}
    BY <1>2, <2>1, <2>2
  <2>4. {i \in DOMAIN m : \A l \in DOMAIN m : l > i => Newest(m[l], k, s) = {}}
           = {n} \cup {i \in DOMAIN m : i > n}
    BY <1>2, <2>2, <2>3
  <2>5. MemGet(m, k, s) = Newest(m[n], k, s)
    BY <2>3, <2>4 DEF MemGet
  <2>6. ASSUME NEW e \in E, e.key = k, e.seq <= s
        PROVE  e \in m[n] \/ \A d \in m[n] : d.key = k => e.seq < d.seq
    <3>1. PICK i \in DOMAIN m : e \in m[i]
      OBVIOUS
    <3>2. m[i] \subseteq Entry /\ UniqueSeqs(m[i])
      BY <1>1 DEF UniqueSeqs
    <3>3. Newest(m[i], k, s) # {}
      BY <2>6, <3>1, <3>2, NewestExists
    <3>4. i <= n
      BY <2>1, <3>3
    <3>5. CASE i = n
      BY <3>1, <3>5
    <3>6. CASE i < n
      BY <2>2, <2>6, <3>1, <3>6 DEF Older
    <3> QED BY <1>2, <2>2, <3>4, <3>5, <3>6
  <2>7. Newest(E, k, s) = Newest(m[n], k, s)
    <3>1. PICK D : D = m[n]
      OBVIOUS
    <3>2. Newest(E, k, s) = Newest(D, k, s)
      BY <1>1, <2>2, <2>6, <3>1, NewestInPart
    <3> QED BY <3>1, <3>2
  <2> QED BY <2>5, <2>7
<1> QED BY <1>3, <1>4

\* Searching the files of a version in its order, in each level below level 0
\* only the file that covers the key, and stopping at the first hit finds what
\* a search of all files finds.
LEMMA TableGetIsNewest ==
    ASSUME NEW c, NEW fs, NEW bound \in Nat,
           \A f \in fs : /\ f.level \in Nat /\ f.num \in Nat /\ f.num <= bound
                         /\ c[f.num] \subseteq Entry,
           NEW E, E = EntriesOf(c, fs), UniqueSeqs(E), TreeOrdered(c, fs),
           NEW k \in Nat, NEW s \in Nat
    PROVE  TableGet(c, fs, k, s) = Newest(E, k, s)
<1> DEFINE Hits == {f \in fs : Newest(c[f.num], k, s) # {}}
<1>1. E \subseteq Entry /\ \A f \in fs : c[f.num] \subseteq E
  BY DEF EntriesOf
<1>2. \A e \in E : e.seq \in Nat /\ e.key \in Nat
  BY <1>1, KeysAssumption DEF Entry
<1>3. \A f \in Hits : f \in fs /\ OverlapsKey(c[f.num], k)
  <2>1. \A f \in Hits : f \in fs /\ \E e \in c[f.num] : e.key = k
    BY DEF Newest, VersionsOf
  <2> HIDE DEF Hits
  <2> QED BY <2>1 DEF OverlapsKey
<1>4. ASSUME NEW f \in fs, NEW g \in fs, f.level = g.level, f.level # 0,
             OverlapsKey(c[f.num], k), OverlapsKey(c[g.num], k)
      PROVE  f = g
  <2> SUFFICES ASSUME f # g PROVE FALSE
    OBVIOUS
  <2>1. PICK a, b \in c[f.num] : a.key <= k /\ k <= b.key
    BY <1>4 DEF OverlapsKey
  <2>2. PICK x, y \in c[g.num] : x.key <= k /\ k <= y.key
    BY <1>4 DEF OverlapsKey
  <2>3. ~ OverlapsEntries(c[f.num], c[g.num])
    BY <1>4 DEF TreeOrdered
  <2>4. a.key \in Nat /\ b.key \in Nat /\ x.key \in Nat /\ y.key \in Nat
    BY <1>1, <1>2, <2>1, <2>2
  <2>5. a.key <= y.key /\ b.key >= x.key
    BY <2>1, <2>2, <2>4
  <2> QED BY <2>1, <2>2, <2>3, <2>5 DEF OverlapsEntries
<1>5. FilesWithHit(c, fs, k, s) = Hits
  <2>1. ASSUME NEW f \in Hits PROVE f \in Candidates(c, fs, k)
    <3>1. ASSUME NEW g \in FilesAt(fs, f.level), OverlapsKey(c[g.num], k), f.level > 0
          PROVE  g = f
      <4>1. g \in fs /\ g.level = f.level /\ f.level # 0
        BY <1>3, <3>1 DEF FilesAt
      <4> QED BY <1>3, <1>4, <3>1, <4>1
    <3>2. f \in FilesAt(fs, f.level)
      BY DEF FilesAt
    <3> QED BY <1>3, <3>1, <3>2 DEF Candidates, FirstFiles
  <2> QED BY <2>1 DEF FilesWithHit, Candidates
<1>6. ASSUME NEW f \in fs, NEW e \in c[f.num], e.key = k, e.seq <= s PROVE f \in Hits
  <2>1. c[f.num] \subseteq Entry /\ UniqueSeqs(c[f.num])
    BY <1>1 DEF UniqueSeqs
  <2>2. PICK D : D = c[f.num]
    OBVIOUS
  <2>3. Newest(D, k, s) # {}
    BY <1>6, <2>1, <2>2, NewestExists
  <2> QED BY <2>2, <2>3
<1>7. CASE Hits = {}
  <2>1. TableGet(c, fs, k, s) = {}
    BY <1>5, <1>7 DEF TableGet, FirstFiles
  <2>2. \A e \in E : ~(e.key = k /\ e.seq <= s)
    BY <1>6, <1>7 DEF EntriesOf
  <2>3. Newest(E, k, s) = {}
    BY <2>2, NewestOfNone
  <2> QED BY <2>1, <2>3
<1>8. CASE Hits # {}
  <2>0. \A f \in Hits : f \in fs /\ f.level \in Nat /\ f.num \in Nat /\ f.num <= bound
    OBVIOUS
  <2>1. PICK f \in Hits : \A g \in Hits :
           /\ f.level <= g.level
           /\ f.level = 0 /\ g.level = 0 => g.num <= f.num
    <3> DEFINE L == {g.level : g \in Hits}
    <3>1. PICK l \in L : \A m \in L : l <= m
      <4>1. L \subseteq Nat /\ L # {}
        BY <1>8, <2>0
      <4> HIDE DEF L
      <4> QED BY <4>1, LeastElement
    <3>2. PICK f \in Hits : f.level = l
      OBVIOUS
    <3>3. \A g \in Hits : f.level <= g.level
      BY <3>1, <3>2
    <3>4. CASE l # 0
      BY <3>2, <3>3, <3>4
    <3>5. CASE l = 0
      <4> DEFINE N == {g.num : g \in {h \in Hits : h.level = 0}}
      <4>1. N \subseteq Nat /\ N # {} /\ \A n \in N : n <= bound
        BY <2>0, <3>2, <3>5
      <4>2. PICK n \in N : \A m \in N : m <= n
        <5> HIDE DEF N
        <5> QED BY <4>1, GreatestElement
      <4>3. PICK h \in Hits : h.level = 0 /\ h.num = n
        OBVIOUS
      <4>4. \A g \in Hits : g.level = 0 => g.num <= h.num
        BY <4>2, <4>3
      <4>5. \A g \in Hits : h.level <= g.level
        BY <2>0, <4>3
      <4> QED BY <4>3, <4>4, <4>5
    <3> QED BY <3>4, <3>5
  <2> HIDE DEF Hits
  <2>2. ASSUME NEW g \in Hits, g # f
        PROVE  /\ FileBefore(c, f, g) /\ ~ FileBefore(c, g, f)
               /\ Older(c[g.num], c[f.num])
    <3>1. f \in fs /\ g \in fs /\ f.level \in Nat /\ g.level \in Nat /\ f.num \in Nat /\ g.num \in Nat
      BY <2>0
    <3>2. CASE f.level < g.level
      BY <3>1, <3>2 DEF FileBefore, TreeOrdered
    <3>3. CASE f.level = g.level
      <4>1. f.level = 0 /\ g.level = 0
        BY <1>3, <1>4, <2>2, <3>1, <3>3
      <4>2. f.num > g.num
        <5>1. f.num # g.num
          BY <2>2, <3>1, <4>1 DEF TreeOrdered
        <5> QED BY <2>1, <3>1, <4>1, <5>1
      <4> QED BY <3>1, <4>1, <4>2 DEF FileBefore, TreeOrdered
    <3> QED BY <2>1, <3>1, <3>2, <3>3
  <2>3. FirstFiles(c, Hits) = {f}
    BY <2>2 DEF FirstFiles
  <2>4. TableGet(c, fs, k, s) = Newest(c[f.num], k, s)
    BY <1>5, <2>3 DEF TableGet
  <2>5. PICK D : D = c[f.num]
    OBVIOUS
  <2>6. D \subseteq E /\ Newest(D, k, s) # {}
    BY <1>1, <2>0, <2>5 DEF Hits
  <2>7. ASSUME NEW e \in E, e.key = k, e.seq <= s
        PROVE  e \in D \/ \A d \in D : d.key = k => e.seq < d.seq
    <3>1. PICK g \in fs : e \in c[g.num]
      BY DEF EntriesOf
    <3>2. g \in Hits
      BY <1>6, <2>7, <3>1
    <3> QED BY <2>2, <2>5, <2>7, <3>1, <3>2 DEF Older
  <2>8. Newest(E, k, s) = Newest(D, k, s)
    BY <1>1, <2>6, <2>7, NewestInPart
  <2> QED BY <2>4, <2>5, <2>8
<1> QED BY <1>7, <1>8

\* Only the contents of the files searched matter.
LEMMA TableGetReadsFiles ==
    ASSUME NEW c, NEW d, NEW fs, \A f \in fs : d[f.num] = c[f.num], NEW k, NEW s
    PROVE  TableGet(d, fs, k, s) = TableGet(c, fs, k, s)
<1>1. \A f, g \in fs : FileBefore(d, f, g) <=> FileBefore(c, f, g)
  BY DEF FileBefore
<1>2. \A gs : gs \subseteq fs => FirstFiles(d, gs) = FirstFiles(c, gs)
  BY <1>1 DEF FirstFiles
<1>3. ASSUME NEW l
      PROVE  {g \in FilesAt(fs, l) : OverlapsKey(d[g.num], k)}
               = {g \in FilesAt(fs, l) : OverlapsKey(c[g.num], k)}
  BY DEF FilesAt
<1>4. ASSUME NEW l
      PROVE  FirstFiles(d, {g \in FilesAt(fs, l) : OverlapsKey(d[g.num], k)})
               = FirstFiles(c, {g \in FilesAt(fs, l) : OverlapsKey(c[g.num], k)})
  <2>1. {g \in FilesAt(fs, l) : OverlapsKey(c[g.num], k)} \subseteq fs
    BY DEF FilesAt
  <2> QED BY <1>2, <1>3, <2>1
<1>5. Candidates(d, fs, k) = Candidates(c, fs, k) /\ Candidates(c, fs, k) \subseteq fs
  BY <1>4 DEF Candidates
<1>6. FilesWithHit(d, fs, k, s) = FilesWithHit(c, fs, k, s) /\ FilesWithHit(c, fs, k, s) \subseteq fs
  BY <1>5 DEF FilesWithHit
<1>7. /\ FirstFiles(d, FilesWithHit(d, fs, k, s)) = FirstFiles(c, FilesWithHit(c, fs, k, s))
      /\ FirstFiles(c, FilesWithHit(c, fs, k, s)) \subseteq fs
  <2>1. \A gs : FirstFiles(c, gs) \subseteq gs
    BY DEF FirstFiles
  <2> QED BY <1>2, <1>6, <2>1
<1> QED BY <1>7 DEF TableGet

\* A read does not see what is newer.
LEMMA NewestIgnoresNewer ==
    ASSUME NEW E, NEW F, E \subseteq F, NEW k, NEW s, \A e \in F \ E : ~(e.seq <= s)
    PROVE  Newest(F, k, s) = Newest(E, k, s)
<1>1. VersionsOf(F, k, s) = VersionsOf(E, k, s)
  BY DEF VersionsOf
<1> QED BY <1>1 DEF Newest

-----------------------------------------------------------------------------
(* Compaction *)

\* The rest of the entries of a key are newer than the inputs or, as long as
\* tombstones stay, older.
Separate(rest, inputs, drop) ==
    \A e \in rest : \/ \A f \in inputs : f.key = e.key => f.seq < e.seq
                    \/ ~drop /\ \A f \in inputs : f.key = e.key => e.seq < f.seq

\* compact_entries drops nothing a reader can see: whoever reads at the
\* watermark or above it gets the same value after the compaction, if its
\* inputs are separate from the rest of the store.
THEOREM CompactionKeepsReads ==
    ASSUME NEW rest, NEW inputs, rest \cup inputs \subseteq Entry, UniqueSeqs(rest \cup inputs),
           NEW watermark \in Nat, NEW drop,
           Separate(rest, inputs, drop), NEW s \in Nat, watermark <= s, NEW k \in Keys
    PROVE  Visible(Newest(rest \cup CompactEntries(inputs, watermark, drop), k, s))
             = Visible(Newest(rest \cup inputs, k, s))
<1> DEFINE E == rest \cup inputs
           after == rest \cup CompactEntries(inputs, watermark, drop)
<1>1. /\ after \subseteq E /\ after \subseteq Entry /\ inputs \subseteq Entry /\ E \subseteq Entry
      /\ UniqueSeqs(after) /\ UniqueSeqs(inputs) /\ UniqueSeqs(E)
  BY DEF CompactEntries, UniqueSeqs
<1>2. \A e \in E : e.seq \in Nat /\ e.key \in Nat
  BY KeysAssumption DEF Entry
<1>3. CASE Newest(E, k, s) = {}
  <2>1. \A e \in E : ~(e.key = k /\ e.seq <= s)
    BY <1>1, <1>3, NewestExists
  <2>2. Newest(after, k, s) = {}
    BY <1>1, <2>1 DEF Newest, VersionsOf
  <2> QED BY <1>3, <2>2
<1>4. CASE Newest(E, k, s) # {}
  <2>1. PICK e \in E : e \in Newest(E, k, s)
    BY <1>4 DEF Newest, VersionsOf
  <2>2. /\ e.key = k /\ e.seq <= s /\ Newest(E, k, s) = {e}
        /\ \A f \in E : f.key = k /\ f.seq <= s => f.seq <= e.seq
    BY <1>1, <2>1, NewestIsGreatest, NewestUnique
  <2>3. CASE e \in after
    <3>1. e \in Newest(after, k, s)
      BY <1>1, <2>2, <2>3, NewestIsGreatest
    <3>2. Newest(after, k, s) = {e}
      BY <1>1, <3>1, NewestUnique
    <3> QED BY <2>2, <3>2
  <2>4. CASE e \notin after
    <3>1. e \in inputs /\ e.seq <= watermark
      BY <1>2, <2>1, <2>4 DEF CompactEntries
    <3>2. \A f \in inputs : f.key = k /\ f.seq <= watermark => f.seq <= e.seq
      BY <1>2, <2>2
    <3>3. e \in Newest(inputs, e.key, watermark)
      BY <1>1, <2>2, <3>1, <3>2, NewestIsGreatest
    <3>4. e.type # "put" /\ ~~drop
      BY <2>4, <3>1, <3>3 DEF CompactEntries
    <3>5. ASSUME NEW f \in after, f.key = k, f.seq <= s PROVE FALSE
      <4>1. f \in E /\ f # e /\ f.seq <= e.seq
        BY <1>1, <2>2, <2>4, <3>5
      <4>2. f.seq < e.seq
        BY <1>1, <1>2, <4>1 DEF UniqueSeqs
      <4>3. f \in CompactEntries(inputs, watermark, drop) /\ f \in inputs
        <5>1. CASE f \in rest
          <6>1. e.seq < f.seq
            BY <2>2, <3>1, <3>4, <3>5, <5>1 DEF Separate
          <6> QED BY <1>2, <4>1, <4>2, <6>1
        <5>2. CASE f \notin rest
          BY <3>5, <5>2 DEF CompactEntries
        <5> QED BY <5>1, <5>2
      <4>4. f \in Newest(inputs, k, watermark)
        BY <1>2, <3>1, <3>5, <4>1, <4>2, <4>3 DEF CompactEntries
      <4>5. e.seq <= f.seq
        BY <1>1, <2>2, <3>1, <4>4, NewestIsGreatest
      <4> QED BY <1>2, <4>1, <4>2, <4>5
    <3>6. Newest(after, k, s) = {}
      BY <3>5 DEF Newest, VersionsOf
    <3>7. Visible(Newest(E, k, s)) = {}
      BY <2>2, <3>4 DEF Visible
    <3>8. Visible(Newest(after, k, s)) = {}
      BY <3>6 DEF Visible
    <3> QED BY <3>7, <3>8
  <2> QED BY <2>3, <2>4
<1> QED BY <1>3, <1>4

\* Nothing above the watermark leaves in a compaction, so the conflict check of
\* a transaction that began at the watermark or later finds every later write.
LEMMA CompactionKeepsNewer ==
    ASSUME NEW inputs, NEW watermark \in Nat, NEW drop, NEW e \in inputs, e.seq > watermark
    PROVE  e \in CompactEntries(inputs, watermark, drop)
BY DEF CompactEntries
=============================================================================
