-------------------------- MODULE RecordLogProofs --------------------------
(***************************************************************************)
(* What replaying a log yields, for records of any lengths, any number of  *)
(* them, and any number of crashes and failed appends.                     *)
(***************************************************************************)
EXTENDS RecordLog, WellFoundedInduction, TLAPS

LEMMA LeastNumber ==
    ASSUME NEW T, T \subseteq Nat, T # {}
    PROVE  \E x \in T : \A y \in T : x <= y
<1> DEFINE R == {ss \in Nat \X Nat : ss[1] < ss[2]}
<1>1. IsWellFoundedOn(R, Nat)
  BY NatLessThanWellFounded DEF OpToRel
<1>2. \A x, y \in Nat : x < y => <<x, y>> \in R
  OBVIOUS
<1> HIDE DEF R
<1>3. PICK x \in T : \A y \in T : ~(<<y, x>> \in R)
  BY <1>1, WFMin
<1>4. \A y \in T : ~(y < x) /\ x \in Nat /\ y \in Nat
  BY <1>2, <1>3
<1> QED BY <1>4

\* Induction from the end of a file towards its beginning: of the positions
\* at which something fails there is a last one.
LEMMA LastPosition ==
    ASSUME NEW top \in Nat, NEW T, T \subseteq 0..top, T # {}
    PROVE  \E p \in T : \A q \in T : q <= p
<1> DEFINE D == {n \in Nat : \E y \in T : n = top - y}
<1>0. PICK t \in T : TRUE
  OBVIOUS
<1>1. D \subseteq Nat /\ top - t \in D
  BY <1>0
<1>2. PICK d \in D : \A n \in D : d <= n
  <2> HIDE DEF D
  <2> QED BY <1>1, LeastNumber
<1>3. PICK p \in T : d = top - p
  OBVIOUS
<1>4. ASSUME NEW q \in T PROVE q <= p
  <2>1. q \in Nat /\ p \in Nat /\ q <= top /\ p <= top /\ top - q \in D
    OBVIOUS
  <2>2. d <= top - q
    <3> HIDE DEF D
    <3> QED BY <1>2, <2>1
  <2> QED BY <1>3, <2>1, <2>2
<1> QED BY <1>4

-----------------------------------------------------------------------------
(* read_record, one call after the other *)

LEMMA CellType ==
    ASSUME NEW f \in Seq(Cell)
    PROVE  /\ Len(f) \in Nat /\ DOMAIN f = 1..Len(f) /\ HeaderCells \in Nat /\ HeaderCells > 0
           /\ \A i \in 1..Len(f) : /\ f[i].rec \in 1..MaxRecords /\ f[i].rec \in Nat
                                   /\ f[i].place \in Nat /\ f[i].place > 0
                                   /\ f[i].len \in Nat /\ f[i].len > 0 /\ f[i].len \in Sizes
<1>1. \A i \in 1..Len(f) : f[i] \in Cell
  OBVIOUS
<1>2. \A c \in Cell : /\ c.rec \in 1..MaxRecords /\ c.rec \in Nat
                      /\ c.place \in Nat /\ c.place > 0
                      /\ c.len \in Nat /\ c.len > 0 /\ c.len \in Sizes
  <2> SUFFICES ASSUME NEW c \in Cell
               PROVE  /\ c.rec \in 1..MaxRecords /\ c.rec \in Nat
                      /\ c.place \in Nat /\ c.place > 0
                      /\ c.len \in Nat /\ c.len > 0 /\ c.len \in Sizes
    OBVIOUS
  <2>1. c.rec \in 1..MaxRecords /\ c.place \in Nat \ {0} /\ c.len \in Sizes
    BY DEF Cell
  <2>2. c.len \in Nat \ {0}
    BY <2>1, SizesAssumption
  <2> QED BY <2>1, <2>2, BoundsAssumption
<1>3. Len(f) \in Nat /\ DOMAIN f = 1..Len(f) /\ HeaderCells \in Nat /\ HeaderCells > 0
  BY HeaderAssumption
<1> QED BY <1>1, <1>2, <1>3

\* What read_record returns depends on what follows the record only.
LEMMA ReadsAhead ==
    ASSUME NEW f \in Seq(Cell), NEW d, NEW g, NEW h, NEW p \in 1..(Len(f) + 1),
           \A q \in 1..(Len(f) + 1) : q > p => g[q] = h[q]
    PROVE  ReadRecord(f, d, g, p) = ReadRecord(f, d, h, p)
<1> DEFINE next == p + HeaderCells + f[p].len
<1>1. CASE p > Len(f) \/ Len(f) < next - 1
  BY <1>1 DEF ReadRecord
<1>2. CASE p <= Len(f) /\ ~(Len(f) < next - 1)
  <2>1. next \in 1..(Len(f) + 1) /\ next > p
    BY <1>2, CellType
  <2>2. g[next] = h[next]
    BY <2>1
  <2> QED BY <2>2 DEF ReadRecord
<1>3. p \in Nat /\ Len(f) \in Nat
  BY CellType
<1> QED BY <1>1, <1>2, <1>3

\* The loop around read_record is well defined: every call advances.
LEMMA ReadFromDefined ==
    ASSUME NEW f \in Seq(Cell), NEW d
    PROVE  ReadFrom(f, d) = [p \in 1..(Len(f) + 1) |-> ReadRecord(f, d, ReadFrom(f, d), p)]
<1> DEFINE P == 1..(Len(f) + 1)
           Solves(g, q) == /\ g = [p \in P |-> g[p]]
                           /\ \A p \in P : p >= q => g[p] = ReadRecord(f, d, g, p)
           T == {q \in 0..(Len(f) + 2) : q >= 1 /\ ~ \E g : Solves(g, q)}
<1>0. Len(f) \in Nat
  OBVIOUS
<1>1. T = {}
  <2> SUFFICES ASSUME T # {} PROVE FALSE
    OBVIOUS
  <2>1. PICK q \in T : \A r \in T : r <= q
    <3>1. T \subseteq 0..(Len(f) + 2) /\ Len(f) + 2 \in Nat
      BY <1>0
    <3> HIDE DEF T
    <3> QED BY <3>1, LastPosition
  <2>2. q \in 1..(Len(f) + 1)
    <3>1. Solves([p \in P |-> 0], Len(f) + 2)
      BY <1>0
    <3> QED BY <1>0, <3>1
  <2>3. PICK g : Solves(g, q + 1)
    <3>1. q + 1 \notin T
      <4> HIDE DEF T
      <4> QED BY <1>0, <2>1, <2>2
    <3>2. q + 1 \in 0..(Len(f) + 2) /\ q + 1 >= 1
      BY <1>0, <2>2
    <3> HIDE DEF Solves
    <3> QED BY <3>1, <3>2
  <2> DEFINE h == [p \in P |-> IF p = q THEN ReadRecord(f, d, g, q) ELSE g[p]]
  <2>4. ASSUME NEW p \in P, p >= q PROVE h[p] = ReadRecord(f, d, h, p)
    <3>1. \A r \in P : r > p => h[r] = g[r]
      BY <1>0, <2>2, <2>4
    <3>2. ReadRecord(f, d, h, p) = ReadRecord(f, d, g, p)
      <4> HIDE DEF h
      <4> QED BY <3>1, ReadsAhead
    <3>3. p # q => p >= q + 1
      BY <1>0, <2>2, <2>4
    <3> QED BY <2>3, <3>2, <3>3
  <2>5. Solves(h, q)
    BY <2>4
  <2> QED BY <2>5
<1>2. \E g : Solves(g, 1)
  <2>1. 1 \notin T
    <3> HIDE DEF T
    <3> QED BY <1>1
  <2>2. 1 \in 0..(Len(f) + 2) /\ 1 >= 1
    BY <1>0
  <2> HIDE DEF Solves
  <2> QED BY <2>1, <2>2
<1>3. \E g : g = [p \in P |-> ReadRecord(f, d, g, p)]
  <2>1. PICK g : Solves(g, 1)
    BY <1>2
  <2>2. \A p \in P : p >= 1
    BY <1>0
  <2>3. \A p \in P : g[p] = ReadRecord(f, d, g, p)
    BY <2>1, <2>2
  <2> QED BY <2>1, <2>3
<1>4. ReadFrom(f, d) = CHOOSE g : g = [p \in P |-> ReadRecord(f, d, g, p)]
  BY DEF ReadFrom
<1> HIDE DEF P
<1> QED BY <1>3, <1>4 DEF P

-----------------------------------------------------------------------------
(* Where records lie *)

LEMMA Ordered ==
    ASSUME NEW f \in Seq(Cell), Layout(f), NEW i \in 1..Len(f), NEW j \in 1..(i - 1)
    PROVE  /\ j \in 1..Len(f) /\ f[j].rec \in Nat /\ f[i].rec \in Nat
           /\ \/ f[j].rec < f[i].rec
              \/ /\ f[j].rec = f[i].rec /\ f[j].len = f[i].len
                 /\ f[i].place = f[j].place + (i - j)
<1>1. DOMAIN f = 1..Len(f) /\ Len(f) \in Nat
  OBVIOUS
<1>2. j \in 1..Len(f)
  BY <1>1
<1> QED BY <1>1, <1>2, CellType DEF Layout

\* From the first cell of a record on: either the same record goes on, or a
\* later one has begun.
LEMMA FromFirstCell ==
    ASSUME NEW f \in Seq(Cell), Layout(f), NEW p \in 1..Len(f), f[p].place = 1,
           NEW i \in 1..Len(f), i >= p
    PROVE  \/ f[i].rec = f[p].rec /\ f[i].len = f[p].len /\ f[i].place = 1 + (i - p)
           \/ f[i].rec > f[p].rec
<1>1. CASE i = p
  <2>1. i \in Nat /\ 1 + (i - i) = 1
    BY CellType
  <2> QED BY <1>1, <2>1
<1>2. CASE i > p
  <2>1. p \in 1..(i - 1)
    BY <1>2
  <2> QED BY <2>1, CellType DEF Layout
<1> QED BY <1>1, <1>2, CellType

\* The cells of a complete record, from the first to the last.
Extent(f, r, s, e) ==
    /\ f[s].rec = r /\ f[s].place = 1 /\ e = s + HeaderCells + f[s].len - 1
    /\ \A i \in 1..Len(f) : s <= i /\ i <= e => f[i].rec = r /\ f[i].place = 1 + (i - s)

LEMMA WholeExtent ==
    ASSUME NEW f \in Seq(Cell), Layout(f), NEW r, Whole(f, r)
    PROVE  \E s, e \in 1..Len(f) : Extent(f, r, s, e)
<1>1. PICK e \in 1..Len(f) : f[e].rec = r /\ f[e].place = HeaderCells + f[e].len
  BY CellType DEF Whole
<1> DEFINE s == e + 1 - f[e].place
<1>2. f[e].place \in 1..e /\ f[s].rec = r
  BY <1>1, CellType DEF Layout
<1>3. s \in 1..Len(f) /\ s <= e
  BY <1>2, CellType
<1> HIDE DEF s
<1>4. f[s].len = f[e].len /\ f[s].place = 1
  <2>1. CASE s = e
    BY <1>2, <1>3, <2>1, CellType DEF s
  <2>2. CASE s # e
    <3>1. s \in 1..(e - 1)
      BY <1>3, <2>2
    <3>2. f[s].len = f[e].len /\ f[e].place = f[s].place + (e - s)
      BY <1>1, <1>2, <3>1, Ordered
    <3> QED BY <1>2, <1>3, <3>2, CellType, SMTT(30) DEF s
  <2> QED BY <2>1, <2>2
<1>5. e = s + HeaderCells + f[s].len - 1
  BY <1>1, <1>2, <1>3, <1>4, CellType, SMTT(30) DEF s
<1>6. ASSUME NEW i \in 1..Len(f), s <= i, i <= e
      PROVE  f[i].rec = r /\ f[i].place = 1 + (i - s)
  <2>1. \/ f[i].rec = r /\ f[i].place = 1 + (i - s)
        \/ f[i].rec > r
    BY <1>2, <1>3, <1>4, <1>6, FromFirstCell
  <2>2. i = e \/ f[i].rec <= r
    <3>1. CASE i # e
      <4>1. i \in 1..(e - 1)
        BY <1>6, <3>1
      <4> QED BY <1>1, <4>1, Ordered
    <3> QED BY <3>1
  <2> QED BY <1>1, <2>1, <2>2, CellType
<1> QED BY <1>2, <1>3, <1>4, <1>5, <1>6 DEF Extent

\* A complete record that begins at p ends inside the file.
LEMMA WholeFrom ==
    ASSUME NEW f \in Seq(Cell), Layout(f), NEW p \in 1..Len(f), f[p].place = 1,
           Whole(f, f[p].rec)
    PROVE  /\ p + HeaderCells + f[p].len - 1 <= Len(f)
           /\ OneRecord(f, p, HeaderCells + f[p].len, 1) /\ OneRecord(f, p, HeaderCells, 1)
<1>0. PICK s, e \in 1..Len(f) : Extent(f, f[p].rec, s, e)
  BY WholeExtent
<1>1. /\ f[s].rec = f[p].rec /\ f[s].place = 1 /\ e = s + HeaderCells + f[s].len - 1
      /\ \A i \in 1..Len(f) :
            s <= i /\ i <= e => f[i].rec = f[p].rec /\ f[i].place = 1 + (i - s)
  BY <1>0 DEF Extent
<1>2. s = p
  <2>0. f[p].rec \in Nat
    BY CellType
  <2>1. s >= p => f[s].place = 1 + (s - p)
    <3>1. s >= p => \/ f[s].rec = f[p].rec /\ f[s].len = f[p].len /\ f[s].place = 1 + (s - p)
                    \/ f[s].rec > f[p].rec
      BY FromFirstCell
    <3> QED BY <1>1, <2>0, <3>1
  <2>2. p >= s => f[p].place = 1 + (p - s)
    <3>1. p >= s => \/ f[p].rec = f[s].rec /\ f[p].len = f[s].len /\ f[p].place = 1 + (p - s)
                    \/ f[p].rec > f[s].rec
      BY <1>1, FromFirstCell
    <3> QED BY <1>1, <2>0, <3>1
  <2> QED BY <1>1, <2>1, <2>2
<1>3. ASSUME NEW n \in Nat, n <= HeaderCells + f[p].len PROVE OneRecord(f, p, n, 1)
  <2>1. ASSUME NEW m \in 0..(n - 1)
        PROVE  f[p + m].rec = f[p].rec /\ f[p + m].place = 1 + m
    <3>1. p + m \in 1..Len(f) /\ p <= p + m /\ p + m <= e
      BY <1>1, <1>2, <1>3, CellType, SMTT(30)
    <3>2. (p + m) - p = m
      OBVIOUS
    <3> QED BY <1>1, <1>2, <3>1, <3>2
  <2> QED BY <2>1 DEF OneRecord
<1>4. HeaderCells + f[p].len \in Nat /\ HeaderCells \in Nat /\ HeaderCells <= HeaderCells + f[p].len
  BY CellType
<1> QED BY <1>1, <1>2, <1>3, <1>4

-----------------------------------------------------------------------------
(* Replay *)

\* A record begins at p, or the file ends, and k of the complete records lie
\* before.
Boundary(f, a, p, k) ==
    /\ p = Len(f) + 1 \/ f[p].place = 1
    /\ \A i \in 1..Len(f), n \in 1..Len(a) : f[i].rec = a[n] => (i < p <=> n <= k)

\* Only the last record may have been cut short.
AllButLast(f, a, last) ==
    \A i \in 1..Len(f) : /\ f[i].rec <= last
                         /\ f[i].rec = last \/ \E n \in 1..Len(a) : a[n] = f[i].rec

\* R is the rest of a after the first k, or a part of it.
Reads(f, a, last, R, k) ==
    /\ R.recs \in Seq(1..MaxRecords) /\ Len(R.recs) + k <= Len(a)
    /\ \A n \in 1..Len(R.recs) : R.recs[n] = a[k + n]
    /\ AllButLast(f, a, last) => R.ok = TRUE /\ Len(R.recs) + k = Len(a)

LEMMA WrittenType ==
    ASSUME NEW f, NEW a, Written(f, a)
    PROVE  /\ f \in Seq(Cell) /\ a \in Seq(1..MaxRecords) /\ Len(a) \in Nat /\ Layout(f)
           /\ \A n \in 1..Len(a) : a[n] \in 1..MaxRecords /\ a[n] \in Nat /\ Whole(f, a[n])
           /\ \A m, n \in 1..Len(a) : m < n => a[m] < a[n]
<1>1. /\ f \in Seq(Cell) /\ a \in Seq(1..MaxRecords) /\ Layout(f) /\ DOMAIN a = 1..Len(a)
      /\ Len(a) \in Nat
  BY DEF Written
<1>2. \A n \in 1..Len(a) : a[n] \in 1..MaxRecords /\ a[n] \in Nat
  BY <1>1, BoundsAssumption
<1> QED BY <1>1, <1>2 DEF Written

LEMMA Stops ==
    ASSUME NEW f, NEW a, Written(f, a), NEW last, NEW R, NEW k \in 0..Len(a), R.recs = <<>>,
           AllButLast(f, a, last) => R.ok = TRUE /\ k = Len(a)
    PROVE  Reads(f, a, last, R, k)
<1>1. Len(a) \in Nat /\ k \in Nat
  BY WrittenType
<1>2. R.recs \in Seq(1..MaxRecords) /\ Len(R.recs) = 0 /\ 1..Len(R.recs) = {}
  OBVIOUS
<1> QED BY <1>1, <1>2 DEF Reads

\* The next complete record lies behind.
LEMMA NextComplete ==
    ASSUME NEW f, NEW a, Written(f, a), NEW p \in 1..(Len(f) + 1), NEW k \in 0..Len(a),
           Boundary(f, a, p, k), k # Len(a)
    PROVE  /\ k + 1 \in 1..Len(a) /\ Whole(f, a[k + 1])
           /\ \E s \in 1..Len(f) : /\ s >= p /\ f[s].rec = a[k + 1]
                                   /\ s + HeaderCells <= Len(f)
<1>0. f \in Seq(Cell) /\ Layout(f) /\ Len(a) \in Nat
  BY WrittenType
<1>1. k + 1 \in 1..Len(a)
  BY <1>0
<1>2. Whole(f, a[k + 1])
  BY <1>1, WrittenType
<1>3. PICK s, e \in 1..Len(f) :
         f[s].rec = a[k + 1] /\ e = s + HeaderCells + f[s].len - 1
  <2>1. PICK s, e \in 1..Len(f) : Extent(f, a[k + 1], s, e)
    BY <1>0, <1>2, WholeExtent
  <2> QED BY <2>1 DEF Extent
<1>4. ~(s < p)
  BY <1>0, <1>1, <1>3 DEF Boundary
<1>5. /\ HeaderCells \in Nat /\ f[s].len \in Nat /\ f[s].len > 0 /\ Len(f) \in Nat
  BY <1>0, CellType
<1>6. s >= p /\ s + HeaderCells <= Len(f)
  BY <1>3, <1>4, <1>5
<1> QED BY <1>1, <1>2, <1>3, <1>6

\* If only the last record may have been cut short, nothing follows a record
\* that was.
LEMMA Unfinished ==
    ASSUME NEW f, NEW a, Written(f, a), NEW last, AllButLast(f, a, last),
           NEW p \in 1..Len(f), f[p].place = 1, ~Whole(f, f[p].rec)
    PROVE  \A i \in 1..Len(f) : i >= p => f[i].rec = f[p].rec /\ f[i].place = 1 + (i - p)
<1>0. f \in Seq(Cell) /\ Layout(f)
  BY WrittenType
<1>1. f[p].rec = last
  <2>1. f[p].rec = last \/ \E n \in 1..Len(a) : a[n] = f[p].rec
    BY DEF AllButLast
  <2> QED BY <2>1, WrittenType
<1>2. ASSUME NEW i \in 1..Len(f), i >= p
      PROVE  f[i].rec = f[p].rec /\ f[i].place = 1 + (i - p)
  <2>1. \/ f[i].rec = f[p].rec /\ f[i].place = 1 + (i - p)
        \/ f[i].rec > f[p].rec
    BY <1>0, <1>2, FromFirstCell
  <2>2. f[i].rec <= f[p].rec /\ f[i].rec \in Nat /\ f[p].rec \in Nat
    BY <1>0, <1>1, CellType DEF AllButLast
  <2> QED BY <2>1, <2>2
<1> QED BY <1>2

\* So a record that is not in one piece has its end past the end of the file.
LEMMA InOnePiece ==
    ASSUME NEW f, NEW a, Written(f, a), NEW last, AllButLast(f, a, last),
           NEW p \in 1..Len(f), f[p].place = 1, NEW n \in {HeaderCells, HeaderCells + f[p].len},
           p + n - 1 <= Len(f)
    PROVE  OneRecord(f, p, n, 1)
<1>0. f \in Seq(Cell) /\ Layout(f)
  BY WrittenType
<1>1. CASE Whole(f, f[p].rec)
  BY <1>0, <1>1, WholeFrom
<1>2. CASE ~Whole(f, f[p].rec)
  <2>0. n \in Nat /\ Len(f) \in Nat
    BY <1>0, CellType
  <2>1. ASSUME NEW m \in 0..(n - 1)
        PROVE  f[p + m].rec = f[p].rec /\ f[p + m].place = 1 + m
    <3>1. p + m \in 1..Len(f) /\ p + m >= p /\ (p + m) - p = m
      BY <2>0
    <3> QED BY <1>2, <3>1, Unfinished
  <2> QED BY <2>1 DEF OneRecord
<1> QED BY <1>1, <1>2

\* A record that is read is the next complete one, and another boundary
\* follows.
LEMMA Advances ==
    ASSUME NEW f, NEW a, Written(f, a), NEW p \in 1..Len(f), NEW k \in 0..Len(a),
           Boundary(f, a, p, k), NEW next, next = p + HeaderCells + f[p].len,
           next - 1 <= Len(f), OneRecord(f, p, HeaderCells + f[p].len, 1)
    PROVE  /\ next \in 1..(Len(f) + 1) /\ next > p /\ k + 1 \in 1..Len(a)
           /\ f[p].rec = a[k + 1] /\ Boundary(f, a, next, k + 1)
<1>0. /\ f \in Seq(Cell) /\ Layout(f) /\ Len(a) \in Nat /\ Len(f) \in Nat /\ DOMAIN f = 1..Len(f)
      /\ HeaderCells \in Nat /\ HeaderCells > 0 /\ f[p].len \in Nat /\ f[p].len > 0
      /\ f[p].rec \in 1..MaxRecords /\ f[p].rec \in Nat
  BY WrittenType, CellType
<1>1. next \in 1..(Len(f) + 1) /\ next > p
  BY <1>0
<1>c. PICK c \in Nat : /\ c = HeaderCells + f[p].len /\ c > 0 /\ next = p + c
                       /\ OneRecord(f, p, c, 1)
  <2>1. PICK c : c = HeaderCells + f[p].len
    OBVIOUS
  <2> QED BY <1>0, <2>1
<1>2. f[p].place = 1
  BY <1>0 DEF Boundary
<1>3. ASSUME NEW i \in 1..Len(f), p <= i, i < next
      PROVE  f[i].rec = f[p].rec /\ f[i].place = 1 + (i - p)
  <2>1. PICK m \in 0..(c - 1) : p + m = i /\ m = i - p
    <3>1. p \in Nat /\ i \in Nat /\ p <= i /\ i < p + c
      BY <1>0, <1>3, <1>c
    <3>2. i - p \in Nat /\ i - p <= c - 1 /\ c - 1 \in Nat /\ p + (i - p) = i
      BY <1>c, <3>1, SMTT(30)
    <3> QED BY <3>2
  <2>2. f[p + m].rec = f[p].rec /\ f[p + m].place = 1 + m
    BY <1>c DEF OneRecord
  <2> QED BY <2>1, <2>2
<1>e. PICK e \in 1..Len(f) : e = next - 1 /\ next = e + 1 /\ p <= e /\ e < next
  BY <1>0, <1>1
<1>4. f[e].rec = f[p].rec /\ f[e].len = f[p].len /\ f[e].place = c
  <2>1. f[e].rec = f[p].rec /\ f[e].place = 1 + (e - p)
    BY <1>3, <1>e
  <2>2. \/ f[e].rec = f[p].rec /\ f[e].len = f[p].len
        \/ f[e].rec > f[p].rec
    BY <1>0, <1>2, <1>e, FromFirstCell
  <2>3. 1 + (e - p) = c
    BY <1>c, <1>e, SMTT(30)
  <2>4. ~(f[p].rec > f[p].rec)
    BY <1>0
  <2> QED BY <2>1, <2>2, <2>3, <2>4
<1>5. PICK n \in 1..Len(a) : a[n] = f[p].rec
  <2>1. Whole(f, f[p].rec)
    BY <1>0, <1>4, <1>c, <1>e DEF Whole
  <2>2. DOMAIN a = 1..Len(a)
    BY WrittenType
  <2> QED BY <1>0, <2>1, <2>2 DEF Written
<1>6. n = k + 1
  <2>1. n > k
    BY <1>0, <1>5 DEF Boundary
  <2>2. ASSUME n > k + 1 PROVE FALSE
    <3>1. k # Len(a)
      <4>1. k \in Nat /\ n \in Nat /\ n <= Len(a) /\ k < n
        BY <1>0, <2>1
      <4> QED BY <1>0, <4>1
    <3>2. PICK s \in 1..Len(f) : s >= p /\ f[s].rec = a[k + 1]
      <4>1. p \in 1..(Len(f) + 1)
        BY <1>0
      <4>2. \E s \in 1..Len(f) : /\ s >= p /\ f[s].rec = a[k + 1]
                                  /\ s + HeaderCells <= Len(f)
        BY <3>1, <4>1, NextComplete
      <4> QED BY <4>2
    <3>3. k + 1 \in 1..Len(a) /\ a[k + 1] < a[n] /\ a[k + 1] \in Nat
      BY <1>0, <2>2, <2>1, WrittenType, SMTT(30)
    <3>4. f[s].rec = f[p].rec \/ f[s].rec > f[p].rec
      BY <1>0, <1>2, <3>2, FromFirstCell
    <3> QED BY <1>0, <1>5, <3>2, <3>3, <3>4, SMTT(30)
  <2> QED BY <1>0, <2>1, <2>2
<1>7. next = Len(f) + 1 \/ f[next].place = 1
  <2> SUFFICES ASSUME next \in 1..Len(f), f[next].place # 1 PROVE FALSE
    BY <1>0, <1>1, SMTT(30)
  <2> DEFINE s == next + 1 - f[next].place
  <2>1. /\ f[next].place \in 1..next /\ f[s].rec = f[next].rec
        /\ f[next].place <= HeaderCells + f[next].len
    BY <1>0 DEF Layout
  <2>2. s \in 1..(next - 1)
    BY <2>1, SMTT(30)
  <2> HIDE DEF s
  <2>3. e \in 1..(next - 1) /\ s <= e /\ s \in Nat
    BY <1>e, <2>2
  <2>4. /\ f[e].rec \in Nat /\ f[next].rec \in Nat
        /\ \/ f[e].rec < f[next].rec
           \/ /\ f[e].rec = f[next].rec /\ f[e].len = f[next].len
              /\ f[next].place = f[e].place + (next - e)
    BY <1>0, <2>3, Ordered
  <2>5. f[s].rec <= f[e].rec
    <3>1. CASE s = e
      BY <2>4, <3>1
    <3>2. CASE s # e
      <4>1. s \in 1..(e - 1)
        BY <2>2, <2>3, <3>2
      <4>2. f[s].rec \in Nat /\ (f[s].rec < f[e].rec \/ f[s].rec = f[e].rec)
        BY <1>0, <4>1, Ordered
      <4> QED BY <2>4, <4>2, SMTT(30)
    <3> QED BY <3>1, <3>2
  <2>6. f[e].len = f[next].len /\ f[next].place = f[e].place + (next - e)
    BY <2>1, <2>4, <2>5
  <2>7. next - e = 1
    BY <1>e
  <2>8. HeaderCells + f[next].len = c /\ f[next].place = c + 1
    BY <1>4, <1>c, <2>6, <2>7
  <2> QED BY <1>c, <2>1, <2>8
<1>8. ASSUME NEW i \in 1..Len(f), NEW m \in 1..Len(a), f[i].rec = a[m]
      PROVE  i < next <=> m <= k + 1
  <2>0. i < p <=> m <= k
    BY <1>8 DEF Boundary
  <2>1. CASE m <= k
    BY <1>0, <1>1, <2>0, <2>1
  <2>2. CASE m = k + 1
    <3>1. i >= p
      BY <1>0, <2>0, <2>2
    <3>2. f[i].rec = f[p].rec /\ f[i].rec \in Nat
      BY <1>0, <1>5, <1>6, <1>8, <2>2
    <3>3. f[i].place = 1 + (i - p) /\ f[i].len = f[p].len
      <4>1. \/ f[i].rec = f[p].rec /\ f[i].len = f[p].len /\ f[i].place = 1 + (i - p)
            \/ f[i].rec > f[p].rec
        BY <1>0, <1>2, <3>1, FromFirstCell
      <4> QED BY <3>2, <4>1
    <3>4. f[i].place <= HeaderCells + f[i].len
      BY <1>0 DEF Layout
    <3>5. i < next
      BY <1>0, <3>1, <3>3, <3>4, SMTT(30)
    <3> QED BY <2>2, <3>5
  <2>3. CASE m > k + 1
    <3>1. i >= p
      BY <1>0, <2>0, <2>3
    <3>2. a[k + 1] < a[m] /\ a[k + 1] \in Nat
      BY <1>0, <1>5, <1>6, <2>3, WrittenType
    <3>3. ~(i < next)
      BY <1>0, <1>3, <1>5, <1>6, <1>8, <3>1, <3>2, SMTT(30)
    <3> QED BY <1>0, <2>3, <3>3
  <2> QED BY <1>0, <2>1, <2>2, <2>3
<1> QED BY <1>0, <1>1, <1>5, <1>6, <1>7, <1>8 DEF Boundary

LEMMA ReadRecordCases ==
    ASSUME NEW f \in Seq(Cell), NEW d, NEW rest, NEW p \in 1..(Len(f) + 1)
    PROVE  LET next == p + HeaderCells + f[p].len
               RR == ReadRecord(f, d, rest, p)
               A == Len(f) < p + HeaderCells - 1 \/ p > Len(f)
               B == OneRecord(f, p, HeaderCells, 1)
               C == Len(f) < next - 1
               D == OneRecord(f, p, HeaderCells + f[p].len, 1)
           IN  /\ A => RR = CutShort
               /\ ~A /\ ~B => RR \in {CutShort, Corrupt}
               /\ ~A /\ B /\ C => RR = CutShort
               /\ ~A /\ B /\ ~C /\ ~D => RR = Corrupt
               /\ ~A /\ B /\ ~C /\ D =>
                    RR = [ok |-> rest[next].ok, recs |-> <<f[p].rec>> \o rest[next].recs]
<1> DEFINE next == p + HeaderCells + f[p].len
           RR == ReadRecord(f, d, rest, p)
           A == Len(f) < p + HeaderCells - 1 \/ p > Len(f)
           B == OneRecord(f, p, HeaderCells, 1)
           C == Len(f) < next - 1
           D == OneRecord(f, p, HeaderCells + f[p].len, 1)
           V == [ok |-> rest[next].ok, recs |-> <<f[p].rec>> \o rest[next].recs]
<1>0. Len(f) \in Nat /\ p \in Nat /\ HeaderCells \in Nat
  BY CellType
<1>1. RR = IF A THEN CutShort
           ELSE IF ~B THEN IF d = "eof" THEN CutShort ELSE Corrupt
           ELSE IF C THEN CutShort
           ELSE IF ~D THEN Corrupt ELSE V
  BY <1>0 DEF ReadRecord
<1> HIDE DEF RR, A, B, C, D, V
<1>2. /\ A => RR = CutShort
      /\ ~A /\ ~B => RR \in {CutShort, Corrupt}
      /\ ~A /\ B /\ C => RR = CutShort
      /\ ~A /\ B /\ ~C /\ ~D => RR = Corrupt
      /\ ~A /\ B /\ ~C /\ D => RR = V
  BY <1>1
<1> QED BY <1>2 DEF RR, A, B, C, D, V

\* What read_record returns from a boundary on, given that this holds for
\* the boundaries after it.
LEMMA ReadsFrom ==
    ASSUME NEW f, NEW a, Written(f, a), NEW last, NEW d, NEW p \in 1..(Len(f) + 1),
           NEW k \in 0..Len(a), Boundary(f, a, p, k),
           \A q \in 1..(Len(f) + 1), m \in 0..Len(a) :
              q > p /\ Boundary(f, a, q, m) => Reads(f, a, last, ReadFrom(f, d)[q], m)
    PROVE  Reads(f, a, last, ReadFrom(f, d)[p], k)
<1> DEFINE R == ReadFrom(f, d)[p]
           next == p + HeaderCells + f[p].len
<1>0. /\ f \in Seq(Cell) /\ Layout(f) /\ Len(f) \in Nat /\ p \in Nat /\ Len(a) \in Nat /\ k \in Nat
      /\ HeaderCells \in Nat /\ HeaderCells > 0
  BY WrittenType, CellType
<1>1. R = ReadRecord(f, d, ReadFrom(f, d), p)
  BY <1>0, ReadFromDefined
<1>n. PICK q : q = next
  OBVIOUS
<1>2. CutShort.recs = <<>> /\ CutShort.ok = TRUE /\ Corrupt.recs = <<>>
  BY DEF CutShort, Corrupt
<1> HIDE DEF R
<1>3. CASE Len(f) < p + HeaderCells - 1 \/ p > Len(f)
  <2>1. R = CutShort
    BY <1>1, <1>3, <1>0, <1>n, ReadRecordCases
  <2>2. k = Len(a)
    <3> SUFFICES ASSUME k # Len(a) PROVE FALSE
      OBVIOUS
    <3>1. PICK s \in 1..Len(f) : s >= p /\ s + HeaderCells <= Len(f)
      BY NextComplete
    <3> QED BY <1>0, <1>3, <3>1
  <2>3. Reads(f, a, last, R, k)
    BY <1>2, <2>1, <2>2, Stops
  <2> QED BY <2>3 DEF R
<1>4. ASSUME ~(Len(f) < p + HeaderCells - 1), ~(p > Len(f))
      PROVE  Reads(f, a, last, ReadFrom(f, d)[p], k)
  <2>0. /\ p \in 1..Len(f) /\ f[p].place = 1 /\ f[p].len \in Nat /\ f[p].len > 0
        /\ p + HeaderCells - 1 <= Len(f)
    <3>1. p \in 1..Len(f) /\ p # Len(f) + 1 /\ p + HeaderCells - 1 <= Len(f)
      BY <1>0, <1>4
    <3> QED BY <1>0, <3>1, CellType DEF Boundary
  <2>1. CASE ~OneRecord(f, p, HeaderCells, 1)
    <3>1. R = CutShort \/ R = Corrupt
      BY <1>1, <1>4, <1>0, <1>n, <2>1, ReadRecordCases
    <3>2. ~AllButLast(f, a, last)
      BY <2>0, <2>1, InOnePiece
    <3>3. Reads(f, a, last, R, k)
      BY <1>2, <3>1, <3>2, Stops
    <3> QED BY <3>3 DEF R
  <2>2. CASE OneRecord(f, p, HeaderCells, 1) /\ Len(f) < next - 1
    <3>1. R = CutShort
      BY <1>1, <1>4, <1>0, <1>n, <2>2, ReadRecordCases
    <3>2. ASSUME AllButLast(f, a, last) PROVE k = Len(a)
      <4>1. ~Whole(f, f[p].rec)
        <5>1. ~(next - 1 <= Len(f))
          BY <1>0, <2>0, <2>2
        <5> QED BY <1>0, <2>0, <5>1, WholeFrom
      <4>2. \A i \in 1..Len(f) : i >= p => f[i].rec = f[p].rec
        BY <2>0, <3>2, <4>1, Unfinished
      <4> SUFFICES ASSUME k # Len(a) PROVE FALSE
        OBVIOUS
      <4>3. Whole(f, a[k + 1]) /\ \E s \in 1..Len(f) : s >= p /\ f[s].rec = a[k + 1]
        BY NextComplete
      <4> QED BY <4>1, <4>2, <4>3
    <3>3. Reads(f, a, last, R, k)
      BY <1>2, <3>1, <3>2, Stops
    <3> QED BY <3>3 DEF R
  <2>3. CASE /\ OneRecord(f, p, HeaderCells, 1) /\ ~(Len(f) < next - 1)
             /\ ~OneRecord(f, p, HeaderCells + f[p].len, 1)
    <3>1. R = Corrupt
      BY <1>1, <1>4, <1>0, <1>n, <2>3, ReadRecordCases
    <3>2. ~AllButLast(f, a, last)
      <4>1. PICK n : n = HeaderCells + f[p].len
        OBVIOUS
      <4>2. p + n - 1 <= Len(f)
        <5>1. p + n = next /\ n \in Nat
          BY <1>0, <2>0, <4>1, SMTT(30)
        <5> HIDE DEF next
        <5> QED BY <1>0, <2>3, <5>1
      <4> QED BY <2>0, <2>3, <4>1, <4>2, InOnePiece
    <3>3. Reads(f, a, last, R, k)
      BY <1>2, <3>1, <3>2, Stops
    <3> QED BY <3>3 DEF R
  <2>4. CASE /\ OneRecord(f, p, HeaderCells, 1) /\ ~(Len(f) < next - 1)
             /\ OneRecord(f, p, HeaderCells + f[p].len, 1)
    <3>1. q = next
      BY <1>n
    <3>2. PICK S : S = ReadFrom(f, d)[q]
      OBVIOUS
    <3>3. R = [ok |-> S.ok, recs |-> <<f[p].rec>> \o S.recs]
      <4>2. ReadRecord(f, d, ReadFrom(f, d), p) =
               [ok |-> ReadFrom(f, d)[q].ok, recs |-> <<f[p].rec>> \o ReadFrom(f, d)[q].recs]
        BY <1>4, <1>0, <1>n, <2>4, ReadRecordCases
      <4> QED BY <1>1, <3>2, <4>2, Zenon
    <3>4. /\ q \in 1..(Len(f) + 1) /\ q > p /\ k + 1 \in 1..Len(a)
          /\ f[p].rec = a[k + 1] /\ Boundary(f, a, q, k + 1)
      <4>1. q - 1 <= Len(f)
        BY <1>0, <2>0, <2>4, <3>1
      <4> QED BY <2>0, <2>4, <3>1, <4>1, Advances
    <3>5. Reads(f, a, last, S, k + 1)
      <4>1. k + 1 \in 0..Len(a)
        BY <1>0, <3>4
      <4> QED BY <3>2, <3>4, <4>1
    <3>6. f[p].rec \in 1..MaxRecords
      BY <1>0, <2>0, CellType
    <3>7. /\ S.recs \in Seq(1..MaxRecords) /\ Len(S.recs) + (k + 1) <= Len(a)
          /\ \A n \in 1..Len(S.recs) : S.recs[n] = a[(k + 1) + n]
          /\ AllButLast(f, a, last) => S.ok = TRUE /\ Len(S.recs) + (k + 1) = Len(a)
      BY <3>5, Zenon DEF Reads
    <3>a. Len(S.recs) \in Nat
      BY <3>7
    <3>b. R.ok = S.ok /\ R.recs = <<f[p].rec>> \o S.recs
      BY <3>3, Zenon
    <3>8. /\ R.recs \in Seq(1..MaxRecords) /\ Len(R.recs) = 1 + Len(S.recs)
          /\ R.recs[1] = f[p].rec
          /\ \A n \in 2..Len(R.recs) : R.recs[n] = S.recs[n - 1]
      BY <3>b, <3>6, <3>7
    <3>9. ASSUME NEW n \in 1..Len(R.recs) PROVE R.recs[n] = a[k + n]
      <4>1. CASE n = 1
        BY <3>4, <3>8, <4>1
      <4>2. CASE n # 1
        <5>1. n \in 2..Len(R.recs) /\ n - 1 \in 1..Len(S.recs) /\ (k + 1) + (n - 1) = k + n
          BY <1>0, <3>a, <3>8, <4>2
        <5> QED BY <3>7, <3>8, <5>1
      <4> QED BY <4>1, <4>2
    <3>10. Reads(f, a, last, R, k)
      <4>1. Len(R.recs) + k = Len(S.recs) + (k + 1)
        <5>1. PICK x, y : x = Len(S.recs) /\ y = Len(R.recs)
          OBVIOUS
        <5>2. x \in Nat /\ y = 1 + x
          BY <3>a, <3>8, <5>1
        <5>3. y + k = x + (k + 1)
          BY <1>0, <5>2
        <5> QED BY <5>1, <5>3
      <4> QED BY <3>b, <3>7, <3>8, <3>9, <4>1, Zenon DEF Reads
    <3> QED BY <3>10 DEF R
  <2> QED BY <2>1, <2>2, <2>3, <2>4
<1> QED BY <1>3, <1>4

\* Replaying a file yields its complete records or the first of them, and all
\* of them if only the last record was cut short.
LEMMA Replays ==
    ASSUME NEW f, NEW a, Written(f, a), NEW last, NEW d
    PROVE  Reads(f, a, last, ReadAll(f, d), 0)
<1> DEFINE Good(p, k) == Reads(f, a, last, ReadFrom(f, d)[p], k)
           T == {p \in 0..(Len(f) + 1) :
                    p >= 1 /\ \E k \in 0..Len(a) : Boundary(f, a, p, k) /\ ~Good(p, k)}
<1>0. f \in Seq(Cell) /\ Len(f) \in Nat /\ Len(a) \in Nat /\ Layout(f)
  BY WrittenType
<1>1. T = {}
  <2> SUFFICES ASSUME T # {} PROVE FALSE
    OBVIOUS
  <2>1. PICK p \in T : \A q \in T : q <= p
    <3>1. T \subseteq 0..(Len(f) + 1) /\ Len(f) + 1 \in Nat
      BY <1>0
    <3> HIDE DEF T
    <3> QED BY <3>1, LastPosition
  <2>2. p \in 1..(Len(f) + 1)
    BY <1>0
  <2>3. PICK k \in 0..Len(a) : Boundary(f, a, p, k) /\ ~Good(p, k)
    <3> HIDE DEF Good
    <3> QED OBVIOUS
  <2>4. ASSUME NEW q \in 1..(Len(f) + 1), NEW m \in 0..Len(a), q > p, Boundary(f, a, q, m)
        PROVE  Good(q, m)
    <3>1. q \notin T
      <4> HIDE DEF T
      <4> QED BY <1>0, <2>1, <2>2, <2>4
    <3>2. q \in 0..(Len(f) + 1) /\ q >= 1
      BY <1>0
    <3> HIDE DEF Good
    <3> QED BY <2>4, <3>1, <3>2
  <2>5. Good(p, k)
    BY <2>2, <2>3, <2>4, ReadsFrom
  <2> HIDE DEF Good
  <2> QED BY <2>3, <2>5
<1>2. Boundary(f, a, 1, 0)
  <2>1. 1 = Len(f) + 1 \/ f[1].place = 1
    <3> SUFFICES ASSUME Len(f) # 0 PROVE f[1].place = 1
      BY <1>0
    <3>1. 1 \in DOMAIN f
      BY <1>0
    <3>2. f[1].place \in 1..1
      BY <1>0, <3>1 DEF Layout
    <3> QED BY <3>2
  <2>2. \A i \in 1..Len(f), n \in 1..Len(a) : ~(i < 1) /\ ~(n <= 0)
    BY <1>0
  <2> QED BY <2>1, <2>2 DEF Boundary
<1>3. Good(1, 0)
  <2>1. 1 \notin T
    <3> HIDE DEF T
    <3> QED BY <1>1
  <2>2. 1 \in 0..(Len(f) + 1) /\ 1 >= 1 /\ 0 \in 0..Len(a)
    BY <1>0
  <2> HIDE DEF Good
  <2> QED BY <1>2, <2>1, <2>2
<1> QED BY <1>3 DEF ReadAll

-----------------------------------------------------------------------------
(* Appending *)

\* The first n cells of record r behind those of a file.
Behind(f, g, r, size, n) ==
    /\ g \in Seq(Cell) /\ Len(g) = Len(f) + n
    /\ \A i \in 1..Len(f) : g[i] = f[i]
    /\ \A i \in (Len(f) + 1)..Len(g) :
          g[i].rec = r /\ g[i].place = i - Len(f) /\ g[i].len = size
LEMMA BehindCells ==
    ASSUME NEW f \in Seq(Cell), NEW r \in 1..MaxRecords, NEW size \in Sizes,
           NEW n \in 0..(HeaderCells + size), NEW g, g = f \o SubSeq(Cells(r, size), 1, n)
    PROVE  Behind(f, g, r, size, n)
<1>0. size \in Nat \ {0} /\ HeaderCells \in Nat \ {0} /\ Len(f) \in Nat /\ n \in Nat
  <2>1. size \in Nat \ {0}
    BY SizesAssumption
  <2> QED BY <2>1, HeaderAssumption
<1>1. PICK c : c = HeaderCells + size
  OBVIOUS
<1>2. c \in Nat /\ n <= c
  BY <1>0, <1>1
<1>3. Cells(r, size) = [i \in 1..c |-> [rec |-> r, place |-> i, len |-> size]]
  BY <1>1 DEF Cells
<1>4. \A i \in 1..c : [rec |-> r, place |-> i, len |-> size] \in Cell
  BY DEF Cell
<1>5. Cells(r, size) \in Seq(Cell) /\ Len(Cells(r, size)) = c
  BY <1>2, <1>3, <1>4
<1>6. PICK b : b = SubSeq(Cells(r, size), 1, n)
  OBVIOUS
<1>7. /\ b \in Seq(Cell) /\ Len(b) = n
      /\ \A i \in 1..n : b[i] = Cells(r, size)[i]
  BY <1>0, <1>2, <1>5, <1>6
<1>8. \A i \in 1..n : b[i] = [rec |-> r, place |-> i, len |-> size]
  <2> SUFFICES ASSUME NEW i \in 1..n
               PROVE  b[i] = [rec |-> r, place |-> i, len |-> size]
    OBVIOUS
  <2>1. i \in 1..c
    BY <1>0, <1>2
  <2>2. Cells(r, size)[i] = [rec |-> r, place |-> i, len |-> size]
    BY <1>3, <2>1, Zenon
  <2> QED BY <1>7, <2>2
<1>9. /\ g \in Seq(Cell) /\ Len(g) = Len(f) + n
      /\ \A i \in 1..Len(f) : g[i] = f[i]
      /\ \A i \in (Len(f) + 1)..(Len(f) + n) : g[i] = b[i - Len(f)]
  BY <1>0, <1>6, <1>7
<1>10. ASSUME NEW i \in (Len(f) + 1)..Len(g)
       PROVE  g[i].rec = r /\ g[i].place = i - Len(f) /\ g[i].len = size
  <2>1. i - Len(f) \in 1..n /\ i \in (Len(f) + 1)..(Len(f) + n)
    BY <1>0, <1>9
  <2>2. PICK m \in 1..n : m = i - Len(f)
    BY <2>1
  <2>3. g[i] = [rec |-> r, place |-> m, len |-> size]
    BY <1>8, <1>9, <2>1, <2>2
  <2> QED BY <2>2, <2>3
<1> QED BY <1>9, <1>10 DEF Behind

\* The layout survives an append, complete or not, whatever was cut short
\* before it.
LEMMA LayoutExtends ==
    ASSUME NEW f \in Seq(Cell), Layout(f), NEW r \in 1..MaxRecords, NEW size \in Sizes,
           NEW n \in 0..(HeaderCells + size), \A i \in 1..Len(f) : f[i].rec < r,
           NEW g, g = f \o SubSeq(Cells(r, size), 1, n)
    PROVE  Layout(g)
<1>0. /\ g \in Seq(Cell) /\ Len(g) = Len(f) + n
      /\ \A i \in 1..Len(f) : g[i] = f[i]
      /\ \A i \in (Len(f) + 1)..Len(g) :
            g[i].rec = r /\ g[i].place = i - Len(f) /\ g[i].len = size
  <2>1. Behind(f, g, r, size, n)
    BY BehindCells
  <2> QED BY <2>1 DEF Behind
<1>1. Len(f) \in Nat /\ n \in Nat /\ DOMAIN f = 1..Len(f) /\ DOMAIN g = 1..Len(g)
  BY <1>0
<1>3. ASSUME NEW i \in 1..Len(f)
      PROVE  /\ g[i].place \in 1..i /\ g[i].place <= HeaderCells + g[i].len
             /\ g[i + 1 - g[i].place].rec = g[i].rec
             /\ \A j \in 1..(i - 1) :
                   \/ g[j].rec < g[i].rec
                   \/ /\ g[j].rec = g[i].rec /\ g[j].len = g[i].len
                      /\ g[i].place = g[j].place + (i - j)
  <2>1. g[i] = f[i]
    BY <1>0
  <2>2. \A j \in 1..(i - 1) : j \in 1..Len(f) /\ g[j] = f[j]
    BY <1>0, <1>1
  <2>3. f[i].place \in 1..i /\ f[i].place <= HeaderCells + f[i].len
        /\ f[i + 1 - f[i].place].rec = f[i].rec
    BY <1>1 DEF Layout
  <2>4. i + 1 - f[i].place \in 1..Len(f)
    BY <1>1, <2>3
  <2>5. g[i + 1 - f[i].place] = f[i + 1 - f[i].place]
    BY <1>0, <2>4
  <2>6. \A j \in 1..(i - 1) :
           \/ f[j].rec < f[i].rec
           \/ /\ f[j].rec = f[i].rec /\ f[j].len = f[i].len
              /\ f[i].place = f[j].place + (i - j)
    BY <1>1 DEF Layout
  <2> QED BY <2>1, <2>2, <2>3, <2>5, <2>6
<1>4. ASSUME NEW i \in (Len(f) + 1)..Len(g)
      PROVE  /\ g[i].place \in 1..i /\ g[i].place <= HeaderCells + g[i].len
             /\ g[i + 1 - g[i].place].rec = g[i].rec
             /\ \A j \in 1..(i - 1) :
                   \/ g[j].rec < g[i].rec
                   \/ /\ g[j].rec = g[i].rec /\ g[j].len = g[i].len
                      /\ g[i].place = g[j].place + (i - j)
  <2>1. g[i].rec = r /\ g[i].place = i - Len(f) /\ g[i].len = size
    BY <1>0
  <2>2. i - Len(f) \in 1..i /\ i - Len(f) <= HeaderCells + size
    <3>1. HeaderCells + size \in Nat /\ n <= HeaderCells + size
      BY SizesAssumption, HeaderAssumption
    <3> QED BY <1>0, <1>1, <3>1
  <2>3. i + 1 - (i - Len(f)) = Len(f) + 1 /\ Len(f) + 1 \in (Len(f) + 1)..Len(g)
    BY <1>0, <1>1
  <2>4. g[Len(f) + 1].rec = r
    BY <1>0, <2>3
  <2>5. ASSUME NEW j \in 1..(i - 1)
        PROVE  \/ g[j].rec < r
               \/ /\ g[j].rec = r /\ g[j].len = size
                  /\ i - Len(f) = g[j].place + (i - j)
    <3>1. CASE j \in 1..Len(f)
      BY <1>0, <3>1
    <3>2. CASE j \notin 1..Len(f)
      <4>1. j \in (Len(f) + 1)..Len(g)
        BY <1>0, <1>1, <3>2
      <4>2. g[j].rec = r /\ g[j].place = j - Len(f) /\ g[j].len = size
        BY <1>0, <4>1
      <4>3. i - Len(f) = (j - Len(f)) + (i - j)
        BY <1>0, <1>1, <4>1
      <4> QED BY <4>2, <4>3
    <3> QED BY <3>1, <3>2
  <2> QED BY <2>1, <2>2, <2>3, <2>4, <2>5
<1>5. ASSUME NEW i \in DOMAIN g PROVE i \in 1..Len(f) \/ i \in (Len(f) + 1)..Len(g)
  BY <1>0, <1>1
<1> QED BY <1>3, <1>4, <1>5 DEF Layout

Appended(a, b, r, S) ==
    /\ b \in Seq(S) /\ DOMAIN b = 1..(Len(a) + 1)
    /\ b[Len(a) + 1] = r /\ \A m \in 1..Len(a) : b[m] = a[m]
LEMMA AppendFacts ==
    ASSUME NEW S, NEW a \in Seq(S), NEW r \in S, NEW b, b = Append(a, r)
    PROVE  Appended(a, b, r, S)
BY DEF Appended

LEMMA WrittenExtends ==
    ASSUME NEW f, NEW a, Written(f, a), NEW r \in 1..MaxRecords, NEW size \in Sizes,
           NEW n \in 0..(HeaderCells + size), \A i \in 1..Len(f) : f[i].rec < r,
           \A m \in 1..Len(a) : a[m] < r,
           NEW g, g = f \o SubSeq(Cells(r, size), 1, n),
           NEW b, b = IF n = HeaderCells + size THEN Append(a, r) ELSE a
    PROVE  Written(g, b)
<1>a. f \in Seq(Cell) /\ Layout(f) /\ Len(f) \in Nat /\ Len(a) \in Nat
      /\ a \in Seq(1..MaxRecords) /\ DOMAIN a = 1..Len(a) /\ DOMAIN f = 1..Len(f)
  BY WrittenType
<1>0. /\ g \in Seq(Cell) /\ Len(g) = Len(f) + n
      /\ \A i \in 1..Len(f) : g[i] = f[i]
      /\ \A i \in (Len(f) + 1)..Len(g) :
            g[i].rec = r /\ g[i].place = i - Len(f) /\ g[i].len = size
  <2>1. Behind(f, g, r, size, n)
    BY <1>a, BehindCells
  <2> QED BY <2>1 DEF Behind
<1>1. n \in Nat /\ DOMAIN g = 1..Len(g) /\ r \in Nat
  BY <1>0, BoundsAssumption
<1>3. Layout(g)
  BY <1>a, LayoutExtends
<1>4. /\ b \in Seq(1..MaxRecords) /\ \A j, m \in DOMAIN b : j < m => b[j] < b[m]
      /\ \A q : (\E m \in DOMAIN b : b[m] = q)
                <=> ((\E m \in DOMAIN a : a[m] = q) \/ (n = HeaderCells + size /\ q = r))
  <2>0. \A j, m \in 1..Len(a) : j < m => a[j] < a[m]
    BY WrittenType
  <2>1. CASE n = HeaderCells + size
    <3>1. b = Append(a, r)
      BY <2>1
    <3>2. /\ b \in Seq(1..MaxRecords) /\ DOMAIN b = 1..(Len(a) + 1)
          /\ b[Len(a) + 1] = r /\ \A m \in 1..Len(a) : b[m] = a[m]
      <4>1. Appended(a, b, r, 1..MaxRecords)
        BY <1>a, <3>1, AppendFacts
      <4> QED BY <4>1 DEF Appended
    <3>3. \A m \in 1..(Len(a) + 1) : m \in 1..Len(a) \/ m = Len(a) + 1
      BY <1>a
    <3>4. \A m \in 1..Len(a) : m \in 1..(Len(a) + 1)
      BY <1>a
    <3>5. Len(a) + 1 \in 1..(Len(a) + 1) /\ \A m \in 1..Len(a) : ~(Len(a) + 1 < m)
      BY <1>a
    <3>6. \A j, m \in DOMAIN b : j < m => b[j] < b[m]
      <4> SUFFICES ASSUME NEW j \in 1..(Len(a) + 1), NEW m \in 1..(Len(a) + 1), j < m
                   PROVE  b[j] < b[m]
        BY <3>2
      <4>1. j \in 1..Len(a)
        BY <1>a
      <4>2. CASE m \in 1..Len(a)
        BY <2>0, <3>2, <4>1, <4>2
      <4>3. CASE m = Len(a) + 1
        BY <3>2, <4>1, <4>3
      <4> QED BY <3>3, <4>2, <4>3
    <3>7. \A q : (\E m \in DOMAIN b : b[m] = q) <=> ((\E m \in DOMAIN a : a[m] = q) \/ q = r)
      BY <1>a, <3>2, <3>3, <3>4, <3>5, Zenon
    <3> QED BY <2>1, <3>2, <3>6, <3>7
  <2>2. CASE n # HeaderCells + size
    BY <1>a, <2>0, <2>2
  <2> QED BY <2>1, <2>2
<1>5. ASSUME NEW q \in 1..MaxRecords
      PROVE  Whole(g, q) <=> (Whole(f, q) \/ (n = HeaderCells + size /\ q = r))
  <2>1. ASSUME Whole(f, q) PROVE Whole(g, q)
    <3>1. PICK i \in 1..Len(f) : f[i].rec = q /\ f[i].place = HeaderCells + f[i].len
      BY <1>a, <2>1 DEF Whole
    <3>2. i \in DOMAIN g /\ g[i] = f[i]
      BY <1>a, <1>0, <1>1
    <3> QED BY <3>1, <3>2 DEF Whole
  <2>2. ASSUME n = HeaderCells + size, q = r PROVE Whole(g, q)
    <3>1. size \in Nat \ {0} /\ HeaderCells \in Nat
      BY SizesAssumption, HeaderAssumption
    <3>2. Len(g) \in (Len(f) + 1)..Len(g) /\ Len(g) \in DOMAIN g /\ Len(g) - Len(f) = n
      BY <1>a, <1>0, <1>1, <2>2, <3>1
    <3>3. g[Len(g)].rec = q /\ g[Len(g)].place = HeaderCells + g[Len(g)].len
      BY <1>0, <2>2, <3>2
    <3> QED BY <3>2, <3>3 DEF Whole
  <2>3. ASSUME Whole(g, q) PROVE Whole(f, q) \/ (n = HeaderCells + size /\ q = r)
    <3>1. PICK i \in 1..Len(g) : g[i].rec = q /\ g[i].place = HeaderCells + g[i].len
      BY <1>1, <2>3 DEF Whole
    <3>2. CASE i \in 1..Len(f)
      BY <1>a, <1>0, <3>1, <3>2 DEF Whole
    <3>3. CASE i \notin 1..Len(f)
      <4>1. i \in (Len(f) + 1)..Len(g)
        BY <1>a, <1>0, <1>1, <3>3
      <4>2. q = r /\ i - Len(f) = HeaderCells + size
        BY <1>0, <3>1, <4>1
      <4>3. HeaderCells + size \in Nat /\ n <= HeaderCells + size
        BY SizesAssumption, HeaderAssumption
      <4>4. i - Len(f) <= n
        BY <1>a, <1>0, <1>1, <4>1
      <4>5. n = HeaderCells + size
        BY <1>1, <4>2, <4>3, <4>4
      <4> QED BY <4>2, <4>5
    <3> QED BY <3>2, <3>3
  <2> QED BY <2>1, <2>2, <2>3
<1>6. \A q \in 1..MaxRecords : Whole(g, q) <=> \E m \in DOMAIN b : b[m] = q
  BY <1>4, <1>5 DEF Written
<1> QED BY <1>0, <1>3, <1>4, <1>6 DEF Written

-----------------------------------------------------------------------------
(* The invariants *)

LEMMA LogType ==
    ASSUME LogInv, TypeOK
    PROVE  /\ file \in Seq(Cell) /\ Len(file) \in Nat /\ DOMAIN file = 1..Len(file)
           /\ Len(acked) \in Nat /\ DOMAIN acked = 1..Len(acked) /\ acked \in Seq(1..MaxRecords)
           /\ appended \in Nat /\ appended <= MaxRecords /\ MaxRecords \in Nat
           /\ \A i \in 1..Len(file) : file[i].rec \in Nat /\ file[i].rec <= appended
           /\ \A n \in 1..Len(acked) : acked[n] \in Nat /\ acked[n] <= appended
<1>1. file \in Seq(Cell) /\ acked \in Seq(1..MaxRecords)
  BY DEF LogInv, Written
<1>2. /\ Len(file) \in Nat /\ DOMAIN file = 1..Len(file)
      /\ Len(acked) \in Nat /\ DOMAIN acked = 1..Len(acked)
  BY <1>1
<1>3. appended \in Nat /\ appended <= MaxRecords /\ MaxRecords \in Nat
  BY BoundsAssumption DEF TypeOK
<1>4. \A i \in 1..Len(file) : file[i].rec \in Nat
  BY <1>1, CellType
<1>5. \A n \in 1..Len(acked) : acked[n] \in Nat
  BY <1>1, <1>3
<1> QED BY <1>1, <1>2, <1>3, <1>4, <1>5 DEF LogInv

\* A record is begun behind the others and n of its cells are written.
LEMMA Begins ==
    ASSUME LogInv, TypeOK, appended < MaxRecords, NEW size \in Sizes,
           NEW n \in 0..(HeaderCells + size), appended' = appended + 1,
           file' = file \o SubSeq(Cells(appended + 1, size), 1, n),
           acked' = IF n = HeaderCells + size THEN Append(acked, appended + 1) ELSE acked
    PROVE  /\ LogInv' /\ appended' \in 0..MaxRecords
           /\ Len(file') >= Len(file) /\ DOMAIN file' = 1..Len(file')
           /\ \A i \in 1..Len(file) : file'[i] = file[i]
<1>0. /\ file \in Seq(Cell) /\ Len(file) \in Nat /\ DOMAIN file = 1..Len(file)
      /\ Len(acked) \in Nat /\ DOMAIN acked = 1..Len(acked) /\ acked \in Seq(1..MaxRecords)
      /\ appended \in Nat /\ appended <= MaxRecords /\ MaxRecords \in Nat
      /\ \A i \in 1..Len(file) : file[i].rec \in Nat /\ file[i].rec <= appended
      /\ \A m \in 1..Len(acked) : acked[m] \in Nat /\ acked[m] <= appended
  BY LogType
<1>1. PICK f, a, g, b, r : /\ f = file /\ a = acked /\ g = file' /\ b = acked' /\ r = appended + 1
  OBVIOUS
<1>2. r \in 1..MaxRecords /\ r \in Nat
  BY <1>0, <1>1
<1>3. /\ \A i \in 1..Len(f) : f[i].rec < r /\ f[i].rec <= r
      /\ \A m \in 1..Len(a) : a[m] < r /\ a[m] <= r
  <2>1. ASSUME NEW i \in 1..Len(f) PROVE f[i].rec < r /\ f[i].rec <= r
    BY <1>0, <1>1
  <2>2. ASSUME NEW m \in 1..Len(a) PROVE a[m] < r /\ a[m] <= r
    BY <1>0, <1>1
  <2> QED BY <2>1, <2>2
<1>4. /\ g = f \o SubSeq(Cells(r, size), 1, n) /\ Written(f, a)
      /\ b = IF n = HeaderCells + size THEN Append(a, r) ELSE a
  BY <1>1 DEF LogInv
<1>5. Written(g, b)
  BY <1>2, <1>3, <1>4, WrittenExtends, ZenonT(30)
<1>6. Behind(f, g, r, size, n)
  BY <1>0, <1>1, <1>2, <1>4, BehindCells
<1>7. \A i \in DOMAIN g : g[i].rec <= r
  <2>1. DOMAIN g = 1..Len(g) /\ Len(f) \in Nat /\ Len(g) \in Nat
    BY <1>0, <1>1, <1>6 DEF Behind
  <2>2. ASSUME NEW i \in 1..Len(g) PROVE g[i].rec <= r
    <3>1. CASE i \in 1..Len(f)
      BY <1>3, <1>6, <3>1 DEF Behind
    <3>2. CASE i \notin 1..Len(f)
      <4>1. i \in (Len(f) + 1)..Len(g)
        BY <2>1, <3>2
      <4> QED BY <1>2, <1>6, <4>1 DEF Behind
    <3> QED BY <3>1, <3>2
  <2> QED BY <2>1, <2>2
<1>8. \A m \in DOMAIN b : b[m] <= r
  <2>1. CASE n = HeaderCells + size
    <3>1. b = Append(a, r) /\ a \in Seq(1..MaxRecords)
      BY <1>0, <1>1, <1>4, <2>1
    <3>2. Appended(a, b, r, 1..MaxRecords)
      BY <1>2, <3>1, AppendFacts
    <3>3. \A m \in 1..(Len(a) + 1) : m \in 1..Len(a) \/ m = Len(a) + 1
      BY <1>0, <1>1
    <3>4. /\ DOMAIN b = 1..(Len(a) + 1) /\ b[Len(a) + 1] = r
          /\ \A m \in 1..Len(a) : b[m] = a[m]
      BY <3>2 DEF Appended
    <3>5. \A m \in 1..Len(a) : b[m] <= r
      BY <1>3, <3>4
    <3>6. b[Len(a) + 1] <= r
      BY <1>2, <3>4
    <3> QED BY <3>3, <3>4, <3>5, <3>6, Zenon
  <2>2. CASE n # HeaderCells + size
    BY <1>0, <1>1, <1>3, <1>4, <2>2
  <2> QED BY <2>1, <2>2
<1>9. LogInv'
  BY <1>1, <1>5, <1>7, <1>8 DEF LogInv
<1>10. /\ Len(file') >= Len(file) /\ DOMAIN file' = 1..Len(file')
       /\ \A i \in 1..Len(file) : file'[i] = file[i]
  <2>1. n \in Nat
    OBVIOUS
  <2>2. g \in Seq(Cell) /\ Len(g) = Len(f) + n /\ \A i \in 1..Len(f) : g[i] = f[i]
    BY <1>6 DEF Behind
  <2>3. DOMAIN g = 1..Len(g)
    BY <2>2
  <2>4. Len(g) >= Len(f)
    BY <1>0, <1>1, <2>1, <2>2
  <2> QED BY <1>1, <2>2, <2>3, <2>4
<1>11. appended' \in 0..MaxRecords
  BY <1>0
<1> QED BY <1>9, <1>10, <1>11

\* If nothing but the last record is cut short after an append, nothing was
\* before it: the open before it ignored no complete record.
LEMMA TornBegins ==
    ASSUME LogInv, TypeOK, TornTailIgnored, appended' = appended + 1,
           Len(file') >= Len(file), DOMAIN file' = 1..Len(file'),
           \A i \in 1..Len(file) : file'[i] = file[i],
           acked' = acked \/ acked' = Append(acked, appended + 1),
           UNCHANGED <<replayed, expected, status>>
    PROVE  TornTailIgnored'
<1>0. /\ Len(file) \in Nat /\ DOMAIN file = 1..Len(file)
      /\ Len(acked) \in Nat /\ DOMAIN acked = 1..Len(acked) /\ acked \in Seq(1..MaxRecords)
      /\ appended \in Nat
      /\ \A i \in 1..Len(file) : file[i].rec \in Nat /\ file[i].rec <= appended
  BY LogType
<1> SUFFICES ASSUME \A i \in DOMAIN file' : \/ file'[i].rec = appended'
                                            \/ \E j \in DOMAIN acked' : acked'[j] = file'[i].rec
             PROVE  status' = "open" /\ replayed' = expected'
  BY DEF TornTailIgnored
<1>1. ASSUME NEW i \in 1..Len(file) PROVE \E j \in DOMAIN acked : acked[j] = file[i].rec
  <2>1. i \in DOMAIN file' /\ file'[i] = file[i] /\ file[i].rec # appended + 1
    <3>1. file[i].rec # appended + 1 /\ file'[i] = file[i]
      BY <1>0
    <3>2. Len(file') \in Nat => i \in 1..Len(file')
      BY <1>0
    <3> QED BY <3>1, <3>2
  <2>2. PICK j \in DOMAIN acked' : acked'[j] = file[i].rec
    BY <2>1
  <2>3. CASE acked' = acked
    BY <2>2, <2>3
  <2>4. CASE acked' = Append(acked, appended + 1)
    BY <1>0, <2>1, <2>2, <2>4
  <2> QED BY <2>3, <2>4
<1>2. status = "open" /\ replayed = expected
  BY <1>0, <1>1 DEF TornTailIgnored
<1> QED BY <1>2

IInv == LogInv /\ TypeOK /\ ReplayIsPrefix /\ TornTailIgnored

\* The parts of the type invariant that the layout of the file gives.
LEMMA FileTyped ==
    ASSUME NEW f, NEW a, Written(f, a)
    PROVE  /\ \A i \in DOMAIN f : f[i].rec \in 1..MaxRecords /\ f[i].len \in Sizes
           /\ a \in Seq(1..MaxRecords)
<1>1. f \in Seq(Cell) /\ a \in Seq(1..MaxRecords)
  BY DEF Written
<1> QED BY <1>1, CellType

LEMMA AppendKeeps ==
    ASSUME IInv, NEW size \in Sizes,
           AppendRecord(size) \/ \E n \in 0..(HeaderCells + size - 1) : AppendFails(size, n)
    PROVE  IInv'
<1>0. HeaderCells \in Nat /\ size \in Nat /\ HeaderCells + size \in Nat
  BY SizesAssumption, HeaderAssumption
<1>1. /\ appended < MaxRecords /\ appended' = appended + 1 /\ UNCHANGED <<replayed, expected, status>>
      /\ failures' \in 0..MaxFailures
      /\ acked' = acked \/ acked' = Append(acked, appended + 1)
  <2>1. failures' = failures \/ (failures < MaxFailures /\ failures' = failures + 1)
    BY DEF AppendRecord, AppendFails
  <2>2. failures' \in 0..MaxFailures
    BY <2>1, BoundsAssumption DEF IInv, TypeOK
  <2> QED BY <2>2 DEF AppendRecord, AppendFails
<1>2. \E n \in 0..(HeaderCells + size) :
         /\ file' = file \o SubSeq(Cells(appended + 1, size), 1, n)
         /\ acked' = IF n = HeaderCells + size THEN Append(acked, appended + 1) ELSE acked
  <2>1. CASE AppendRecord(size)
    <3>1. PICK n \in 0..(HeaderCells + size) : n = HeaderCells + size
      BY <1>0
    <3>2. SubSeq(Cells(appended + 1, size), 1, n) = Cells(appended + 1, size)
      <4>1. PICK c, S : c = Cells(appended + 1, size)
                        /\ S = {[rec |-> appended + 1, place |-> i, len |-> size] : i \in 1..n}
        OBVIOUS
      <4>2. c = [i \in 1..n |-> [rec |-> appended + 1, place |-> i, len |-> size]]
        BY <3>1, <4>1 DEF Cells
      <4>3. n \in Nat /\ \A i \in 1..n : c[i] \in S
        BY <1>0, <4>1, <4>2
      <4>4. c \in Seq(S) /\ Len(c) = n
        BY <4>2, <4>3
      <4>5. SubSeq(c, 1, n) = c
        BY <4>3, <4>4
      <4> QED BY <4>1, <4>5
    <3> QED BY <2>1, <3>1, <3>2 DEF AppendRecord
  <2>2. ASSUME NEW n \in 0..(HeaderCells + size - 1), AppendFails(size, n)
        PROVE  /\ n \in 0..(HeaderCells + size) /\ n # HeaderCells + size
               /\ file' = file \o SubSeq(Cells(appended + 1, size), 1, n) /\ acked' = acked
    BY <1>0, <2>2 DEF AppendFails
  <2> QED BY <2>1, <2>2
<1>3. /\ LogInv' /\ appended' \in 0..MaxRecords
      /\ Len(file') >= Len(file) /\ DOMAIN file' = 1..Len(file')
      /\ \A i \in 1..Len(file) : file'[i] = file[i]
  BY <1>1, <1>2, Begins DEF IInv
<1>4. TornTailIgnored'
  BY <1>1, <1>3, TornBegins DEF IInv
<1>5. TypeOK'
  <2>1. PICK f, a : f = file' /\ a = acked'
    OBVIOUS
  <2>2. /\ \A i \in DOMAIN f : f[i].rec \in 1..MaxRecords /\ f[i].len \in Sizes
        /\ a \in Seq(1..MaxRecords)
    BY <1>3, <2>1, FileTyped DEF LogInv
  <2> QED BY <1>1, <1>3, <2>1, <2>2 DEF IInv, TypeOK
<1> QED BY <1>1, <1>3, <1>4, <1>5 DEF IInv, ReplayIsPrefix

\* DB::open after a crash.
LEMMA CrashKeeps ==
    ASSUME IInv, NEW size \in Sizes, NEW n \in 0..(HeaderCells + size), NEW d,
           CrashAndOpen(size, n, d)
    PROVE  IInv'
<1>0. HeaderCells \in Nat /\ HeaderCells > 0 /\ size \in Nat /\ n \in Nat
  BY SizesAssumption, HeaderAssumption
<1>1. /\ file' = file \o SubSeq(Cells(appended + 1, size), 1, n)
      /\ replayed' = ReadAll(file', d).recs
      /\ status' = IF ReadAll(file', d).ok THEN "open" ELSE "corrupt"
      /\ acked' = IF n = HeaderCells + size THEN Append(acked, appended + 1) ELSE acked
      /\ expected' = acked' /\ failures < MaxFailures /\ failures' = failures + 1
      /\ n > 0 => appended < MaxRecords
      /\ appended' = IF n > 0 THEN appended + 1 ELSE appended
  BY DEF CrashAndOpen, Kept
<1>2. LogInv' /\ appended' \in 0..MaxRecords
  <2>1. CASE n > 0
    <3>1. LogInv /\ TypeOK /\ appended < MaxRecords /\ appended' = appended + 1
      BY <1>1, <2>1 DEF IInv
    <3> QED BY <1>1, <3>1, Begins
  <2>2. CASE n = 0
    <3>1. acked' = acked /\ appended' = appended
      BY <1>0, <1>1, <2>2
    <3>2. file' = file
      <4>1. file \in Seq(Cell)
        BY LogType DEF IInv
      <4>2. SubSeq(Cells(appended + 1, size), 1, 0) = <<>>
        OBVIOUS
      <4> QED BY <1>1, <2>2, <4>1, <4>2
    <3> QED BY <3>1, <3>2 DEF IInv, LogInv, TypeOK
  <2> QED BY <1>0, <2>1, <2>2
<1>3. PICK f, a, last, R : f = file' /\ a = acked' /\ last = appended' /\ R = ReadAll(file', d)
  OBVIOUS
<1>4. Written(f, a)
  BY <1>2, <1>3 DEF LogInv
<1>5. Reads(f, a, last, R, 0)
  BY <1>3, <1>4, Replays
<1>6. /\ R.recs \in Seq(1..MaxRecords) /\ Len(R.recs) + 0 <= Len(a) /\ Len(a) \in Nat
      /\ \A m \in 1..Len(R.recs) : R.recs[m] = a[0 + m]
  <2>1. /\ R.recs \in Seq(1..MaxRecords) /\ Len(R.recs) + 0 <= Len(a)
        /\ \A m \in 1..Len(R.recs) : R.recs[m] = a[0 + m]
    BY <1>5, Zenon DEF Reads
  <2> QED BY <1>4, <2>1, WrittenType
<1>7. /\ Len(R.recs) \in Nat /\ DOMAIN R.recs = 1..Len(R.recs) /\ Len(R.recs) <= Len(a)
      /\ \A m \in 1..Len(R.recs) : R.recs[m] = a[m]
  <2>1. Len(R.recs) \in Nat /\ DOMAIN R.recs = 1..Len(R.recs)
    BY <1>6
  <2>2. \A m \in 1..Len(R.recs) : 0 + m = m
    BY <2>1
  <2>3. Len(R.recs) + 0 = Len(R.recs)
    BY <2>1
  <2> QED BY <1>6, <2>1, <2>2, <2>3
<1>8. replayed' = R.recs /\ expected' = a
  BY <1>1, <1>3
<1>9. ReplayIsPrefix'
  BY <1>7, <1>8 DEF ReplayIsPrefix
<1>10. TornTailIgnored'
  <2> SUFFICES ASSUME \A i \in DOMAIN file' : \/ file'[i].rec = appended'
                                              \/ \E j \in DOMAIN acked' : acked'[j] = file'[i].rec
               PROVE  status' = "open" /\ replayed' = expected'
    BY DEF TornTailIgnored
  <2>1. DOMAIN f = 1..Len(f) /\ DOMAIN a = 1..Len(a) /\ a \in Seq(1..MaxRecords)
    BY <1>4, WrittenType
  <2>2. \A i \in DOMAIN f : f[i].rec <= last
    BY <1>2, <1>3 DEF LogInv
  <2>3. AllButLast(f, a, last)
    BY <1>3, <2>1, <2>2 DEF AllButLast
  <2>4. R.ok = TRUE /\ Len(R.recs) + 0 = Len(a)
    BY <1>5, <2>3, Zenon DEF Reads
  <2>5. status' = "open"
    BY <1>1, <1>3, <2>4, Zenon
  <2>6. R.recs = a
    <3>1. Len(R.recs) = Len(a)
      BY <1>7, <2>4
    <3>2. /\ R.recs = [m \in 1..Len(R.recs) |-> R.recs[m]]
          /\ a = [m \in 1..Len(a) |-> a[m]]
      BY <1>6, <2>1, SMTT(30)
    <3> QED BY <1>7, <3>1, <3>2
  <2> QED BY <1>8, <2>5, <2>6
<1>11. TypeOK'
  <2>1. /\ \A i \in DOMAIN f : f[i].rec \in 1..MaxRecords /\ f[i].len \in Sizes
        /\ a \in Seq(1..MaxRecords)
    BY <1>4, FileTyped
  <2>2. failures' \in 0..MaxFailures
    BY <1>1, BoundsAssumption DEF IInv, TypeOK
  <2>3. status' \in {"open", "corrupt"}
    BY <1>1, Zenon
  <2> QED BY <1>2, <1>3, <1>6, <1>8, <2>1, <2>2, <2>3 DEF TypeOK
<1> QED BY <1>2, <1>9, <1>10, <1>11 DEF IInv

\* The inductive invariant: the file is what the appends made of it, and the
\* last replay of it is faithful.
THEOREM Inductive == Spec => []IInv
<1>1. Init => IInv
  <2> SUFFICES ASSUME Init PROVE IInv
    OBVIOUS
  <2>1. /\ file = <<>> /\ acked = <<>> /\ replayed = <<>> /\ expected = <<>>
        /\ appended = 0 /\ status = "open" /\ failures = 0
    BY DEF Init
  <2>2. TypeOK /\ ReplayIsPrefix /\ TornTailIgnored
    BY <2>1, BoundsAssumption DEF TypeOK, ReplayIsPrefix, TornTailIgnored
  <2>3. LogInv
    BY <2>1 DEF LogInv, Written, Layout, Whole
  <2> QED BY <2>2, <2>3 DEF IInv
<1>2. IInv /\ [Next]_vars => IInv'
  <2> SUFFICES ASSUME IInv, [Next]_vars PROVE IInv'
    OBVIOUS
  <2>1. ASSUME NEW size \in Sizes,
               AppendRecord(size) \/ \E n \in 0..(HeaderCells + size - 1) : AppendFails(size, n)
        PROVE  IInv'
    BY <2>1, AppendKeeps
  <2>2. ASSUME NEW size \in Sizes, NEW n \in 0..(HeaderCells + size),
               NEW damaged \in {"eof", "corrupt"}, CrashAndOpen(size, n, damaged)
        PROVE  IInv'
    BY <2>2, CrashKeeps
  <2>3. CASE UNCHANGED vars
    BY <2>3 DEF vars, IInv, LogInv, TypeOK, ReplayIsPrefix, TornTailIgnored
  <2> QED BY <2>1, <2>2, <2>3 DEF Next
<1> QED BY <1>1, <1>2, PTL DEF Spec

\* Every variable of the log keeps its type.
THEOREM TypeCorrect == Spec => []TypeOK
BY Inductive, PTL DEF IInv

\* WalReader never makes a record up and never skips one, for any record
\* sizes and any sequence of appends, failed appends and crashes: replay
\* stops at the first record that was cut short.
THEOREM ReplaysPrefix == Spec => []ReplayIsPrefix
BY Inductive, PTL DEF IInv

\* DB::open and VersionSet::recover ignore a record cut short by the last
\* crash and find everything before it.
THEOREM TornTailsIgnored == Spec => []TornTailIgnored
BY Inductive, PTL DEF IInv
=============================================================================
