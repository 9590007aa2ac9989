------------------------- MODULE PowerLossProofs -------------------------
(***************************************************************************)
(* Power loss: on a file system that keeps directory changes in order,     *)
(* DB::open succeeds wherever the machine stops, what was synced is found, *)
(* and what is lost is lost from the end, for any number of writes, files  *)
(* and failures.                                                           *)
(*                                                                         *)
(* The argument is about every directory that a power loss may leave, at   *)
(* every step: names come to refer to files in an order such that each of  *)
(* these directories has, synced, whatever it refers to.                   *)
(***************************************************************************)
EXTENDS PowerLoss, FiniteSetTheorems, WellFoundedInduction, TLAPS

-----------------------------------------------------------------------------
(* The types of the files and of the process *)

Record ==
    [kind : {"write", "last"}, n : Nat] \cup [kind : {"log", "add"}, n : 1..MaxNumber]
      \cup {Edit("next", 2), Edit("name", 1), Footer}
File == [data : Seq(Record), safe : Seq(Record)]
Temps == {CurrentTmp} \cup {TableTmp(n) : n \in 1..MaxNumber}

Systems == [dir : [Names -> Nat], disks : SUBSET [Names -> Nat], inodes : Seq(File)]

FsType(f) ==
    /\ f \in Systems
    /\ f.dir \in f.disks
    /\ \A d \in f.disks, n \in Names : d[n] \in 0..Len(f.inodes)
    /\ \A d \in f.disks : \A n, m \in Names : d[n] = d[m] /\ d[n] # 0 => n = m
    /\ \A d \in f.disks : \A n \in Names, t \in Temps :
          f.dir[t] # 0 /\ d[n] = f.dir[t] => n = t

Running == {"up", "publish", "add", "last", "newlog", "log"}
Opened == {"dirsync", "replay"} \cup Running
Creating == {"edits", "tmp", "rename"}

ProcessType ==
    /\ pc \in {"down"} \cup Creating \cup Opened
    /\ ver \in [files : SUBSET (1..MaxNumber), log : 1..MaxNumber, next : Nat \ {0}]
    /\ mem \in Seq(Nat) /\ num \in 0..MaxNumber
    /\ pc \in {"publish", "add", "log"} => num # 0
    /\ pc = "edits" => Exists(fs, Manifest) /\ Len(Records(fs, Manifest)) < Len(FirstEdits)
    /\ writes \in 0..MaxWrites /\ order \subseteq 1..writes /\ synced \in 0..writes
    /\ failures \in 0..MaxFailures

TypeInv == FsType(fs) /\ ProcessType

-----------------------------------------------------------------------------
(* What is on disk *)

FileOf(f, name) == f.inodes[f.dir[name]]
Synced(file) == file.data = file.safe

\* No name but that of a temporary file ever refers to another file.
NamesStay(f) ==
    \A d \in f.disks, n \in Names \ Temps : d[n] # 0 => f.dir[n] = d[n]

\* Where there is a CURRENT, all that it leads to is on disk; no log is there
\* before CURRENT, and there is nothing yet in logs to come.
ManifestOnDisk(f) ==
    /\ Synced(FileOf(f, Current)) /\ Records(f, Current) # <<>>
    /\ Exists(f, Manifest) /\ Synced(FileOf(f, Manifest))
    /\ \A d \in f.disks : d[Manifest] # 0
TablesOnDisk(f) ==
    \A n \in Replayed(f).files :
       /\ Complete(f, n) /\ Synced(FileOf(f, Table(n)))
       /\ \A d \in f.disks : d[Table(n)] # 0
LogsOnDisk(f) ==
    /\ \A n \in 1..MaxNumber : n > Replayed(f).log /\ Exists(f, Wal(n)) =>
          FileOf(f, Wal(n)) = [data |-> <<>>, safe |-> <<>>]
    /\ Exists(f, Wal(Replayed(f).log)) =>
          LET file == FileOf(f, Wal(Replayed(f).log))
          IN  /\ IsPrefix(file.safe, file.data)
              /\ \A i \in DOMAIN file.data : file.data[i].kind = "write"
CurrentFirst(f) ==
    \A d \in f.disks : d[Current] = 0 => \A n \in 1..MaxNumber : d[Wal(n)] = 0

InTables(f) == UNION {WritesIn(Records(f, Table(n))) : n \in Replayed(f).files}
InLog(f) ==
    IF Exists(f, Wal(Replayed(f).log)) THEN WritesIn(Records(f, Wal(Replayed(f).log))) ELSE {}

\* The tables have the writes o up to some point, and the log, in order, those
\* that follow, up to some point.
InOrder(f, o) ==
    /\ InTables(f) \subseteq o /\ InLog(f) \subseteq o
    /\ \A v, w \in o : v < w /\ w \in InTables(f) => v \in InTables(f)
    /\ Exists(f, Wal(Replayed(f).log)) =>
          LET recs == Records(f, Wal(Replayed(f).log))
          IN  \A i \in DOMAIN recs : \A v \in o :
                 v < recs[i].n => v \in InTables(f) \/ \E j \in 1..i : recs[j].n = v

\* Writes up to s are on disk, whatever directory is left.
OnDisk(f, o, s) ==
    \A d \in f.disks, w \in o : w <= s =>
       /\ d[Current] # 0
       /\ \/ w \in InTables(f)
          \/ /\ d[Wal(Replayed(f).log)] # 0
             /\ w \in WritesIn(FileOf(f, Wal(Replayed(f).log)).safe)

DiskInv(f, o, s) ==
    /\ NamesStay(f) /\ CurrentFirst(f) /\ OnDisk(f, o, s)
    /\ Exists(f, Current) =>
          ManifestOnDisk(f) /\ TablesOnDisk(f) /\ LogsOnDisk(f) /\ InOrder(f, o)

-----------------------------------------------------------------------------
(* What the process has done *)

Puts(m) == [i \in DOMAIN m |-> Put(m[i])]

CreateInv ==
    /\ pc \in Creating => ~Exists(fs, Current)
    /\ pc \in Opened => Exists(fs, Current)
    /\ pc = "edits" =>
          Records(fs, Manifest) = SubSeq(FirstEdits, 1, Len(Records(fs, Manifest)))
    /\ pc \in {"tmp", "rename"} =>
          /\ Exists(fs, Manifest) /\ Synced(FileOf(fs, Manifest))
          /\ Records(fs, Manifest) = FirstEdits /\ fs.disks = {fs.dir}
    /\ pc = "rename" =>
          /\ Exists(fs, CurrentTmp) /\ Synced(FileOf(fs, CurrentTmp))
          /\ Records(fs, CurrentTmp) # <<>>
    /\ pc = "dirsync" => Records(fs, Manifest) = FirstEdits

RunInv ==
    /\ pc \in {"replay"} \cup Running =>
          ver.files = Replayed(fs).files /\ ver.log = Replayed(fs).log /\ ver.next > ver.log
    /\ pc \in Running =>
          /\ Exists(fs, Wal(ver.log)) /\ Records(fs, Wal(ver.log)) = Puts(mem)
          /\ order \subseteq InTables(fs) \cup InLog(fs)
    /\ pc = "publish" => ~Exists(fs, Table(num)) /\ Exists(fs, TableTmp(num))
    /\ pc \in {"publish", "add"} =>
          LET name == IF pc = "add" THEN Table(num) ELSE TableTmp(num)
          IN  /\ Exists(fs, name) /\ Synced(FileOf(fs, name))
              /\ Records(fs, name) = Puts(mem) \o <<Footer>>
    /\ pc \in {"last", "newlog", "log"} => order \subseteq InTables(fs)
    /\ pc = "log" => Exists(fs, Wal(num)) /\ num > ver.log

PowerInv == TypeInv /\ DiskInv(fs, order, synced) /\ CreateInv /\ RunInv

-----------------------------------------------------------------------------
(* Names *)

LEMMA NameFacts ==
    /\ Current \in Names \ Temps /\ Manifest \in Names \ Temps /\ CurrentTmp \in Temps
    /\ \A n \in 1..MaxNumber :
          Wal(n) \in Names \ Temps /\ Table(n) \in Names \ Temps /\ TableTmp(n) \in Temps
    /\ Temps \subseteq Names
<1>1. Temps \subseteq Names
  BY DEF Names, Temps
<1>2. Current \in Names /\ Manifest \in Names /\ CurrentTmp \in Temps
  BY DEF Names, Temps
<1>3. ASSUME NEW n \in 1..MaxNumber
      PROVE  Wal(n) \in Names /\ Table(n) \in Names /\ TableTmp(n) \in Temps
  BY DEF Names, Temps
<1>4. \A t \in Temps : t[1] \in {"CURRENT.tmp", "sst.tmp"}
  BY DEF Temps, CurrentTmp, TableTmp
<1>5. Current[1] = "CURRENT" /\ Manifest[1] = "MANIFEST"
  BY DEF Current, Manifest
<1>6. \A n : Wal(n)[1] = "log" /\ Table(n)[1] = "sst"
  BY DEF Wal, Table
<1>7. Current \notin Temps /\ Manifest \notin Temps
  BY <1>4, <1>5
<1>8. \A n : Wal(n) \notin Temps /\ Table(n) \notin Temps
  BY <1>4, <1>6
<1> QED BY <1>1, <1>2, <1>3, <1>7, <1>8

LEMMA NamesDiffer ==
    /\ Current # Manifest
    /\ \A n : Wal(n) # Current /\ Wal(n) # Manifest /\ Table(n) # Current /\ Table(n) # Manifest
    /\ \A n, m : Wal(n) # Table(m)
    /\ \A n, m : Wal(n) = Wal(m) => n = m
    /\ \A n, m : Table(n) = Table(m) => n = m
<1>1. Current[1] = "CURRENT" /\ Manifest[1] = "MANIFEST"
  BY DEF Current, Manifest
<1>2. \A n : Wal(n)[1] = "log" /\ Table(n)[1] = "sst" /\ Wal(n)[2] = n /\ Table(n)[2] = n
  BY DEF Wal, Table
<1>3. Current # Manifest
  BY <1>1
<1>4. \A n : Wal(n) # Current /\ Wal(n) # Manifest /\ Table(n) # Current /\ Table(n) # Manifest
  BY <1>1, <1>2
<1>5. \A n, m : Wal(n) # Table(m)
  BY <1>2
<1>6. \A n, m : (Wal(n) = Wal(m) => n = m) /\ (Table(n) = Table(m) => n = m)
  BY <1>2
<1> QED BY <1>3, <1>4, <1>5, <1>6

-----------------------------------------------------------------------------
(* What the calls to the file system do *)

\* g is f but for file i.
Rewritten(f, g, i, file) ==
    /\ g \in Systems /\ g.dir = f.dir /\ Len(g.inodes) = Len(f.inodes)
    /\ \A j \in 1..Len(f.inodes) : g.inodes[j] = IF j = i THEN file ELSE f.inodes[j]

LEMMA UpdateAt ==
    ASSUME NEW S, NEW s \in Seq(S), NEW i, NEW x, i \in 1..Len(s) => x \in S
    PROVE  /\ [s EXCEPT ![i] = x] \in Seq(S) /\ Len([s EXCEPT ![i] = x]) = Len(s)
           /\ \A j \in 1..Len(s) : [s EXCEPT ![i] = x][j] = IF j = i THEN x ELSE s[j]
<1> DEFINE t == [j \in 1..Len(s) |-> IF j = i THEN x ELSE s[j]]
<1>1. [s EXCEPT ![i] = x] = t
  OBVIOUS
<1>2. \A j \in 1..Len(s) : t[j] = IF j = i THEN x ELSE s[j]
  OBVIOUS
<1>3. Len(s) \in Nat /\ \A j \in 1..Len(s) : t[j] \in S
  OBVIOUS
<1>4. t \in Seq(S) /\ Len(t) = Len(s)
  <2>1. t \in [1..Len(s) -> S]
    BY <1>3
  <2>2. DOMAIN t = 1..Len(s)
    OBVIOUS
  <2> HIDE DEF t
  <2> QED BY <1>3, <2>1, <2>2
<1> HIDE DEF t
<1> QED BY <1>1, <1>2, <1>4

LEMMA InodeType ==
    ASSUME NEW f \in Systems, NEW i \in 1..Len(f.inodes)
    PROVE  /\ f.inodes[i] \in File
           /\ f.inodes[i].data \in Seq(Record) /\ f.inodes[i].safe \in Seq(Record)
<1>1. f.inodes \in Seq(File)
  BY DEF Systems
<1>2. f.inodes[i] \in File
  BY <1>1
<1> QED BY <1>2 DEF File

LEMMA WritesData ==
    ASSUME NEW f \in Systems, NEW i, NEW recs, i \in 1..Len(f.inodes) => recs \in Seq(Record)
    PROVE  /\ LET g == [f EXCEPT !.inodes[i].data = recs]
              IN  /\ Rewritten(f, g, i, [data |-> recs, safe |-> f.inodes[i].safe])
                  /\ g.disks = f.disks
           /\ LET g == [f EXCEPT !.inodes[i].safe = recs]
              IN  /\ Rewritten(f, g, i, [data |-> f.inodes[i].data, safe |-> recs])
                  /\ g.disks = f.disks
<1>1. f.inodes \in Seq(File)
  BY DEF Systems
<1> DEFINE x == [data |-> recs, safe |-> f.inodes[i].safe]
           y == [data |-> f.inodes[i].data, safe |-> recs]
<1>2. i \in 1..Len(f.inodes) => x \in File /\ y \in File
  BY InodeType DEF File
<1>3. i \in 1..Len(f.inodes) =>
         /\ [f.inodes[i] EXCEPT !.data = recs] = x
         /\ [f.inodes[i] EXCEPT !.safe = recs] = y
  BY InodeType DEF File
<1>4. ASSUME NEW z, i \in 1..Len(f.inodes) => z \in File
      PROVE  LET g == [f EXCEPT !.inodes = [f.inodes EXCEPT ![i] = z]]
             IN  Rewritten(f, g, i, z) /\ g.disks = f.disks
  <2> DEFINE new == [f.inodes EXCEPT ![i] = z]
  <2>1. /\ new \in Seq(File) /\ Len(new) = Len(f.inodes)
        /\ \A j \in 1..Len(f.inodes) : new[j] = IF j = i THEN z ELSE f.inodes[j]
    BY <1>1, <1>4, UpdateAt
  <2> HIDE DEF new
  <2>2. f = [dir |-> f.dir, disks |-> f.disks, inodes |-> f.inodes]
    BY DEF Systems
  <2>3. [f EXCEPT !.inodes = new] = [dir |-> f.dir, disks |-> f.disks, inodes |-> new]
    BY <2>2
  <2>4. f.dir \in [Names -> Nat] /\ f.disks \in SUBSET [Names -> Nat]
    BY DEF Systems
  <2>5. [dir |-> f.dir, disks |-> f.disks, inodes |-> new] \in Systems
    BY <2>1, <2>4 DEF Systems
  <2> QED BY <2>1, <2>3, <2>5 DEF new, Rewritten
<1>5. /\ [f.inodes EXCEPT ![i].data = recs] = [f.inodes EXCEPT ![i] = x]
      /\ [f.inodes EXCEPT ![i].safe = recs] = [f.inodes EXCEPT ![i] = y]
  <2>1. CASE i \in 1..Len(f.inodes)
    BY <1>1, <1>3, <2>1
  <2>2. CASE i \notin 1..Len(f.inodes)
    BY <1>1, <2>2
  <2> QED BY <2>1, <2>2
<1>6. /\ [f EXCEPT !.inodes[i].data = recs] = [f EXCEPT !.inodes = [f.inodes EXCEPT ![i] = x]]
      /\ [f EXCEPT !.inodes[i].safe = recs] = [f EXCEPT !.inodes = [f.inodes EXCEPT ![i] = y]]
  BY <1>5 DEF Systems
<1> HIDE DEF x, y
<1>7. /\ Rewritten(f, [f EXCEPT !.inodes = [f.inodes EXCEPT ![i] = x]], i, x)
      /\ [f EXCEPT !.inodes = [f.inodes EXCEPT ![i] = x]].disks = f.disks
  BY <1>2, <1>4
<1>8. /\ Rewritten(f, [f EXCEPT !.inodes = [f.inodes EXCEPT ![i] = y]], i, y)
      /\ [f EXCEPT !.inodes = [f.inodes EXCEPT ![i] = y]].disks = f.disks
  BY <1>2, <1>4
<1> QED BY <1>6, <1>7, <1>8 DEF x, y

LEMMA WriteAllIs ==
    ASSUME NEW f \in Systems, NEW name, NEW recs \in Seq(Record)
    PROVE  LET g == WriteAll(f, name, recs)
           IN  /\ Rewritten(f, g, f.dir[name],
                            [data |-> Records(f, name) \o recs, safe |-> FileOf(f, name).safe])
               /\ g.disks = f.disks
<1> DEFINE i == f.dir[name]
           new == f.inodes[i].data \o recs
<1>1. i \in 1..Len(f.inodes) => new \in Seq(Record)
  BY InodeType
<1>2. WriteAll(f, name, recs) = [f EXCEPT !.inodes[i].data = new]
  <2>1. CASE i \in DOMAIN f.inodes
    BY <2>1 DEF WriteAll, Systems
  <2>2. CASE i \notin DOMAIN f.inodes
    BY <2>2 DEF WriteAll, Systems
  <2> QED BY <2>1, <2>2
<1> HIDE DEF new
<1>3. LET g == [f EXCEPT !.inodes[i].data = new]
      IN  /\ Rewritten(f, g, i, [data |-> new, safe |-> f.inodes[i].safe])
          /\ g.disks = f.disks
  BY <1>1, WritesData, SMTT(60), ZenonT(60)
<1> QED BY <1>2, <1>3 DEF new, Records, FileOf

LEMMA SyncAllIs ==
    ASSUME NEW f \in Systems, NEW name
    PROVE  LET g == SyncAll(f, name)
           IN  /\ Rewritten(f, g, f.dir[name],
                            [data |-> Records(f, name), safe |-> Records(f, name)])
               /\ g.disks = IF Journaled THEN {f.dir} ELSE f.disks
<1> DEFINE i == f.dir[name]
           g == [f EXCEPT !.inodes[i].safe = f.inodes[i].data]
<1>1. i \in 1..Len(f.inodes) => f.inodes[i].data \in Seq(Record)
  BY InodeType
<1>2. /\ Rewritten(f, g, i, [data |-> f.inodes[i].data, safe |-> f.inodes[i].data])
      /\ g.disks = f.disks
  <2>1. PICK recs, j : recs = f.inodes[i].data /\ j = i
    OBVIOUS
  <2>2. LET h == [f EXCEPT !.inodes[j].safe = recs]
        IN  /\ Rewritten(f, h, j, [data |-> f.inodes[j].data, safe |-> recs])
            /\ h.disks = f.disks
    <3>1. j \in 1..Len(f.inodes) => recs \in Seq(Record)
      BY <1>1, <2>1
    <3> QED BY <3>1, WritesData, ZenonT(60)
  <2> QED BY <2>1, <2>2
<1>3. SyncAll(f, name) = IF Journaled THEN [g EXCEPT !.disks = {g.dir}] ELSE g
  BY DEF SyncAll, SyncDirectory
<1> HIDE DEF g
<1>4. /\ Rewritten(f, [g EXCEPT !.disks = {g.dir}], i,
                   [data |-> f.inodes[i].data, safe |-> f.inodes[i].data])
      /\ [g EXCEPT !.disks = {g.dir}].disks = {f.dir}
  <2>1. PICK h \in Systems : h = g
    BY <1>2 DEF Rewritten
  <2>2. [h EXCEPT !.disks = {h.dir}] = [dir |-> h.dir, disks |-> {h.dir}, inodes |-> h.inodes]
    <3>1. h = [dir |-> h.dir, disks |-> h.disks, inodes |-> h.inodes]
      BY DEF Systems
    <3> QED BY <3>1
  <2>3. [dir |-> h.dir, disks |-> {h.dir}, inodes |-> h.inodes] \in Systems
    BY DEF Systems
  <2> QED BY <1>2, <2>1, <2>2, <2>3 DEF Rewritten
<1> QED BY <1>2, <1>3, <1>4 DEF Records

Empty == [data |-> <<>>, safe |-> <<>>]
With(d, name, i) == [n \in Names |-> IF n = name THEN i ELSE d[n]]
Moved(d, from, to, i) == [n \in Names |-> IF n = to THEN i ELSE IF n = from THEN 0 ELSE d[n]]

LEMMA OpenAppendIs ==
    ASSUME NEW f \in Systems, NEW name \in Names, ~Exists(f, name)
    PROVE  LET g == OpenAppend(f, name)
           IN  /\ g \in Systems
               /\ g.inodes = Append(f.inodes, Empty)
               /\ g.dir = With(f.dir, name, Len(f.inodes) + 1)
               /\ g.disks = f.disks \cup
                     IF Journaled THEN {With(f.dir, name, Len(f.inodes) + 1)}
                     ELSE {With(d, name, Len(f.inodes) + 1) : d \in f.disks}
<1> DEFINE i == Len(f.inodes) + 1
           h == [f EXCEPT !.inodes = Append(f.inodes, [data |-> <<>>, safe |-> <<>>])]
<1>1. h \in Systems /\ h.inodes = Append(f.inodes, Empty) /\ h.dir = f.dir /\ h.disks = f.disks
  <2>1. Empty \in File
    BY DEF Empty, File
  <2>2. f.inodes \in Seq(File)
    BY DEF Systems
  <2>3. Append(f.inodes, Empty) \in Seq(File)
    BY <2>1, <2>2
  <2> QED BY <2>3 DEF Empty, Systems
<1>2. \A d \in [Names -> Nat] :
         Changed(d, [n \in {name} |-> i]) = With(d, name, i) /\ With(d, name, i) \in [Names -> Nat]
  BY DEF Changed, With, Systems
<1>3. f.dir \in [Names -> Nat] /\ \A d \in f.disks : d \in [Names -> Nat]
  BY DEF Systems
<1> HIDE DEF h
<1>4. OpenAppend(f, name) = ChangeDir(h, [n \in {name} |-> i])
  BY DEF OpenAppend, h
<1> DEFINE new == f.disks \cup IF Journaled THEN {With(f.dir, name, i)}
                               ELSE {With(d, name, i) : d \in f.disks}
<1>5. OpenAppend(f, name) = [h EXCEPT !.dir = With(f.dir, name, i), !.disks = new]
  <2>1. {Changed(d, [n \in {name} |-> i]) : d \in f.disks} = {With(d, name, i) : d \in f.disks}
    BY <1>2, <1>3
  <2>2. Changed(f.dir, [n \in {name} |-> i]) = With(f.dir, name, i)
    BY <1>2, <1>3
  <2>3. PICK c, k : c = [n \in {name} |-> i] /\ k = h
    OBVIOUS
  <2>4. ChangeDir(k, c) = [k EXCEPT !.dir = Changed(k.dir, c),
                                    !.disks = k.disks \cup IF Journaled THEN {Changed(k.dir, c)}
                                                           ELSE {Changed(d, c) : d \in k.disks}]
    BY <1>1, <2>3 DEF ChangeDir, Systems
  <2>5. k.dir = f.dir /\ k.disks = f.disks
    BY <1>1, <2>3
  <2>6. Changed(k.dir, c) = With(f.dir, name, i)
    BY <2>2, <2>3, <2>5
  <2>7. {Changed(d, c) : d \in k.disks} = {With(d, name, i) : d \in f.disks}
    BY <2>1, <2>3, <2>5
  <2>8. OpenAppend(f, name) = ChangeDir(k, c)
    BY <1>4, <2>3
  <2> HIDE DEF i
  <2> QED BY <2>3, <2>4, <2>5, <2>6, <2>7, <2>8
<1>6. new \in SUBSET [Names -> Nat] /\ With(f.dir, name, i) \in [Names -> Nat]
  BY <1>2, <1>3
<1> HIDE DEF new
<1>7. OpenAppend(f, name) = [dir |-> With(f.dir, name, i), disks |-> new,
                             inodes |-> Append(f.inodes, Empty)]
  <2>1. h = [dir |-> h.dir, disks |-> h.disks, inodes |-> h.inodes]
    BY <1>1 DEF Systems
  <2> QED BY <1>1, <1>5, <2>1
<1>8. Append(f.inodes, Empty) \in Seq(File)
  BY <1>1 DEF Systems
<1>9. OpenAppend(f, name) \in Systems
  BY <1>6, <1>7, <1>8 DEF Systems
<1> QED BY <1>7, <1>9 DEF new

LEMMA RenameIs ==
    ASSUME NEW f \in Systems, NEW from \in Names, NEW to \in Names
    PROVE  LET g == Rename(f, from, to)
           IN  /\ g \in Systems
               /\ g.inodes = f.inodes
               /\ g.dir = Moved(f.dir, from, to, f.dir[from])
               /\ g.disks = f.disks \cup
                     IF Journaled THEN {Moved(f.dir, from, to, f.dir[from])}
                     ELSE {Moved(d, from, to, f.dir[from]) : d \in f.disks}
<1>1. PICK i : i = f.dir[from]
  OBVIOUS
<1>2. i \in Nat
  BY <1>1 DEF Systems
<1> DEFINE change == [n \in {from, to} |-> IF n = to THEN i ELSE 0]
<1>3. \A d \in [Names -> Nat] :
         Changed(d, change) = Moved(d, from, to, i) /\ Moved(d, from, to, i) \in [Names -> Nat]
  BY <1>2 DEF Changed, Moved, Systems
<1>4. f.dir \in [Names -> Nat] /\ \A d \in f.disks : d \in [Names -> Nat]
  BY DEF Systems
<1>5. Rename(f, from, to) = ChangeDir(f, change)
  BY <1>1 DEF Rename
<1> DEFINE new == f.disks \cup IF Journaled THEN {Moved(f.dir, from, to, i)}
                               ELSE {Moved(d, from, to, i) : d \in f.disks}
<1> HIDE DEF change
<1>6. Rename(f, from, to) = [f EXCEPT !.dir = Moved(f.dir, from, to, i), !.disks = new]
  <2>1. {Changed(d, change) : d \in f.disks} = {Moved(d, from, to, i) : d \in f.disks}
    BY <1>3, <1>4
  <2> QED BY <1>3, <1>4, <1>5, <2>1 DEF ChangeDir, Systems
<1>7. new \in SUBSET [Names -> Nat] /\ Moved(f.dir, from, to, i) \in [Names -> Nat]
  BY <1>3, <1>4
<1> HIDE DEF new
<1>8. Rename(f, from, to) = [dir |-> Moved(f.dir, from, to, i), disks |-> new,
                             inodes |-> f.inodes]
  BY <1>6 DEF Systems
<1> QED BY <1>1, <1>7, <1>8 DEF new, Systems

LEMMA OpenCreateIs ==
    ASSUME NEW f \in Systems, NEW name \in Names
    PROVE  LET g == OpenCreate(f, name)
           IN  /\ Exists(f, name) =>
                     /\ Rewritten(f, g, f.dir[name], [data |-> <<>>, safe |-> FileOf(f, name).safe])
                     /\ g.disks = f.disks
               /\ ~Exists(f, name) => g = OpenAppend(f, name)
<1>1. CASE Exists(f, name)
  <2>1. PICK i : i = f.dir[name]
    OBVIOUS
  <2>2. OpenCreate(f, name) = [f EXCEPT !.inodes[i].data = <<>>]
    BY <1>1, <2>1 DEF OpenCreate, OpenAppend
  <2>3. <<>> \in Seq(Record)
    OBVIOUS
  <2>4. LET g == [f EXCEPT !.inodes[i].data = <<>>]
        IN  /\ Rewritten(f, g, i, [data |-> <<>>, safe |-> f.inodes[i].safe])
            /\ g.disks = f.disks
    BY <2>3, WritesData, ZenonT(60)
  <2> QED BY <1>1, <2>1, <2>2, <2>4 DEF FileOf
<1>2. CASE ~Exists(f, name)
  <2>1. PICK g : g = OpenAppend(f, name)
    OBVIOUS
  <2>2. /\ g \in Systems /\ g.inodes = Append(f.inodes, Empty)
        /\ g.dir = With(f.dir, name, Len(f.inodes) + 1)
    BY <1>2, <2>1, OpenAppendIs
  <2>3. PICK i : i = Len(f.inodes) + 1
    OBVIOUS
  <2>4. g.dir[name] = i
    BY <2>2, <2>3 DEF With
  <2>5. g.inodes[i] = Empty /\ i \in DOMAIN g.inodes
    BY <2>2, <2>3 DEF Systems
  <2>6. [g.inodes EXCEPT ![i].data = <<>>] = g.inodes
    <3>1. g.inodes \in Seq(File)
      BY <2>2 DEF Systems
    <3>2. [Empty EXCEPT !.data = <<>>] = Empty
      BY DEF Empty
    <3>3. [g.inodes EXCEPT ![i].data = <<>>] = [g.inodes EXCEPT ![i] = Empty]
      BY <2>5, <3>1, <3>2
    <3>4. [g.inodes EXCEPT ![i] = Empty] = g.inodes
      BY <2>5, <3>1
    <3> QED BY <3>3, <3>4
  <2>7. [g EXCEPT !.inodes[i].data = <<>>] = g
    BY <2>2, <2>6 DEF Systems
  <2> QED BY <1>2, <2>1, <2>4, <2>7 DEF OpenCreate
<1> QED BY <1>1, <1>2

LEMMA PowerLossIs ==
    ASSUME NEW f \in Systems, NEW g \in AfterPowerLoss(f)
    PROVE  /\ g \in Systems
           /\ g.dir \in f.disks /\ g.disks = {g.dir} /\ Len(g.inodes) = Len(f.inodes)
           /\ \A j \in 1..Len(f.inodes) :
                 /\ Synced(g.inodes[j])
                 /\ IF Synced(f.inodes[j]) THEN g.inodes[j] = f.inodes[j]
                    ELSE g.inodes[j].data \in Survivors(f.inodes[j])
<1> DEFINE unsynced == {i \in DOMAIN f.inodes : f.inodes[i].data # f.inodes[i].safe}
           new(p) == [i \in DOMAIN f.inodes |->
                        IF i \in unsynced THEN [data |-> p[i], safe |-> p[i]]
                        ELSE f.inodes[i]]
<1>1. PICK d \in f.disks, p \in [unsynced -> UNION {Survivors(f.inodes[i]) : i \in unsynced}] :
         /\ \A i \in unsynced : p[i] \in Survivors(f.inodes[i])
         /\ g = [dir |-> d, disks |-> {d}, inodes |-> new(p)]
  <2> DEFINE parts == [unsynced -> UNION {Survivors(f.inodes[i]) : i \in unsynced}]
             left == {p \in parts : \A i \in unsynced : p[i] \in Survivors(f.inodes[i])}
  <2>1. AfterPowerLoss(f) =
          UNION {{[dir |-> d, disks |-> {d}, inodes |-> new(p)] : p \in left} : d \in f.disks}
    BY DEF AfterPowerLoss
  <2>2. PICK d \in f.disks, p \in left : g = [dir |-> d, disks |-> {d}, inodes |-> new(p)]
    <3>1. PICK d \in f.disks : g \in {[dir |-> d, disks |-> {d}, inodes |-> new(p)] : p \in left}
      BY <2>1
    <3> QED BY <3>1
  <2> QED BY <2>2
<1>2. f.inodes \in Seq(File) /\ DOMAIN f.inodes = 1..Len(f.inodes) /\ Len(f.inodes) \in Nat
  BY DEF Systems
<1>3. ASSUME NEW i \in 1..Len(f.inodes), NEW r \in Survivors(f.inodes[i])
      PROVE  r \in Seq(Record)
  <2>1. f.inodes[i].data \in Seq(Record) /\ f.inodes[i].safe \in Seq(Record)
    BY InodeType
  <2>2. \A n \in 0..Len(f.inodes[i].data) : SubSeq(f.inodes[i].data, 1, n) \in Seq(Record)
    BY <2>1
  <2> QED BY <2>1, <2>2 DEF Survivors
<1>4. ASSUME NEW j \in 1..Len(f.inodes)
      PROVE  /\ new(p)[j] \in File
             /\ Synced(new(p)[j])
             /\ IF Synced(f.inodes[j]) THEN new(p)[j] = f.inodes[j]
                ELSE new(p)[j].data \in Survivors(f.inodes[j])
  <2>1. CASE j \in unsynced
    BY <1>1, <1>2, <1>3, <2>1 DEF Synced, File
  <2>2. CASE j \notin unsynced
    BY <1>2, <2>2, InodeType DEF Synced
  <2> QED BY <2>1, <2>2
<1>5. new(p) \in Seq(File) /\ Len(new(p)) = Len(f.inodes)
  <2>1. DOMAIN new(p) = 1..Len(f.inodes) /\ new(p) \in [1..Len(f.inodes) -> File]
    BY <1>2, <1>4
  <2> HIDE DEF new
  <2> QED BY <1>2, <2>1
<1> HIDE DEF new
<1>6. d \in [Names -> Nat]
  BY <1>1 DEF Systems
<1> QED BY <1>1, <1>4, <1>5, <1>6 DEF Systems

-----------------------------------------------------------------------------
(* The calls keep the types *)

LEMMA RewrittenType ==
    ASSUME NEW f, FsType(f), NEW g, NEW i, NEW file, Rewritten(f, g, i, file),
           g.disks = f.disks \/ g.disks = {f.dir}
    PROVE  FsType(g)
BY DEF FsType, Rewritten

LEMMA OpenAppendType ==
    ASSUME NEW f, FsType(f), NEW name \in Names
    PROVE  FsType(OpenAppend(f, name))
<1>1. CASE Exists(f, name)
  BY <1>1 DEF OpenAppend
<1>2. CASE ~Exists(f, name)
  <2>1. PICK g, new : g = OpenAppend(f, name) /\ new = Len(f.inodes) + 1
    OBVIOUS
  <2>2. /\ g \in Systems /\ g.inodes = Append(f.inodes, Empty)
        /\ g.dir = With(f.dir, name, new)
        /\ g.disks = f.disks \cup IF Journaled THEN {With(f.dir, name, new)}
                                  ELSE {With(d, name, new) : d \in f.disks}
    BY <1>2, <2>1, OpenAppendIs DEF FsType
  <2>3. Len(f.inodes) \in Nat /\ Len(g.inodes) = new /\ new = Len(f.inodes) + 1
    BY <2>1, <2>2 DEF FsType, Systems
  <2>4. \A e \in g.disks : \E d \in f.disks : e = d \/ e = With(d, name, new)
    BY <2>2 DEF FsType
  <2>5. \A d \in f.disks, n \in Names : d[n] \in Nat /\ d[n] <= Len(f.inodes) /\ d[n] # new
    BY <2>3 DEF FsType
  <2>6. g.dir \in g.disks
    BY <2>2 DEF FsType
  <2>7. ASSUME NEW e \in g.disks, NEW n \in Names PROVE e[n] \in 0..Len(g.inodes)
    BY <2>3, <2>4, <2>5 DEF With
  <2>8. ASSUME NEW e \in g.disks, NEW n \in Names, NEW m \in Names, e[n] = e[m], e[n] # 0
        PROVE  n = m
    BY <2>4, <2>5, <2>8 DEF With, FsType
  <2>9. ASSUME NEW e \in g.disks, NEW n \in Names, NEW t \in Temps, g.dir[t] # 0, e[n] = g.dir[t]
        PROVE  n = t
    <3>1. t \in Names /\ f.dir \in f.disks
      BY NameFacts DEF FsType
    <3>2. PICK d \in f.disks : e = d \/ e = With(d, name, new)
      BY <2>4
    <3>3. CASE t = name
      <4>1. g.dir[t] = new
        BY <2>2, <3>1, <3>3 DEF With
      <4> QED BY <2>5, <2>9, <3>2, <3>3, <4>1 DEF With
    <3>4. CASE t # name
      <4>1. g.dir[t] = f.dir[t] /\ f.dir[t] # new
        BY <2>2, <2>5, <3>1, <3>4 DEF With
      <4>2. d[n] = f.dir[t]
        BY <2>9, <3>2, <4>1 DEF With
      <4> QED BY <2>9, <4>1, <4>2 DEF FsType
    <3> QED BY <3>3, <3>4
  <2> QED BY <2>1, <2>2, <2>6, <2>7, <2>8, <2>9 DEF FsType
<1> QED BY <1>1, <1>2

LEMMA RenameType ==
    ASSUME NEW f, FsType(f), NEW from \in Temps, NEW to \in Names \ Temps
    PROVE  FsType(Rename(f, from, to))
<1>1. PICK g, i : g = Rename(f, from, to) /\ i = f.dir[from]
  OBVIOUS
<1>2. from \in Names /\ Temps \subseteq Names
  BY NameFacts
<1>3. /\ g \in Systems /\ g.inodes = f.inodes
      /\ g.dir = Moved(f.dir, from, to, i)
      /\ g.disks = f.disks \cup IF Journaled THEN {Moved(f.dir, from, to, i)}
                                ELSE {Moved(d, from, to, i) : d \in f.disks}
  BY <1>1, <1>2, RenameIs DEF FsType
<1>4. f.dir \in f.disks /\ i \in 0..Len(f.inodes) /\ Len(f.inodes) \in Nat
  BY <1>1, <1>2 DEF FsType, Systems
<1>5. \A e \in g.disks : \E d \in f.disks : e = d \/ e = Moved(d, from, to, i)
  BY <1>3, <1>4
<1>6. \A d \in f.disks : \A n \in Names : i # 0 /\ d[n] = i => n = from
  BY <1>1 DEF FsType
<1>7. ASSUME NEW e \in g.disks, NEW n \in Names PROVE e[n] \in 0..Len(g.inodes)
  <2>1. PICK d \in f.disks : e = d \/ e = Moved(d, from, to, i)
    BY <1>5
  <2>2. d[n] \in 0..Len(f.inodes) /\ 0 \in 0..Len(f.inodes)
    BY <1>4 DEF FsType
  <2>3. e[n] \in {d[n], i, 0}
    BY <2>1 DEF Moved
  <2> QED BY <1>3, <1>4, <2>2, <2>3
<1>8. ASSUME NEW e \in g.disks, NEW n \in Names, NEW m \in Names, e[n] = e[m], e[n] # 0
      PROVE  n = m
  <2>1. PICK d \in f.disks : e = d \/ e = Moved(d, from, to, i)
    BY <1>5
  <2>2. CASE e = d
    BY <1>8, <2>2 DEF FsType
  <2>3. CASE e = Moved(d, from, to, i)
    <3>1. \A p \in Names : e[p] = IF p = to THEN i ELSE IF p = from THEN 0 ELSE d[p]
      BY <2>3 DEF Moved
    <3>2. (n # from /\ m # from) \/ to = from
      BY <1>8, <3>1
    <3>3. to # from
      OBVIOUS
    <3>4. CASE n = to \/ m = to
      BY <1>6, <1>8, <3>1, <3>2, <3>3, <3>4
    <3>5. CASE n # to /\ m # to
      BY <1>8, <3>1, <3>2, <3>3, <3>5 DEF FsType
    <3> QED BY <3>4, <3>5
  <2> QED BY <2>1, <2>2, <2>3
<1>9. ASSUME NEW e \in g.disks, NEW n \in Names, NEW t \in Temps, g.dir[t] # 0, e[n] = g.dir[t]
      PROVE  n = t
  <2>1. t \in Names /\ t # to
    BY <1>2
  <2>2. t # from /\ g.dir[t] = f.dir[t]
    BY <1>3, <1>9, <2>1 DEF Moved
  <2>3. f.dir[t] # i
    BY <1>1, <1>2, <1>4, <1>9, <2>1, <2>2 DEF FsType
  <2>4. PICK d \in f.disks : e = d \/ e = Moved(d, from, to, i)
    BY <1>5
  <2>5. d[n] = f.dir[t]
    BY <1>9, <2>2, <2>3, <2>4 DEF Moved
  <2> QED BY <1>9, <2>2, <2>5 DEF FsType
<1>10. g.dir \in g.disks
  BY <1>3, <1>4
<1> QED BY <1>1, <1>3, <1>7, <1>8, <1>9, <1>10 DEF FsType

LEMMA OtherTypes ==
    ASSUME NEW f, FsType(f)
    PROVE  /\ \A name, recs : recs \in Seq(Record) => FsType(WriteAll(f, name, recs))
           /\ \A name : FsType(SyncAll(f, name))
           /\ \A name \in Names : FsType(OpenCreate(f, name))
           /\ FsType(SyncDirectory(f))
           /\ \A g \in AfterPowerLoss(f) : FsType(g)
<1>0. f \in Systems
  BY DEF FsType
<1>1. ASSUME NEW name, NEW recs \in Seq(Record) PROVE FsType(WriteAll(f, name, recs))
  <2>1. PICK g, i, file : /\ g = WriteAll(f, name, recs) /\ i = f.dir[name]
                          /\ file = [data |-> Records(f, name) \o recs, safe |-> FileOf(f, name).safe]
    OBVIOUS
  <2>2. Rewritten(f, g, i, file) /\ g.disks = f.disks
    BY <1>0, <2>1, WriteAllIs
  <2> QED BY <2>1, <2>2, RewrittenType
<1>2. ASSUME NEW name PROVE FsType(SyncAll(f, name))
  <2>1. PICK g, i, file : /\ g = SyncAll(f, name) /\ i = f.dir[name]
                          /\ file = [data |-> Records(f, name), safe |-> Records(f, name)]
    OBVIOUS
  <2>2. Rewritten(f, g, i, file) /\ (g.disks = f.disks \/ g.disks = {f.dir})
    BY <1>0, <2>1, SyncAllIs
  <2> QED BY <2>1, <2>2, RewrittenType
<1>3. ASSUME NEW name \in Names PROVE FsType(OpenCreate(f, name))
  <2>1. CASE Exists(f, name)
    <3>1. PICK g, i, file : /\ g = OpenCreate(f, name) /\ i = f.dir[name]
                            /\ file = [data |-> <<>>, safe |-> FileOf(f, name).safe]
      OBVIOUS
    <3>2. Rewritten(f, g, i, file) /\ g.disks = f.disks
      BY <1>0, <2>1, <3>1, OpenCreateIs
    <3> QED BY <3>1, <3>2, RewrittenType
  <2>2. CASE ~Exists(f, name)
    <3>1. OpenCreate(f, name) = OpenAppend(f, name)
      BY <1>0, <2>2, OpenCreateIs
    <3> QED BY <3>1, OpenAppendType
  <2> QED BY <2>1, <2>2
<1>4. FsType(SyncDirectory(f))
  <2>1. f = [dir |-> f.dir, disks |-> f.disks, inodes |-> f.inodes]
    BY DEF FsType, Systems
  <2>2. SyncDirectory(f) = [dir |-> f.dir, disks |-> {f.dir}, inodes |-> f.inodes]
    BY <2>1 DEF SyncDirectory
  <2> QED BY <2>2 DEF FsType, Systems
<1>5. ASSUME NEW g \in AfterPowerLoss(f) PROVE FsType(g)
  <2>1. /\ g \in Systems /\ g.dir \in f.disks /\ g.disks = {g.dir}
        /\ Len(g.inodes) = Len(f.inodes)
    BY PowerLossIs DEF FsType
  <2>2. Temps \subseteq Names
    BY NameFacts
  <2> QED BY <2>1, <2>2 DEF FsType
<1> QED BY <1>1, <1>2, <1>3, <1>4, <1>5

-----------------------------------------------------------------------------
(* What the edits of a manifest lead to *)

\* Numbers are well-founded.
LEMMA LeastNumber ==
    ASSUME NEW T, T \subseteq Nat, T # {}
    PROVE  \E x \in T : \A y \in T : x <= y
<1> DEFINE R == {ss \in Nat \X Nat : ss[1] < ss[2]}
<1>1. IsWellFoundedOn(R, Nat)
  BY NatLessThanWellFounded DEF OpToRel
<1>2. \A x, y \in Nat : x < y => <<x, y>> \in R
  OBVIOUS
<1> HIDE DEF R
<1>3. PICK x \in T : \A y \in T : ~(<<y, x>> \in R)
  BY <1>1, WFMin
<1>4. \A y \in T : ~(y < x) /\ x \in Nat /\ y \in Nat
  BY <1>2, <1>3
<1> QED BY <1>4

LEMMA MaxIsGreatest ==
    ASSUME NEW T, T \subseteq Nat, T # {}, NEW bound \in Nat, \A y \in T : y <= bound
    PROVE  Max(T) \in T /\ \A y \in T : y <= Max(T)
<1> DEFINE D == {n \in Nat : \E y \in T : n = bound - y}
<1>0. PICK t \in T : TRUE
  OBVIOUS
<1>1. D \subseteq Nat /\ bound - t \in D
  BY <1>0
<1>2. PICK d \in D : \A n \in D : d <= n
  <2> HIDE DEF D
  <2> QED BY <1>1, LeastNumber
<1>3. PICK x \in T : d = bound - x
  OBVIOUS
<1>4. ASSUME NEW y \in T PROVE x >= y
  <2>1. y \in Nat /\ x \in Nat /\ y <= bound /\ bound - y \in D
    OBVIOUS
  <2>2. d <= bound - y /\ d = bound - x
    <3> HIDE DEF D
    <3> QED BY <1>2, <1>3, <2>1
  <2> QED BY <2>1, <2>2
<1>5. Max(T) \in T /\ \A y \in T : Max(T) >= y
  BY <1>4 DEF Max
<1> QED BY <1>5

LogEdits(recs) == {i \in DOMAIN recs : recs[i].kind = "log"}

LEMMA LastLogEdit ==
    ASSUME NEW recs \in Seq(Record), LogEdits(recs) # {}
    PROVE  /\ Max(LogEdits(recs)) \in LogEdits(recs)
           /\ \A i \in LogEdits(recs) : i <= Max(LogEdits(recs))
<1>1. LogEdits(recs) \subseteq Nat /\ \A i \in LogEdits(recs) : i <= Len(recs)
  BY DEF LogEdits
<1>2. Len(recs) \in Nat
  OBVIOUS
<1> QED BY <1>1, <1>2, MaxIsGreatest

LEMMA RecordFacts ==
    ASSUME NEW r \in Record
    PROVE  /\ r.n \in Nat
           /\ r.kind \in {"log", "add"} => r.n \in 1..MaxNumber
           /\ r.kind = "next" => r.n = 2
BY PowerLossAssumption DEF Record, Edit, Footer

LEMMA NumbersIn ==
    ASSUME NEW recs, NEW kind
    PROVE  Numbers(recs, kind) = {recs[i].n : i \in {j \in DOMAIN recs : recs[j].kind = kind}}
BY DEF Numbers, ToSet

LEMMA ReplayedType ==
    ASSUME NEW f, Records(f, Manifest) \in Seq(Record)
    PROVE  /\ Replayed(f) \in [files : SUBSET (1..MaxNumber), log : 1..MaxNumber, next : Nat \ {0}]
           /\ Replayed(f).next > Replayed(f).log
<1>1. PICK recs \in Seq(Record) : recs = Records(f, Manifest)
  OBVIOUS
<1> DEFINE used == Numbers(recs, "log") \cup Numbers(recs, "add")
           taken == {2} \cup Numbers(recs, "next") \cup {n + 1 : n \in used}
           logNumber == IF LogEdits(recs) = {} THEN 1 ELSE recs[Max(LogEdits(recs))].n
<1>2. Replayed(f) = [files |-> Numbers(recs, "add"), log |-> logNumber, next |-> Max(taken)]
  BY <1>1 DEF Replayed, LogEdits, NewVersions
<1>3. \A i \in DOMAIN recs :
         /\ recs[i].kind \in {"log", "add"} => recs[i].n \in 1..MaxNumber
         /\ recs[i].kind = "next" => recs[i].n = 2
  BY RecordFacts
<1>4. /\ Numbers(recs, "add") \subseteq 1..MaxNumber /\ Numbers(recs, "log") \subseteq 1..MaxNumber
      /\ Numbers(recs, "next") \subseteq {2}
  BY <1>3, NumbersIn
<1>5. logNumber \in 1..MaxNumber /\ (logNumber = 1 \/ logNumber \in used)
  <2>1. CASE LogEdits(recs) = {}
    BY <2>1, PowerLossAssumption
  <2>2. CASE LogEdits(recs) # {}
    <3>1. Max(LogEdits(recs)) \in DOMAIN recs /\ recs[Max(LogEdits(recs))].kind = "log"
      BY <2>2, LastLogEdit DEF LogEdits
    <3>2. recs[Max(LogEdits(recs))].n \in Numbers(recs, "log")
      BY <3>1, NumbersIn
    <3> QED BY <1>4, <2>2, <3>2
  <2> QED BY <2>1, <2>2
<1>6. Max(taken) \in taken /\ \A n \in taken : n <= Max(taken)
  <2>1. MaxNumber \in Nat \ {0} /\ MaxNumber + 1 \in Nat
    BY PowerLossAssumption
  <2>2. taken \subseteq Nat /\ 2 \in taken /\ \A n \in taken : n <= MaxNumber + 1
    BY <1>4, <2>1
  <2> HIDE DEF taken
  <2> QED BY <2>1, <2>2, MaxIsGreatest
<1>7. Max(taken) \in Nat \ {0} /\ Max(taken) > logNumber
  <2>1. 2 \in taken /\ \A n \in used : n + 1 \in taken
    OBVIOUS
  <2>2. taken \subseteq Nat
    BY <1>4
  <2> HIDE DEF taken, used
  <2>3. PICK top \in Nat : top = Max(taken)
    BY <1>6, <2>2
  <2>4. PICK l \in 1..MaxNumber : l = logNumber
    BY <1>5
  <2> HIDE DEF logNumber
  <2>5. l = 1 \/ l + 1 \in taken
    BY <1>5, <2>1, <2>4
  <2>6. 2 <= top /\ (l + 1 \in taken => l + 1 <= top)
    BY <1>6, <2>1, <2>3
  <2> QED BY <2>3, <2>4, <2>5, <2>6
<1> QED BY <1>2, <1>4, <1>5, <1>7

LEMMA ReplayedIs ==
    ASSUME NEW f, NEW recs, recs = Records(f, Manifest)
    PROVE  /\ Replayed(f).files = Numbers(recs, "add")
           /\ Replayed(f).log = IF LogEdits(recs) = {} THEN 1 ELSE recs[Max(LogEdits(recs))].n
BY DEF Replayed, LogEdits, NewVersions

LEMMA ReplayedAppend ==
    ASSUME NEW f, NEW g, NEW recs \in Seq(Record), recs = Records(f, Manifest),
           NEW e \in Record, Records(g, Manifest) = recs \o <<e>>
    PROVE  /\ Replayed(g).files = IF e.kind = "add" THEN Replayed(f).files \cup {e.n}
                                  ELSE Replayed(f).files
           /\ Replayed(g).log = IF e.kind = "log" THEN e.n ELSE Replayed(f).log
<1>1. PICK new : new = recs \o <<e>>
  OBVIOUS
<1>2. /\ new \in Seq(Record) /\ Len(recs) \in Nat /\ Len(new) = Len(recs) + 1
      /\ DOMAIN recs = 1..Len(recs) /\ DOMAIN new = 1..(Len(recs) + 1)
      /\ \A i \in 1..Len(recs) : new[i] = recs[i]
      /\ new[Len(recs) + 1] = e
  BY <1>1
<1>3. Numbers(new, "add") = IF e.kind = "add" THEN Numbers(recs, "add") \cup {e.n}
                            ELSE Numbers(recs, "add")
  <2>1. \A n : n \in Numbers(new, "add") <=> \E i \in 1..(Len(recs) + 1) : new[i].kind = "add" /\ n = new[i].n
    BY <1>2, NumbersIn
  <2>2. \A n : n \in Numbers(recs, "add") <=> \E i \in 1..Len(recs) : recs[i].kind = "add" /\ n = recs[i].n
    BY <1>2, NumbersIn
  <2>3. \A i : i \in 1..(Len(recs) + 1) <=> i \in 1..Len(recs) \/ i = Len(recs) + 1
    BY <1>2
  <2>4. \A n : n \in Numbers(new, "add") <=> n \in Numbers(recs, "add") \/ (e.kind = "add" /\ n = e.n)
    <3>1. ASSUME NEW n, n \in Numbers(new, "add")
          PROVE  n \in Numbers(recs, "add") \/ (e.kind = "add" /\ n = e.n)
      BY <1>2, <2>1, <2>2, <2>3, <3>1
    <3>2. ASSUME NEW n, n \in Numbers(recs, "add") PROVE n \in Numbers(new, "add")
      BY <1>2, <2>1, <2>2, <2>3, <3>2
    <3>3. e.kind = "add" => e.n \in Numbers(new, "add")
      BY <1>2, <2>1, <2>3
    <3> QED BY <3>1, <3>2, <3>3
  <2> QED BY <2>4
<1>4. CASE e.kind = "log"
  <2>1. Len(recs) + 1 \in LogEdits(new) /\ \A i \in LogEdits(new) : i <= Len(recs) + 1
    BY <1>2, <1>4 DEF LogEdits
  <2>2. Max(LogEdits(new)) = Len(recs) + 1
    <3>1. Max(LogEdits(new)) \in LogEdits(new) /\ Len(recs) + 1 <= Max(LogEdits(new))
      BY <1>2, <2>1, LastLogEdit
    <3>2. Max(LogEdits(new)) <= Len(recs) + 1 /\ Max(LogEdits(new)) \in Nat
      BY <1>2, <2>1, <3>1 DEF LogEdits
    <3> QED BY <1>2, <3>1, <3>2
  <2>3. Replayed(g).log = new[Max(LogEdits(new))].n
    BY <1>1, <1>2, <2>1, ReplayedIs
  <2>4. Replayed(g).log = e.n
    BY <1>2, <2>2, <2>3
  <2>5. Replayed(g).files = Numbers(new, "add") /\ Replayed(f).files = Numbers(recs, "add")
    BY <1>1, ReplayedIs
  <2> QED BY <1>3, <1>4, <2>4, <2>5
<1>5. CASE e.kind # "log"
  <2>1. LogEdits(new) = LogEdits(recs)
    BY <1>2, <1>5 DEF LogEdits
  <2>2. LogEdits(recs) # {} => new[Max(LogEdits(recs))] = recs[Max(LogEdits(recs))]
    BY <1>2, LastLogEdit DEF LogEdits
  <2> QED BY <1>1, <1>3, <1>5, <2>1, <2>2, ReplayedIs
<1> QED BY <1>4, <1>5

LEMMA ReplayedFirst ==
    ASSUME NEW f, Records(f, Manifest) = FirstEdits
    PROVE  Replayed(f).files = {} /\ Replayed(f).log = 1
<1>1. PICK recs : recs = FirstEdits
  OBVIOUS
<1>2. /\ DOMAIN recs = {1, 2, 3}
      /\ recs[1].kind = "next" /\ recs[2].kind = "log" /\ recs[3].kind = "last" /\ recs[2].n = 1
  BY <1>1 DEF FirstEdits, Edit
<1>3. Numbers(recs, "add") = {}
  BY <1>2, NumbersIn
<1>4. LogEdits(recs) = {2}
  BY <1>2 DEF LogEdits
<1>5. Max({2}) = 2
  BY DEF Max
<1> QED BY <1>1, <1>2, <1>3, <1>4, <1>5 DEF Replayed, LogEdits

-----------------------------------------------------------------------------
(* Type correctness *)

LEMMA RecordTypes ==
    /\ \A n \in Nat : Put(n) \in Record /\ Edit("last", n) \in Record
    /\ \A n \in 1..MaxNumber : Edit("add", n) \in Record /\ Edit("log", n) \in Record
    /\ FirstEdits \in Seq(Record) /\ Len(FirstEdits) = 3
    /\ Edit("name", 1) \in Record /\ Footer \in Record
<1>1. \A n \in Nat : Put(n) \in Record /\ Edit("last", n) \in Record
  BY DEF Record, Put, Edit
<1>2. \A n \in 1..MaxNumber : Edit("add", n) \in Record /\ Edit("log", n) \in Record
  BY DEF Record, Edit
<1>3. Edit("name", 1) \in Record /\ Footer \in Record /\ Edit("next", 2) \in Record
  BY DEF Record
<1>4. 1 \in 1..MaxNumber
  BY PowerLossAssumption
<1>5. FirstEdits \in Seq(Record) /\ Len(FirstEdits) = 3
  BY <1>1, <1>2, <1>3, <1>4 DEF FirstEdits
<1> QED BY <1>1, <1>2, <1>3, <1>5

LEMMA AppendSyncedIs ==
    ASSUME NEW f \in Systems, NEW name, NEW recs \in Seq(Record)
    PROVE  LET g == SyncAll(WriteAll(f, name, recs), name)
           IN  /\ Rewritten(f, g, f.dir[name], [data |-> Records(f, name) \o recs,
                                                safe |-> Records(f, name) \o recs])
               /\ g.disks = IF Journaled THEN {f.dir} ELSE f.disks
<1>1. PICK h, i : h = WriteAll(f, name, recs) /\ i = f.dir[name]
  OBVIOUS
<1>2. PICK new : new = Records(f, name) \o recs
  OBVIOUS
<1>3. Rewritten(f, h, i, [data |-> new, safe |-> FileOf(f, name).safe]) /\ h.disks = f.disks
  BY <1>1, <1>2, WriteAllIs
<1>4. h \in Systems /\ h.dir = f.dir
  BY <1>3 DEF Rewritten
<1>5. PICK g : g = SyncAll(h, name)
  OBVIOUS
<1>6. /\ Rewritten(h, g, i, [data |-> Records(h, name), safe |-> Records(h, name)])
      /\ g.disks = IF Journaled THEN {h.dir} ELSE h.disks
  BY <1>1, <1>4, <1>5, SyncAllIs
<1>7. i \in 1..Len(f.inodes) => Records(h, name) = new
  BY <1>1, <1>3 DEF Rewritten, Records
<1>8. Rewritten(f, g, i, [data |-> new, safe |-> new])
  BY <1>3, <1>6, <1>7 DEF Rewritten
<1> QED BY <1>1, <1>2, <1>3, <1>4, <1>5, <1>6, <1>8

LEMMA RecordsAfter ==
    ASSUME NEW f, FsType(f), NEW name \in Names, Exists(f, name),
           NEW g, NEW file, Rewritten(f, g, f.dir[name], file)
    PROVE  Exists(g, name) /\ FileOf(g, name) = file /\ Records(g, name) = file.data
BY DEF FsType, Rewritten, Exists, FileOf, Records

LEMMA RecordsType ==
    ASSUME NEW f, FsType(f), NEW name \in Names, Exists(f, name)
    PROVE  /\ f.dir[name] \in 1..Len(f.inodes) /\ FileOf(f, name) \in File
           /\ Records(f, name) \in Seq(Record)
           /\ FileOf(f, name) = [data |-> FileOf(f, name).data, safe |-> FileOf(f, name).safe]
<1>1. f.dir[name] \in 1..Len(f.inodes) /\ f \in Systems
  BY DEF FsType, Exists, Systems
<1> QED BY <1>1, InodeType DEF Records, FileOf, File

LEMMA PutsType == ASSUME NEW m \in Seq(Nat) PROVE Puts(m) \in Seq(Record)
<1>1. \A i \in 1..Len(m) : Put(m[i]) \in Record
  BY RecordTypes
<1> QED BY <1>1 DEF Puts

LEMMA BuiltType ==
    ASSUME NEW f, FsType(f), NEW name \in Names, NEW recs \in Seq(Record)
    PROVE  FsType(Built(f, name, recs))
BY OtherTypes DEF Built

LEMMA FsInit == ASSUME Init PROVE FsType(fs)
<1>1. fs = [dir |-> [n \in Names |-> 0], disks |-> {[n \in Names |-> 0]}, inodes |-> <<>>]
  BY DEF Init
<1>2. Temps \subseteq Names
  BY NameFacts
<1> QED BY <1>1, <1>2 DEF FsType, Systems

LEMMA FsStep ==
    ASSUME TypeInv, [Next]_vars PROVE FsType(fs')
<1>1. /\ FsType(fs) /\ ver.log \in 1..MaxNumber /\ num \in 0..MaxNumber /\ mem \in Seq(Nat)
      /\ ver.next \in Nat \ {0} /\ writes \in Nat
  BY DEF TypeInv, ProcessType
<1>2. /\ Wal(ver.log) \in Names /\ Manifest \in Names /\ CurrentTmp \in Temps /\ CurrentTmp \in Names
      /\ Current \in Names \ Temps
  BY <1>1, NameFacts
<1>3. \A e \in Record : FsType(LogEdit(e))
  <2>1. ASSUME NEW e \in Record PROVE FsType(LogEdit(e))
    <3>1. <<e>> \in Seq(Record)
      OBVIOUS
    <3>2. PICK recs : recs = <<e>>
      OBVIOUS
    <3> QED BY <1>1, <3>1, <3>2, OtherTypes DEF LogEdit
  <2> QED BY <2>1
<1>4. CASE UNCHANGED vars
  BY <1>1, <1>4 DEF vars
<1>5. CASE \/ CreateManifest \/ RenameCurrent \/ SyncCurrent \/ Recover \/ ReplayWal
  BY <1>1, <1>2, <1>5, OtherTypes, RenameType, OpenAppendType
     DEF CreateManifest, RenameCurrent, SyncCurrent, Recover, ReplayWal
<1>6. CASE AppendFirstEdit
  <2>1. PICK n : n = Len(Records(fs, Manifest)) + 1 /\ fs' = LogEdit(FirstEdits[n])
    BY <1>6 DEF AppendFirstEdit
  <2>2. Records(fs, Manifest) \in Seq(Record) /\ n <= 3
    BY <1>1, <1>2, <1>6, <2>1, RecordsType, RecordTypes DEF AppendFirstEdit, TypeInv, ProcessType
  <2>3. n \in 1..3
    BY <2>1, <2>2
  <2>4. FirstEdits[n] \in Record
    <3>1. PICK s \in Seq(Record) : s = FirstEdits /\ Len(s) = 3
      BY RecordTypes
    <3> QED BY <2>3, <3>1, SMTT(60), ZenonT(60)
  <2> QED BY <1>3, <2>1, <2>4
<1>7. CASE WriteCurrentTmp
  <2>1. PICK recs : recs = <<Edit("name", 1)>>
    OBVIOUS
  <2>2. recs \in Seq(Record) /\ fs' = SyncAll(WriteAll(OpenCreate(fs, CurrentTmp), CurrentTmp, recs), CurrentTmp)
    BY <1>7, <2>1, RecordTypes DEF WriteCurrentTmp, Named
  <2> QED BY <1>1, <1>2, <2>2, OtherTypes
<1>8. ASSUME NEW sync \in BOOLEAN, Write(sync) PROVE FsType(fs')
  <2>1. fs' = LogWrite(writes + 1, sync) /\ <<Put(writes + 1)>> \in Seq(Record)
    BY <1>1, <1>8, RecordTypes DEF Write
  <2> QED BY <1>1, <2>1, OtherTypes DEF LogWrite
<1>9. CASE \/ SyncWal \/ FlushRefused
  BY <1>1, <1>9, OtherTypes DEF SyncWal, FlushRefused
<1>10. CASE BuildTable
  <2>1. /\ fs' = Built(fs, TableTmp(ver.next), Puts(mem) \o <<Footer>>)
        /\ ver.next \in 1..MaxNumber
    <3>1. fs' = Built(fs, TableTmp(ver.next), Puts(mem) \o <<Footer>>)
      BY <1>10, Zenon DEF BuildTable, Puts
    <3> QED BY <1>1, <1>10, <3>1, PowerLossAssumption DEF BuildTable
  <2>2. Puts(mem) \o <<Footer>> \in Seq(Record)
    BY <1>1, PutsType, RecordTypes
  <2>3. TableTmp(ver.next) \in Names
    BY <2>1, NameFacts
  <2> QED BY <1>1, <2>1, <2>2, <2>3, BuiltType
<1>11. CASE PublishTable
  <2>1. num \in 1..MaxNumber /\ fs' = Rename(fs, TableTmp(num), Table(num))
    BY <1>1, <1>11 DEF PublishTable, Goto, TypeInv, ProcessType
  <2> QED BY <1>1, <2>1, NameFacts, RenameType
<1>12. CASE AddFile
  <2>1. num \in 1..MaxNumber /\ fs' = LogEdit(Edit("add", num))
    BY <1>1, <1>12 DEF AddFile, Goto, TypeInv, ProcessType
  <2> QED BY <1>3, <2>1, RecordTypes
<1>13. CASE LastSequence
  <2>1. Cardinality(order) \in Nat
    <3>1. IsFiniteSet(1..writes) /\ order \subseteq 1..writes
      BY <1>1, FS_Interval DEF TypeInv, ProcessType
    <3> QED BY <3>1, FS_Subset, FS_CardinalityType
  <2> QED BY <1>3, <1>13, <2>1, RecordTypes DEF LastSequence
<1>14. CASE CreateWal
  <2>1. Wal(ver.next) \in Names
    BY <1>1, <1>14, NameFacts DEF CreateWal
  <2> QED BY <1>1, <1>14, <2>1, OpenAppendType DEF CreateWal
<1>15. CASE LogNumber
  <2>1. num \in 1..MaxNumber /\ fs' = LogEdit(Edit("log", num))
    BY <1>1, <1>15 DEF LogNumber, Goto, TypeInv, ProcessType
  <2> QED BY <1>3, <2>1, RecordTypes
<1>16. CASE Crash \/ LosePower
  BY <1>1, <1>16, OtherTypes DEF Crash, LosePower
<1> QED BY <1>4, <1>5, <1>6, <1>7, <1>8, <1>9, <1>10, <1>11, <1>12, <1>13, <1>14, <1>15, <1>16
        DEF Next

LEMMA NextVersion ==
    ASSUME NEW v \in [files : SUBSET (1..MaxNumber), log : 1..MaxNumber, next : Nat \ {0}]
    PROVE  /\ [v EXCEPT !.next = @ + 1] \in
                [files : SUBSET (1..MaxNumber), log : 1..MaxNumber, next : Nat \ {0}]
           /\ [v EXCEPT !.next = @ + 1] = [files |-> v.files, log |-> v.log, next |-> v.next + 1]
<1>1. [v EXCEPT !.next = @ + 1] = [files |-> v.files, log |-> v.log, next |-> v.next + 1]
  OBVIOUS
<1>2. v.next + 1 \in Nat \ {0}
  OBVIOUS
<1> QED BY <1>1, <1>2

LEMMA EditIsApplied ==
    ASSUME NEW v \in [files : SUBSET (1..MaxNumber), log : 1..MaxNumber, next : Nat \ {0}],
           NEW n \in 1..MaxNumber
    PROVE  /\ ApplyEdit(v, Edit("add", n)) =
                [files |-> v.files \cup {n}, log |-> v.log, next |-> MaxOf(v.next, n + 1)]
           /\ ApplyEdit(v, Edit("log", n)) =
                [files |-> v.files, log |-> n, next |-> MaxOf(v.next, n + 1)]
           /\ \A e \in {Edit("add", n), Edit("log", n)} :
                ApplyEdit(v, e) \in
                  [files : SUBSET (1..MaxNumber), log : 1..MaxNumber, next : Nat \ {0}]
           /\ MaxOf(v.next, n + 1) > n /\ MaxOf(v.next, n + 1) >= v.next
<1>1. v = [files |-> v.files, log |-> v.log, next |-> v.next]
  OBVIOUS
<1>2. /\ Edit("add", n).kind = "add" /\ Edit("log", n).kind = "log"
      /\ Edit("add", n).n = n /\ Edit("log", n).n = n
  BY DEF Edit
<1>3. MaxOf(v.next, n + 1) \in Nat \ {0} /\ MaxOf(v.next, n + 1) > n /\ MaxOf(v.next, n + 1) >= v.next
  BY PowerLossAssumption DEF MaxOf
<1>4. PICK top : top = MaxOf(v.next, n + 1)
  OBVIOUS
<1>5. ApplyEdit(v, Edit("add", n)) = [files |-> v.files \cup {n}, log |-> v.log, next |-> top]
  BY <1>1, <1>2, <1>4 DEF ApplyEdit
<1>6. ApplyEdit(v, Edit("log", n)) = [files |-> v.files, log |-> n, next |-> top]
  BY <1>1, <1>2, <1>4 DEF ApplyEdit
<1> QED BY <1>3, <1>4, <1>5, <1>6

LEMMA ProcessStep ==
    ASSUME TypeInv, [Next]_vars, FsType(fs') PROVE ProcessType'
<1>0. PICK bound \in Nat : bound = MaxNumber
  BY PowerLossAssumption
<1>1. /\ FsType(fs) /\ ProcessType /\ Manifest \in Names
      /\ ver.next \in Nat \ {0} /\ writes \in Nat /\ MaxNumber \in Nat \ {0}
      /\ MaxWrites \in Nat /\ MaxFailures \in Nat /\ failures \in 0..MaxFailures
  BY NameFacts, PowerLossAssumption DEF TypeInv, ProcessType
<1>2. CASE UNCHANGED vars
  BY <1>1, <1>2 DEF vars, ProcessType, Exists, Records
<1>3. CASE CreateManifest
  <2>1. /\ Exists(fs', Manifest) /\ Records(fs', Manifest) = <<>>
    <3>1. fs' = OpenCreate(fs, Manifest)
      BY <1>3 DEF CreateManifest
    <3>2. CASE Exists(fs, Manifest)
      <4>1. Rewritten(fs, fs', fs.dir[Manifest], [data |-> <<>>, safe |-> FileOf(fs, Manifest).safe])
        BY <1>1, <3>1, <3>2, OpenCreateIs DEF FsType
      <4> QED BY <1>1, <3>2, <4>1, RecordsAfter
    <3>3. CASE ~Exists(fs, Manifest)
      <4>1. /\ fs'.inodes = Append(fs.inodes, Empty)
            /\ fs'.dir = With(fs.dir, Manifest, Len(fs.inodes) + 1)
        <5>1. fs \in Systems /\ fs' = OpenAppend(fs, Manifest)
          BY <1>1, <3>1, <3>3, OpenCreateIs DEF FsType
        <5>2. PICK g : g = OpenAppend(fs, Manifest)
          OBVIOUS
        <5>3. /\ g.inodes = Append(fs.inodes, Empty)
              /\ g.dir = With(fs.dir, Manifest, Len(fs.inodes) + 1)
          BY <1>1, <3>3, <5>1, <5>2, OpenAppendIs
        <5> QED BY <5>1, <5>2, <5>3
      <4>2. fs'.dir[Manifest] = Len(fs.inodes) + 1 /\ Len(fs.inodes) \in Nat
        BY <1>1, <4>1 DEF With, FsType, Systems
      <4>3. fs'.inodes[Len(fs.inodes) + 1] = Empty
        BY <1>1, <4>1 DEF FsType, Systems
      <4> QED BY <4>2, <4>3 DEF Exists, Records, Empty
    <3> QED BY <3>2, <3>3
  <2>2. Len(Records(fs', Manifest)) < Len(FirstEdits)
    BY <2>1, RecordTypes
  <2> QED BY <1>1, <1>3, <2>1, <2>2 DEF CreateManifest, Goto, ProcessType, process, ghosts, Creating
<1>4. CASE AppendFirstEdit
  <2>1. PICK n, e : /\ n = Len(Records(fs, Manifest)) + 1 /\ e = FirstEdits[n] /\ fs' = LogEdit(e)
                    /\ pc' = IF n = Len(FirstEdits) THEN "tmp" ELSE "edits"
    BY <1>4 DEF AppendFirstEdit
  <2>2. /\ Exists(fs, Manifest) /\ Records(fs, Manifest) \in Seq(Record) /\ n \in 1..3
    <3>1. Exists(fs, Manifest) /\ Len(Records(fs, Manifest)) < Len(FirstEdits)
      BY <1>1, <1>4 DEF AppendFirstEdit, ProcessType
    <3>2. PICK recs \in Seq(Record) : recs = Records(fs, Manifest)
      BY <1>1, <3>1, RecordsType
    <3>3. Len(recs) \in Nat /\ Len(recs) < 3
      BY <3>1, <3>2, RecordTypes
    <3> QED BY <2>1, <3>1, <3>2, <3>3
  <2>3. e \in Record /\ <<e>> \in Seq(Record)
    <3>1. PICK s \in Seq(Record) : s = FirstEdits /\ Len(s) = 3
      BY RecordTypes
    <3>2. s[n] \in Record
      BY <2>2, <3>1
    <3> QED BY <2>1, <3>1, <3>2
  <2>4. Exists(fs', Manifest) /\ Records(fs', Manifest) = Records(fs, Manifest) \o <<e>>
    <3>1. PICK recs : recs = <<e>>
      OBVIOUS
    <3>2. Rewritten(fs, fs', fs.dir[Manifest], [data |-> Records(fs, Manifest) \o recs,
                                                safe |-> Records(fs, Manifest) \o recs])
      BY <1>1, <2>1, <2>3, <3>1, AppendSyncedIs DEF LogEdit, FsType
    <3> QED BY <1>1, <2>2, <3>1, <3>2, RecordsAfter
  <2>5. Len(Records(fs', Manifest)) = n
    BY <2>1, <2>2, <2>3, <2>4
  <2> QED BY <1>1, <1>4, <2>1, <2>2, <2>4, <2>5, RecordTypes
          DEF AppendFirstEdit, ProcessType, process, ghosts, Creating
<1>5. CASE WriteCurrentTmp \/ RenameCurrent \/ PublishTable \/ LastSequence
  BY <1>1, <1>5 DEF WriteCurrentTmp, RenameCurrent, PublishTable, LastSequence, Goto, ProcessType,
                   process, ghosts, Creating, Opened, Running
<1>6. CASE SyncCurrent
  <2>1. NewVersions \in [files : SUBSET (1..MaxNumber), log : 1..MaxNumber, next : Nat \ {0}]
    BY <1>1 DEF NewVersions
  <2> QED BY <1>1, <1>6, <2>1 DEF SyncCurrent, Goto, ProcessType, ghosts, Opened, Creating
<1>7. CASE Recover
  <2>1. Records(fs, Manifest) \in Seq(Record)
    BY <1>1, <1>7, RecordsType DEF Recover, CanRecover
  <2>2. Replayed(fs) \in [files : SUBSET (1..MaxNumber), log : 1..MaxNumber, next : Nat \ {0}]
    BY <2>1, ReplayedType
  <2> QED BY <1>1, <1>7, <2>2 DEF Recover, Goto, ProcessType, ghosts, Opened, Creating
<1>8. CASE ReplayWal
  <2>1. mem' \in Seq(Nat)
    <3>1. Wal(ver.log) \in Names
      BY <1>1, NameFacts DEF ProcessType
    <3>2. CASE Exists(fs, Wal(ver.log))
      <4>1. PICK recs \in Seq(Record) : recs = Records(fs, Wal(ver.log))
        BY <1>1, <3>1, <3>2, RecordsType
      <4>2. \A i \in 1..Len(recs) : recs[i].n \in Nat
        BY RecordFacts
      <4>3. [i \in DOMAIN recs |-> recs[i].n] \in Seq(Nat)
        BY <4>2
      <4> QED BY <1>8, <3>2, <4>1, <4>3 DEF ReplayWal, Memtable
    <3> QED BY <1>8, <3>2 DEF ReplayWal, Memtable
  <2> QED BY <1>1, <1>8, <2>1 DEF ReplayWal, Goto, ProcessType, Opened, Running, Creating
<1>9. ASSUME NEW sync \in BOOLEAN, Write(sync) PROVE ProcessType'
  <2>1. /\ writes + 1 \in 1..MaxWrites /\ writes' = writes + 1
        /\ order' = order \cup {writes + 1} /\ synced' \in {synced, writes + 1}
    BY <1>1, <1>9 DEF Write
  <2>2. order \subseteq 1..writes /\ synced \in 0..writes
    BY <1>1 DEF ProcessType
  <2>3. order' \subseteq 1..writes' /\ synced' \in 0..writes' /\ writes' \in 0..MaxWrites
    BY <1>1, <2>1, <2>2
  <2>4. mem' \in Seq(Nat)
    BY <1>1, <1>9 DEF Write, ProcessType
  <2> QED BY <1>1, <1>9, <2>3, <2>4 DEF Write, ProcessType
<1>10. CASE SyncWal \/ FlushRefused
  <2>1. ver' = ver \/ ver' = [ver EXCEPT !.next = @ + 1]
    BY <1>10 DEF SyncWal, FlushRefused, process
  <2>2. ver' \in [files : SUBSET (1..MaxNumber), log : 1..MaxNumber, next : Nat \ {0}]
    BY <1>1, <2>1, NextVersion DEF ProcessType
  <2>3. synced' \in 0..writes' /\ pc' = "up" /\ mem' = mem /\ num' = num /\ order' = order
        /\ writes' = writes /\ failures' = failures
    BY <1>1, <1>10 DEF SyncWal, FlushRefused, process, ghosts, ProcessType
  <2> QED BY <1>1, <2>2, <2>3 DEF ProcessType, Opened, Running
<1>11. CASE BuildTable \/ CreateWal
  <2>1. ver.next \in 1..MaxNumber /\ num' = ver.next
    BY <1>0, <1>1, <1>11 DEF BuildTable, CreateWal
  <2>2. ver' \in [files : SUBSET (1..MaxNumber), log : 1..MaxNumber, next : Nat \ {0}]
    BY <1>1, <1>11, NextVersion DEF BuildTable, CreateWal, ProcessType
  <2> QED BY <1>1, <1>11, <2>1, <2>2 DEF BuildTable, CreateWal, Goto, ProcessType, ghosts,
                                     Creating, Opened, Running
<1>12. CASE AddFile \/ LogNumber
  <2>1. num \in 1..MaxNumber
    BY <1>1, <1>12 DEF AddFile, LogNumber, Goto, ProcessType
  <2>2. ASSUME NEW e, e \in {Edit("add", num), Edit("log", num)}
        PROVE  ApplyEdit(ver, e) \in [files : SUBSET (1..MaxNumber), log : 1..MaxNumber, next : Nat \ {0}]
    <3>1. ver \in [files : SUBSET (1..MaxNumber), log : 1..MaxNumber, next : Nat \ {0}]
      BY <1>1 DEF ProcessType
    <3> QED BY <2>1, <2>2, <3>1, EditIsApplied
  <2>3. ver' \in [files : SUBSET (1..MaxNumber), log : 1..MaxNumber, next : Nat \ {0}]
    BY <1>12, <2>2 DEF AddFile, LogNumber
  <2>4. /\ pc' \in {"last", "up"} /\ mem' \in Seq(Nat) /\ num' \in 0..MaxNumber /\ order' = order
        /\ writes' = writes /\ failures' = failures /\ synced' \in {synced, writes}
    <3>1. /\ pc' \in {"last", "up"} /\ mem' \in {mem, <<>>} /\ num' \in {num, 0} /\ order' = order
          /\ writes' = writes /\ failures' = failures /\ synced' \in {synced, writes}
      BY <1>12 DEF AddFile, LogNumber, Goto, ghosts
    <3>2. mem \in Seq(Nat) /\ <<>> \in Seq(Nat) /\ 0 \in 0..MaxNumber /\ num \in 0..MaxNumber
      BY <1>1 DEF ProcessType
    <3> QED BY <3>1, <3>2
  <2>5. synced' \in 0..writes'
    BY <1>1, <2>4 DEF ProcessType
  <2> QED BY <1>1, <2>3, <2>4, <2>5 DEF ProcessType, Opened, Running
<1>13. CASE Crash \/ LosePower
  <2>1. NewVersions \in [files : SUBSET (1..MaxNumber), log : 1..MaxNumber, next : Nat \ {0}]
    BY <1>1 DEF NewVersions
  <2>2. Stop /\ failures' \in 0..MaxFailures
    BY <1>1, <1>13 DEF Crash, LosePower, Stop
  <2> QED BY <1>1, <2>1, <2>2 DEF Stop, ProcessType, ghosts
<1> QED BY <1>2, <1>3, <1>4, <1>5, <1>6, <1>7, <1>8, <1>9, <1>10, <1>11, <1>12, <1>13 DEF Next

LEMMA TypeHolds == Spec => []TypeInv
<1>1. Init => TypeInv
  <2>1. ASSUME Init PROVE ProcessType
    <3>1. NewVersions \in [files : SUBSET (1..MaxNumber), log : 1..MaxNumber, next : Nat \ {0}]
      BY PowerLossAssumption DEF NewVersions
    <3> QED BY <2>1, <3>1, PowerLossAssumption DEF Init, ProcessType
  <2> QED BY <2>1, FsInit DEF TypeInv
<1>2. TypeInv /\ [Next]_vars => TypeInv'
  BY FsStep, ProcessStep DEF TypeInv
<1> QED BY <1>1, <1>2, PTL DEF Spec

\* On any file system, journaled or not, the directory refers to files there
\* are, no file has two names, and the counters stay in their bounds.
THEOREM TypeCorrect == Spec => []TypeOK
<1>1. TypeInv => TypeOK
  <2>1. ASSUME TypeInv PROVE TypeOK
    <3>1. \A d \in fs.disks : d \in [Names -> 0..Len(fs.inodes)]
      BY <2>1 DEF TypeInv, FsType, Systems
    <3>2. \A n, m \in Names : fs.dir[n] = fs.dir[m] /\ Exists(fs, n) => n = m
      BY <2>1 DEF TypeInv, FsType, Exists
    <3> QED BY <2>1, <3>1, <3>2 DEF TypeInv, FsType, ProcessType, TypeOK
  <2> QED BY <2>1
<1> QED BY <1>1, TypeHolds, PTL

-----------------------------------------------------------------------------
(* What the database is does not change where only other files do *)

LEMMA ReplayedSame ==
    ASSUME NEW f, NEW g, Records(g, Manifest) = Records(f, Manifest)
    PROVE  Replayed(g) = Replayed(f)
BY DEF Replayed

LEMMA TablesSame ==
    ASSUME NEW f, NEW g, Replayed(g).files = Replayed(f).files,
           \A n \in Replayed(f).files : Records(g, Table(n)) = Records(f, Table(n))
    PROVE  InTables(g) = InTables(f)
BY DEF InTables

LEMMA WritesInIs ==
    ASSUME NEW recs, NEW w
    PROVE  w \in WritesIn(recs) <=> \E i \in DOMAIN recs : recs[i].kind = "write" /\ recs[i].n = w
BY NumbersIn DEF WritesIn

LEMMA DiskType ==
    ASSUME NEW f, FsType(f), Exists(f, Manifest)
    PROVE  /\ Replayed(f).log \in 1..MaxNumber /\ Replayed(f).files \subseteq 1..MaxNumber
           /\ Replayed(f).log \in Nat
           /\ Wal(Replayed(f).log) \in Names \ Temps
           /\ \A n \in Replayed(f).files : Table(n) \in Names \ Temps
<1>1. Records(f, Manifest) \in Seq(Record)
  BY NameFacts, RecordsType
<1>2. Replayed(f).log \in 1..MaxNumber /\ Replayed(f).files \subseteq 1..MaxNumber
  BY <1>1, ReplayedType
<1> QED BY <1>2, NameFacts

LEMMA OnDiskAt ==
    ASSUME NEW f, NEW o, NEW s, OnDisk(f, o, s), NEW d \in f.disks, NEW w \in o, w <= s
    PROVE  /\ d[Current] # 0
           /\ \/ w \in InTables(f)
              \/ /\ d[Wal(Replayed(f).log)] # 0
                 /\ w \in WritesIn(FileOf(f, Wal(Replayed(f).log)).safe)
BY DEF OnDisk

\* Steps that create a file, or change one that the database does not have yet.
LEMMA Frame ==
    ASSUME NEW f, NEW g, NEW o, NEW s, FsType(f), FsType(g), DiskInv(f, o, s),
           \A n \in Names \ Temps : f.dir[n] # 0 =>
              g.dir[n] = f.dir[n] /\ (Exists(f, Current) => FileOf(g, n) = FileOf(f, n)),
           \A e \in g.disks :
              \/ \E d \in f.disks : \A n \in Names \ Temps : e[n] = d[n]
              \/ \A n \in Names \ Temps : e[n] = g.dir[n],
           g.dir[Current] = f.dir[Current],
           \A n \in 1..MaxNumber : f.dir[Wal(n)] = 0 /\ g.dir[Wal(n)] # 0 =>
              /\ Exists(f, Current) /\ n >= Replayed(f).log
              /\ FileOf(g, Wal(n)) = Empty
    PROVE  /\ DiskInv(g, o, s)
           /\ Exists(f, Current) =>
                 Replayed(g) = Replayed(f) /\ InTables(g) = InTables(f) /\ InLog(g) = InLog(f)
<1>1. /\ NamesStay(f) /\ CurrentFirst(f) /\ OnDisk(f, o, s)
      /\ Exists(f, Current) =>
           ManifestOnDisk(f) /\ TablesOnDisk(f) /\ LogsOnDisk(f) /\ InOrder(f, o)
      /\ f.dir \in f.disks
  BY DEF DiskInv, FsType
<1>2. NamesStay(g)
  BY <1>1 DEF NamesStay
<1>3. CurrentFirst(g)
  <2>1. ASSUME NEW e \in g.disks, e[Current] = 0, NEW n \in 1..MaxNumber PROVE e[Wal(n)] = 0
    <3>1. Wal(n) \in Names \ Temps /\ Current \in Names \ Temps
      BY NameFacts
    <3>2. CASE \E d \in f.disks : \A m \in Names \ Temps : e[m] = d[m]
      BY <1>1, <2>1, <3>1, <3>2 DEF CurrentFirst
    <3>3. CASE \A m \in Names \ Temps : e[m] = g.dir[m]
      BY <1>1, <2>1, <3>1, <3>3 DEF CurrentFirst, Exists
    <3> QED BY <3>2, <3>3
  <2> QED BY <2>1 DEF CurrentFirst
<1>4. CASE ~Exists(f, Current)
  <2>1. OnDisk(g, o, s)
    BY <1>1, <1>4 DEF OnDisk, Exists
  <2> QED BY <1>2, <1>3, <1>4, <2>1 DEF DiskInv, Exists
<1>5. CASE Exists(f, Current)
  <2>1. /\ Exists(f, Manifest)
        /\ \A n \in Names \ Temps : Exists(f, n) =>
              Exists(g, n) /\ FileOf(g, n) = FileOf(f, n) /\ Records(g, n) = Records(f, n)
    BY <1>1, <1>5 DEF ManifestOnDisk, Exists, FileOf, Records
  <2>2. Current \in Names \ Temps /\ Manifest \in Names \ Temps
    BY NameFacts
  <2>3. Replayed(g) = Replayed(f)
    BY <2>1, <2>2, ReplayedSame
  <2>4. PICK l, v : l = Wal(Replayed(f).log) /\ v = Replayed(f)
    OBVIOUS
  <2>5. l \in Names \ Temps /\ v.log \in 1..MaxNumber /\ \A n \in v.files : Table(n) \in Names \ Temps
    BY <2>1, <2>4, DiskType
  <2>6. \A n \in v.files : Exists(f, Table(n))
    BY <1>1, <1>5, <2>4 DEF TablesOnDisk, Complete
  <2>7. InTables(g) = InTables(f)
    BY <2>1, <2>3, <2>4, <2>5, <2>6, TablesSame
  <2>8. ~Exists(f, l) /\ Exists(g, l) => FileOf(g, l) = Empty /\ Records(g, l) = <<>>
    BY <2>4, <2>5 DEF Exists, Empty, Records, FileOf
  <2>9. WritesIn(<<>>) = {}
    BY WritesInIs
  <2>10. InLog(g) = InLog(f)
    <3>1. CASE Exists(f, l)
      BY <2>1, <2>3, <2>4, <2>5, <3>1 DEF InLog
    <3>2. CASE ~Exists(f, l)
      BY <2>3, <2>4, <2>8, <2>9, <3>2 DEF InLog
    <3> QED BY <3>1, <3>2
  <2>11. ManifestOnDisk(g)
    <3>1. \A e \in g.disks : e[Manifest] # 0
      BY <1>1, <1>5, <2>1, <2>2 DEF ManifestOnDisk, Exists
    <3> QED BY <1>1, <1>5, <2>1, <2>2, <3>1 DEF ManifestOnDisk
  <2>12. TablesOnDisk(g)
    <3>1. ASSUME NEW n \in v.files
          PROVE  /\ Complete(g, n) /\ Synced(FileOf(g, Table(n)))
                 /\ \A e \in g.disks : e[Table(n)] # 0
      <4>1. /\ Complete(f, n) /\ Synced(FileOf(f, Table(n)))
            /\ \A d \in f.disks : d[Table(n)] # 0
        BY <1>1, <1>5, <2>4 DEF TablesOnDisk
      <4>2. Exists(g, Table(n)) /\ FileOf(g, Table(n)) = FileOf(f, Table(n))
              /\ Records(g, Table(n)) = Records(f, Table(n))
        BY <2>1, <2>5, <2>6
      <4> QED BY <2>5, <4>1, <4>2 DEF Complete, Exists
    <3> QED BY <2>3, <2>4, <3>1 DEF TablesOnDisk
  <2>13. LogsOnDisk(g)
    <3>1. ASSUME NEW n \in 1..MaxNumber, n > v.log, Exists(g, Wal(n)) PROVE FileOf(g, Wal(n)) = Empty
      <4>1. Wal(n) \in Names \ Temps
        BY NameFacts
      <4>2. CASE Exists(f, Wal(n))
        BY <1>1, <1>5, <2>1, <2>4, <3>1, <4>1, <4>2 DEF LogsOnDisk, Empty
      <4>3. CASE ~Exists(f, Wal(n))
        BY <3>1, <4>3 DEF Exists
      <4> QED BY <4>2, <4>3
    <3>2. ASSUME Exists(g, l)
          PROVE  /\ IsPrefix(FileOf(g, l).safe, FileOf(g, l).data)
                 /\ \A i \in DOMAIN FileOf(g, l).data : FileOf(g, l).data[i].kind = "write"
      <4>1. CASE Exists(f, l)
        BY <1>1, <1>5, <2>1, <2>4, <2>5, <4>1 DEF LogsOnDisk
      <4>2. CASE ~Exists(f, l)
        <5>1. FileOf(g, l).safe = <<>> /\ FileOf(g, l).data = <<>>
          BY <2>8, <3>2, <4>2 DEF Empty
        <5> QED BY <5>1 DEF IsPrefix
      <4> QED BY <4>1, <4>2
    <3> QED BY <2>3, <2>4, <3>1, <3>2 DEF LogsOnDisk, Empty
  <2>14. InOrder(g, o)
    <3>1. CASE Exists(f, l)
      BY <1>1, <1>5, <2>1, <2>3, <2>4, <2>5, <2>7, <2>10, <3>1 DEF InOrder
    <3>2. CASE ~Exists(f, l)
      BY <1>1, <1>5, <2>3, <2>4, <2>7, <2>8, <2>10, <3>2 DEF InOrder
    <3> QED BY <3>1, <3>2
  <2>15. OnDisk(g, o, s)
    <3>1. ASSUME NEW e \in g.disks, NEW w \in o, w <= s
          PROVE  /\ e[Current] # 0
                 /\ w \in InTables(f) \/ (e[l] # 0 /\ w \in WritesIn(FileOf(g, l).safe))
      <4>1. PICK d \in f.disks : d[Current] = e[Current] /\ (d[l] # 0 => e[l] = d[l])
        BY <1>1, <2>2, <2>5
      <4>2. /\ d[Current] # 0
            /\ w \in InTables(f) \/ (d[l] # 0 /\ w \in WritesIn(FileOf(f, l).safe))
        <5>1. /\ d[Current] # 0
              /\ \/ w \in InTables(f)
                 \/ /\ d[Wal(Replayed(f).log)] # 0
                    /\ w \in WritesIn(FileOf(f, Wal(Replayed(f).log)).safe)
          BY <1>1, <3>1, OnDiskAt
        <5> QED BY <2>4, <5>1
      <4>3. d[l] # 0 => Exists(f, l)
        BY <1>1, <2>5 DEF NamesStay, Exists
      <4>4. d[l] # 0 => e[l] # 0 /\ FileOf(g, l).safe = FileOf(f, l).safe
        BY <2>1, <2>5, <4>1, <4>3
      <4> QED BY <4>1, <4>2, <4>4
    <3> QED BY <2>3, <2>4, <2>7, <3>1 DEF OnDisk
  <2> QED BY <1>2, <1>3, <1>5, <2>3, <2>7, <2>10, <2>11, <2>12, <2>13, <2>14, <2>15 DEF DiskInv
<1> QED BY <1>4, <1>5

-----------------------------------------------------------------------------
(* Steps that change the database *)

\* A file that is not rewritten stays as it is.
LEMMA OthersKept ==
    ASSUME NEW f, FsType(f), NEW name \in Names, Exists(f, name),
           NEW g, NEW file, Rewritten(f, g, f.dir[name], file),
           NEW n \in Names, n # name
    PROVE  /\ g.dir = f.dir /\ (Exists(g, n) <=> Exists(f, n))
           /\ Exists(f, n) => FileOf(g, n) = FileOf(f, n) /\ Records(g, n) = Records(f, n)
<1>1. f.dir \in f.disks /\ f.dir[n] \in 0..Len(f.inodes)
  BY DEF FsType
<1>2. Exists(f, n) => f.dir[n] # f.dir[name] /\ f.dir[n] \in 1..Len(f.inodes)
  BY <1>1 DEF FsType, Exists
<1> QED BY <1>2 DEF Rewritten, Exists, FileOf, Records

LEMMA PrefixIs ==
    ASSUME NEW S, NEW p \in Seq(S), NEW q \in Seq(S)
    PROVE  IsPrefix(p, q) <=> Len(p) <= Len(q) /\ \A i \in 1..Len(p) : p[i] = q[i]
<1>1. SubSeq(p, 1, Len(p)) = p
  OBVIOUS
<1>2. ASSUME Len(p) <= Len(q), SubSeq(p, 1, Len(p)) = SubSeq(q, 1, Len(p)), NEW i \in 1..Len(p)
      PROVE  p[i] = q[i]
  <2>1. SubSeq(q, 1, Len(p))[i] = q[i]
    BY <1>2
  <2> QED BY <1>1, <1>2, <2>1
<1>3. ASSUME Len(p) <= Len(q), \A i \in 1..Len(p) : p[i] = q[i]
      PROVE  SubSeq(q, 1, Len(p)) = p
  BY <1>3
<1> QED BY <1>1, <1>2, <1>3 DEF IsPrefix

\* The record of w, if any, is appended to the log l, which may be synced.
LogWritten(f, g, o, s, t, l, file, w, tail) ==
    /\ FsType(f) /\ FsType(g) /\ DiskInv(f, o, s) /\ Exists(f, Current)
    /\ l = Wal(Replayed(f).log) /\ Exists(f, l) /\ o \subseteq InTables(f) \cup InLog(f)
    /\ file \in File /\ Rewritten(f, g, f.dir[l], file)
    /\ w \in Nat /\ o \subseteq Nat /\ \A v \in o : v < w
    /\ \/ file.data = Records(f, l) /\ tail = {}
       \/ file.data = Records(f, l) \o <<Put(w)>> /\ tail = {w}
    /\ \/ g.disks = f.disks /\ file.safe = FileOf(f, l).safe /\ t = s /\ \A v \in tail : ~(v <= s)
       \/ g.disks = {f.dir} /\ file.safe = file.data

LEMMA WalStep ==
    ASSUME NEW f, NEW g, NEW o, NEW s, NEW t, NEW l, NEW file, NEW w, NEW tail,
           LogWritten(f, g, o, s, t, l, file, w, tail)
    PROVE  /\ DiskInv(g, o \cup tail, t)
           /\ Replayed(g) = Replayed(f) /\ InTables(g) = InTables(f)
           /\ \A x : x \in InLog(f) \/ x \in tail => x \in InLog(g)
<1> USE DEF LogWritten
<1>1. /\ NamesStay(f) /\ CurrentFirst(f) /\ OnDisk(f, o, s)
      /\ ManifestOnDisk(f) /\ TablesOnDisk(f) /\ LogsOnDisk(f) /\ InOrder(f, o)
      /\ f.dir \in f.disks /\ g.dir = f.dir /\ \A e \in g.disks : e \in f.disks
  BY DEF DiskInv, FsType, Rewritten
<1>2. PICK v : v = Replayed(f)
  OBVIOUS
<1>3. /\ l = Wal(v.log) /\ l \in Names \ Temps /\ v.log \in 1..MaxNumber
      /\ \A n \in v.files : Table(n) \in Names \ Temps /\ Table(n) # l /\ Exists(f, Table(n))
      /\ Current \in Names /\ Manifest \in Names /\ Current # l /\ Manifest # l
      /\ Exists(f, Manifest)
  <2>1. Exists(f, Manifest) /\ l = Wal(v.log)
    BY <1>1, <1>2 DEF ManifestOnDisk
  <2>2. l \in Names \ Temps /\ v.log \in 1..MaxNumber /\ \A n \in v.files : Table(n) \in Names \ Temps
    BY <1>2, <2>1, DiskType
  <2>3. \A n \in v.files : Exists(f, Table(n))
    BY <1>1, <1>2 DEF TablesOnDisk, Complete
  <2> QED BY <2>1, <2>2, <2>3, NameFacts, NamesDiffer
<1>4. \A n \in Names : n # l =>
        /\ (Exists(g, n) <=> Exists(f, n))
        /\ Exists(f, n) => FileOf(g, n) = FileOf(f, n) /\ Records(g, n) = Records(f, n)
  <2>1. ASSUME NEW n \in Names, n # l
        PROVE  /\ (Exists(g, n) <=> Exists(f, n))
               /\ Exists(f, n) => FileOf(g, n) = FileOf(f, n) /\ Records(g, n) = Records(f, n)
    <3>1. l \in Names
      BY <1>3
    <3> QED BY <2>1, <3>1, OthersKept
  <2> QED BY <2>1
<1>5. Exists(g, l) /\ FileOf(g, l) = file /\ Records(g, l) = file.data
  BY <1>3, RecordsAfter
<1>6. Replayed(g) = v
  BY <1>2, <1>3, <1>4, ReplayedSame
<1>7. InTables(g) = InTables(f)
  BY <1>2, <1>3, <1>4, <1>6, TablesSame
<1>8. PICK recs \in Seq(Record) : recs = Records(f, l) /\ FileOf(f, l).data = recs
  BY <1>3, RecordsType DEF Records, FileOf
<1>9. PICK new \in Seq(Record) : new = file.data
  BY DEF File
<1>10. /\ Len(recs) <= Len(new)
       /\ \A i \in 1..Len(recs) : new[i] = recs[i]
       /\ \A i \in 1..Len(new) : i \in 1..Len(recs) \/ (i = Len(recs) + 1 /\ tail = {w} /\ new[i] = Put(w))
       /\ tail = {} \/ (tail = {w} /\ \E i \in 1..Len(new) : new[i] = Put(w))
  <2>1. CASE new = recs /\ tail = {}
    BY <2>1
  <2>2. CASE new = recs \o <<Put(w)>> /\ tail = {w}
    <3>1. Put(w) \in Record
      BY RecordTypes
    <3>2. PICK r \in Record : r = Put(w)
      BY <3>1
    <3>3. /\ Len(new) = Len(recs) + 1 /\ new[Len(recs) + 1] = r
          /\ \A i \in 1..Len(recs) : new[i] = recs[i]
      BY <2>2, <3>2
    <3> QED BY <2>2, <3>2, <3>3
  <2> QED BY <1>8, <1>9, <2>1, <2>2
<1>11. Put(w).kind = "write" /\ Put(w).n = w
  BY DEF Put
<1>12. \A i \in 1..Len(recs) : recs[i].kind = "write" /\ recs[i].n \in o
  <2>1. \A i \in 1..Len(recs) : recs[i].kind = "write"
    BY <1>1, <1>2, <1>3, <1>8 DEF LogsOnDisk
  <2>2. \A i \in 1..Len(recs) : recs[i].n \in WritesIn(recs)
    BY <2>1, WritesInIs
  <2>3. InLog(f) = WritesIn(recs)
    BY <1>2, <1>3, <1>8 DEF InLog
  <2> QED BY <1>1, <2>1, <2>2, <2>3 DEF InOrder
<1>13. InLog(f) = WritesIn(recs) /\ InLog(g) = WritesIn(new)
  BY <1>2, <1>3, <1>5, <1>6, <1>8, <1>9 DEF InLog
<1>14. WritesIn(new) = WritesIn(recs) \cup tail
  <2>1. ASSUME NEW x \in WritesIn(new) PROVE x \in WritesIn(recs) \cup tail
    <3>1. PICK i \in 1..Len(new) : new[i].kind = "write" /\ new[i].n = x
      BY <2>1, WritesInIs
    <3> QED BY <1>10, <1>11, <3>1, WritesInIs
  <2>2. ASSUME NEW x \in WritesIn(recs) PROVE x \in WritesIn(new)
    <3>1. PICK i \in 1..Len(recs) : recs[i].kind = "write" /\ recs[i].n = x
      BY <2>2, WritesInIs
    <3>2. i \in 1..Len(new) /\ new[i] = recs[i]
      BY <1>10
    <3> QED BY <3>1, <3>2, WritesInIs
  <2>3. ASSUME NEW x \in tail PROVE x \in WritesIn(new)
    BY <1>10, <1>11, <2>3, WritesInIs
  <2> QED BY <2>1, <2>2, <2>3
<1>15. ManifestOnDisk(g) /\ TablesOnDisk(g) /\ NamesStay(g) /\ CurrentFirst(g)
  <2>1. ManifestOnDisk(g)
    BY <1>1, <1>3, <1>4 DEF ManifestOnDisk
  <2>2. TablesOnDisk(g)
    BY <1>1, <1>2, <1>3, <1>4, <1>6 DEF TablesOnDisk, Complete
  <2> QED BY <1>1, <2>1, <2>2 DEF NamesStay, CurrentFirst
<1>16. LogsOnDisk(g)
  <2>1. ASSUME NEW n \in 1..MaxNumber, n > v.log, Exists(g, Wal(n)) PROVE FileOf(g, Wal(n)) = Empty
    <3>1. Wal(n) # l /\ Wal(n) \in Names
      BY <1>3, <2>1, NamesDiffer, NameFacts
    <3> QED BY <1>1, <1>2, <1>4, <2>1, <3>1 DEF LogsOnDisk, Empty
  <2>2. IsPrefix(file.safe, new)
    <3>1. CASE file.safe = file.data
      BY <1>9, <3>1, PrefixIs
    <3>2. CASE file.safe = FileOf(f, l).safe
      <4>1. PICK safe \in Seq(Record) : safe = file.safe
        BY DEF File
      <4>2. IsPrefix(safe, recs)
        BY <1>1, <1>2, <1>3, <1>8, <3>2, <4>1 DEF LogsOnDisk
      <4>3. Len(safe) <= Len(recs) /\ \A i \in 1..Len(safe) : safe[i] = recs[i]
        BY <4>2, PrefixIs
      <4>4. Len(safe) <= Len(new) /\ \A i \in 1..Len(safe) : safe[i] = new[i]
        BY <1>10, <4>3
      <4> QED BY <4>1, <4>4, PrefixIs
    <3> QED BY <3>1, <3>2
  <2>3. \A i \in 1..Len(new) : new[i].kind = "write"
    BY <1>10, <1>11, <1>12
  <2> QED BY <1>3, <1>5, <1>6, <1>9, <2>1, <2>2, <2>3 DEF LogsOnDisk, Empty
<1>17. InOrder(g, o \cup tail)
  <2>1. \A x \in tail : x = w
    BY <1>10
  <2>2. InTables(f) \subseteq o
    BY <1>1 DEF InOrder
  <2>3. InTables(g) \subseteq o \cup tail /\ InLog(g) \subseteq o \cup tail
    BY <1>1, <1>7, <1>13, <1>14, <2>2 DEF InOrder
  <2>4. ASSUME NEW x \in o \cup tail, NEW y \in o \cup tail, x < y, y \in InTables(f)
        PROVE  x \in InTables(f)
    <3>1. y \in o /\ y < w /\ x \in Nat /\ y \in Nat
      BY <2>1, <2>2, <2>4
    <3>2. x \in o
      BY <2>1, <2>4, <3>1
    <3> QED BY <1>1, <2>4, <3>1, <3>2 DEF InOrder
  <2>5. ASSUME NEW i \in 1..Len(new), NEW x \in o \cup tail, x < new[i].n
        PROVE  x \in InTables(f) \/ \E j \in 1..i : new[j].n = x
    <3>1. CASE i \in 1..Len(recs)
      <4>1. new[i] = recs[i] /\ recs[i].n \in o /\ recs[i].n < w /\ recs[i].n \in Nat /\ x \in Nat
        BY <1>10, <1>12, <2>1, <3>1
      <4>2. x \in o
        BY <2>1, <2>5, <4>1
      <4>3. x \in InTables(f) \/ \E j \in 1..i : recs[j].n = x
        <5>1. \A k \in DOMAIN recs : \A u \in o :
                 u < recs[k].n => u \in InTables(f) \/ \E j \in 1..k : recs[j].n = u
          <6>1. InOrder(f, o) /\ Exists(f, Wal(Replayed(f).log))
                  /\ recs = Records(f, Wal(Replayed(f).log))
            BY <1>1, <1>8
          <6> HIDE DEF LogWritten
          <6> QED BY <6>1 DEF InOrder
        <5> QED BY <2>5, <3>1, <4>1, <4>2, <5>1
      <4>4. \A j \in 1..i : new[j] = recs[j]
        BY <1>10, <3>1
      <4> QED BY <4>3, <4>4
    <3>2. CASE i = Len(recs) + 1 /\ tail = {w} /\ new[i] = Put(w)
      <4>1. x \in o
        BY <1>11, <2>1, <2>5, <3>2
      <4>2. CASE x \in InLog(f)
        <5>1. PICK j \in 1..Len(recs) : recs[j].n = x
          BY <1>13, <4>2, WritesInIs
        <5>2. j \in 1..i /\ new[j] = recs[j]
          BY <1>10, <3>2, <5>1
        <5> QED BY <5>1, <5>2
      <4> QED BY <4>1, <4>2
    <3> QED BY <1>10, <3>1, <3>2
  <2>6. Records(g, Wal(Replayed(g).log)) = new /\ DOMAIN new = 1..Len(new)
    BY <1>3, <1>5, <1>6, <1>9
  <2> QED BY <1>7, <2>3, <2>4, <2>5, <2>6 DEF InOrder
<1>18. OnDisk(g, o \cup tail, t)
  <2>1. ASSUME NEW d \in g.disks, NEW x \in o \cup tail, x <= t
        PROVE  /\ d[Current] # 0
               /\ x \in InTables(f) \/ (d[l] # 0 /\ x \in WritesIn(file.safe))
    <3>1. CASE g.disks = f.disks /\ file.safe = FileOf(f, l).safe /\ t = s /\ \A y \in tail : ~(y <= s)
      <4>1. x \in o /\ x <= s
        BY <2>1, <3>1
      <4>2. /\ d[Current] # 0
            /\ \/ x \in InTables(f)
               \/ /\ d[Wal(Replayed(f).log)] # 0
                  /\ x \in WritesIn(FileOf(f, Wal(Replayed(f).log)).safe)
        BY <1>1, <3>1, <4>1, OnDiskAt
      <4> QED BY <1>2, <1>3, <3>1, <4>2
    <3>2. CASE g.disks = {f.dir} /\ file.safe = file.data
      BY <1>9, <1>13, <1>14, <2>1, <3>2 DEF Exists
    <3> QED BY <3>1, <3>2
  <2> QED BY <1>3, <1>5, <1>6, <1>7, <2>1 DEF OnDisk
<1> QED BY <1>2, <1>6, <1>7, <1>13, <1>14, <1>15, <1>16, <1>17, <1>18 DEF DiskInv

\* The edit e is appended to the manifest, and the manifest synced.
EditWritten(f, g, e) ==
    /\ g.disks = {f.dir}
    /\ \E file : /\ Rewritten(f, g, f.dir[Manifest], file)
                 /\ file.data = Records(f, Manifest) \o <<e>> /\ file.safe = file.data

EditDone(f, g, e) ==
    /\ g.dir = f.dir
    /\ \A n \in Names \ {Manifest} :
         /\ (Exists(g, n) <=> Exists(f, n))
         /\ Exists(f, n) => FileOf(g, n) = FileOf(f, n) /\ Records(g, n) = Records(f, n)
    /\ Replayed(g).files = (IF e.kind = "add" THEN Replayed(f).files \cup {e.n}
                            ELSE Replayed(f).files)
    /\ Replayed(g).log = (IF e.kind = "log" THEN e.n ELSE Replayed(f).log)
    /\ Exists(f, Manifest) /\ NamesStay(g) /\ CurrentFirst(g) /\ ManifestOnDisk(g)

LEMMA EditLogged ==
    ASSUME NEW f, NEW g, NEW o, NEW s, FsType(f), FsType(g), DiskInv(f, o, s), Exists(f, Current),
           NEW e \in Record, EditWritten(f, g, e)
    PROVE  EditDone(f, g, e)
<1>0. PICK file : /\ Rewritten(f, g, f.dir[Manifest], file)
                  /\ file.data = Records(f, Manifest) \o <<e>> /\ file.safe = file.data
                  /\ g.disks = {f.dir}
  BY DEF EditWritten
<1>1. /\ CurrentFirst(f) /\ ManifestOnDisk(f) /\ f.dir \in f.disks /\ g.dir = f.dir
  BY <1>0 DEF DiskInv, FsType, Rewritten
<1>2. Exists(f, Manifest) /\ Manifest \in Names /\ Current \in Names /\ Current # Manifest
  BY <1>1, NameFacts, NamesDiffer DEF ManifestOnDisk
<1>3. ASSUME NEW n \in Names \ {Manifest}
      PROVE  /\ (Exists(g, n) <=> Exists(f, n))
             /\ Exists(f, n) => FileOf(g, n) = FileOf(f, n) /\ Records(g, n) = Records(f, n)
  <2>1. n \in Names /\ n # Manifest
    OBVIOUS
  <2> QED BY <1>0, <1>2, <2>1, OthersKept
<1>4. Exists(g, Manifest) /\ FileOf(g, Manifest) = file /\ Records(g, Manifest) = file.data
  <2>1. PICK m \in Names : m = Manifest
    BY <1>2
  <2>2. Exists(f, m) /\ Rewritten(f, g, f.dir[m], file)
    BY <1>0, <1>2, <2>1
  <2>3. Exists(g, m) /\ FileOf(g, m) = file
    BY <2>2, RecordsAfter
  <2> QED BY <2>1, <2>3 DEF FileOf, Records
<1>5. PICK recs \in Seq(Record) : recs = Records(f, Manifest)
  BY <1>2, RecordsType
<1>6. /\ Replayed(g).files = (IF e.kind = "add" THEN Replayed(f).files \cup {e.n}
                              ELSE Replayed(f).files)
      /\ Replayed(g).log = (IF e.kind = "log" THEN e.n ELSE Replayed(f).log)
  <2>1. Records(g, Manifest) = recs \o <<e>>
    BY <1>0, <1>4, <1>5
  <2> QED BY <1>5, <2>1, ReplayedAppend
<1>7. NamesStay(g) /\ CurrentFirst(g)
  BY <1>0, <1>1 DEF NamesStay, CurrentFirst
<1>8. ManifestOnDisk(g)
  <2>1. Synced(FileOf(g, Manifest))
    BY <1>0, <1>4 DEF Synced
  <2>2. Synced(FileOf(g, Current)) /\ Records(g, Current) # <<>>
    BY <1>1, <1>2, <1>3 DEF ManifestOnDisk
  <2> QED BY <1>0, <1>1, <1>2, <1>4, <2>1, <2>2 DEF ManifestOnDisk, Exists
<1> QED BY <1>1, <1>2, <1>3, <1>6, <1>7, <1>8 DEF EditDone

LEMMA PutsAre ==
    ASSUME NEW m \in Seq(Nat)
    PROVE  /\ \A i \in DOMAIN Puts(m) : Puts(m)[i].kind = "write"
           /\ WritesIn(Puts(m) \o <<Footer>>) = WritesIn(Puts(m))
           /\ Contains(Puts(m) \o <<Footer>>, Footer)
<1>1. PICK p \in Seq(Record) : p = Puts(m)
  BY PutsType
<1>2. PICK r \in Record : r = Footer /\ r.kind # "write"
  BY RecordTypes DEF Footer
<1>3. \A i \in DOMAIN p : p[i].kind = "write"
  BY <1>1 DEF Puts, Put
<1>4. PICK q \in Seq(Record) : q = p \o <<r>>
  <2>1. <<r>> \in Seq(Record)
    OBVIOUS
  <2>2. p \o <<r>> \in Seq(Record)
    BY <2>1
  <2> QED BY <2>2
<1>5. /\ Len(q) = Len(p) + 1 /\ q[Len(p) + 1] = r
      /\ \A i \in 1..Len(p) : q[i] = p[i]
  BY <1>4
<1>6. \A x : x \in WritesIn(q) <=> x \in WritesIn(p)
  <2>1. ASSUME NEW x, x \in WritesIn(q) PROVE x \in WritesIn(p)
    <3>1. PICK i \in 1..Len(q) : q[i].kind = "write" /\ q[i].n = x
      BY <2>1, WritesInIs
    <3>2. i \in 1..Len(p) /\ p[i] = q[i]
      BY <1>2, <1>5, <3>1
    <3> QED BY <3>1, <3>2, WritesInIs
  <2>2. ASSUME NEW x, x \in WritesIn(p) PROVE x \in WritesIn(q)
    <3>1. PICK i \in 1..Len(p) : p[i].kind = "write" /\ p[i].n = x
      BY <2>2, WritesInIs
    <3>2. i \in 1..Len(q) /\ p[i] = q[i]
      BY <1>5, <3>1
    <3> QED BY <3>1, <3>2, WritesInIs
  <2> QED BY <2>1, <2>2
<1>7. Contains(q, r)
  <2>1. Len(p) + 1 \in 1..Len(q)
    BY <1>5
  <2> QED BY <1>5, <2>1 DEF Contains
<1> QED BY <1>1, <1>2, <1>3, <1>4, <1>6, <1>7

\* LastSequence
LEMMA LastEdit ==
    ASSUME NEW f, NEW g, NEW o, NEW s, FsType(f), FsType(g), DiskInv(f, o, s), Exists(f, Current),
           NEW e \in Record, EditWritten(f, g, e), e.kind = "last"
    PROVE  /\ DiskInv(g, o, s)
           /\ InTables(g) = InTables(f) /\ InLog(g) = InLog(f)
<1>1. /\ OnDisk(f, o, s) /\ TablesOnDisk(f) /\ LogsOnDisk(f) /\ InOrder(f, o)
      /\ f.dir \in f.disks
  BY DEF DiskInv, FsType
<1>2. /\ g.dir = f.dir /\ g.disks = {f.dir}
      /\ \A n \in Names \ {Manifest} :
           /\ (Exists(g, n) <=> Exists(f, n))
           /\ Exists(f, n) => FileOf(g, n) = FileOf(f, n) /\ Records(g, n) = Records(f, n)
      /\ Replayed(g).files = Replayed(f).files /\ Replayed(g).log = Replayed(f).log
      /\ Exists(f, Manifest) /\ NamesStay(g) /\ CurrentFirst(g) /\ ManifestOnDisk(g)
  <2>1. EditDone(f, g, e) /\ g.disks = {f.dir}
    BY EditLogged DEF EditWritten
  <2> QED BY <2>1 DEF EditDone
<1>3. PICK v, l : v = Replayed(f) /\ l = Wal(v.log)
  OBVIOUS
<1>4. /\ l \in Names \ {Manifest}
      /\ \A n \in v.files : Table(n) \in Names \ {Manifest} /\ Exists(f, Table(n))
  <2>1. \A n \in v.files : Exists(f, Table(n))
    BY <1>1, <1>3 DEF TablesOnDisk, Complete
  <2> QED BY <1>2, <1>3, <2>1, DiskType, NamesDiffer
<1>5. InTables(g) = InTables(f)
  BY <1>2, <1>3, <1>4, TablesSame
<1>6. InLog(g) = InLog(f)
  BY <1>2, <1>3, <1>4 DEF InLog
<1>7. TablesOnDisk(g)
  <2>1. ASSUME NEW n \in v.files
        PROVE  /\ Complete(g, n) /\ Synced(FileOf(g, Table(n)))
               /\ \A d \in g.disks : d[Table(n)] # 0
    <3>1. Complete(f, n) /\ Synced(FileOf(f, Table(n)))
      BY <1>1, <1>3 DEF TablesOnDisk
    <3> QED BY <1>2, <1>4, <3>1 DEF Complete, Exists
  <2> QED BY <1>2, <1>3, <2>1 DEF TablesOnDisk
<1>8. LogsOnDisk(g)
  <2>1. \A n \in 1..MaxNumber : Wal(n) \in Names \ {Manifest}
    BY NameFacts, NamesDiffer
  <2> QED BY <1>1, <1>2, <1>3, <1>4, <2>1 DEF LogsOnDisk
<1>9. InOrder(g, o)
  <2>1. Replayed(g).log = v.log /\ (Exists(g, l) <=> Exists(f, l))
          /\ (Exists(f, l) => Records(g, l) = Records(f, l))
    BY <1>2, <1>3, <1>4
  <2>2. /\ InTables(f) \subseteq o /\ InLog(f) \subseteq o
        /\ \A x, w \in o : x < w /\ w \in InTables(f) => x \in InTables(f)
        /\ Exists(f, l) =>
              \A i \in DOMAIN Records(f, l) : \A x \in o :
                 x < Records(f, l)[i].n =>
                    x \in InTables(f) \/ \E j \in 1..i : Records(f, l)[j].n = x
    BY <1>1, <1>3 DEF InOrder
  <2> QED BY <1>3, <1>5, <1>6, <2>1, <2>2 DEF InOrder
<1>10. OnDisk(g, o, s)
  <2>1. ASSUME NEW d \in g.disks, NEW w \in o, w <= s
        PROVE  /\ d[Current] # 0
               /\ w \in InTables(f) \/ (d[l] # 0 /\ w \in WritesIn(FileOf(g, l).safe))
    <3>1. d \in f.disks /\ d = f.dir
      BY <1>1, <1>2
    <3>2. /\ d[Current] # 0
          /\ \/ w \in InTables(f)
             \/ /\ d[Wal(Replayed(f).log)] # 0
                /\ w \in WritesIn(FileOf(f, Wal(Replayed(f).log)).safe)
      BY <1>1, <2>1, <3>1, OnDiskAt
    <3> QED BY <1>2, <1>3, <1>4, <3>1, <3>2 DEF Exists
  <2> QED BY <1>2, <1>3, <1>5, <2>1 DEF OnDisk
<1> QED BY <1>2, <1>5, <1>6, <1>7, <1>8, <1>9, <1>10 DEF DiskInv

\* AddFile: the table has what the log has, so the tables have it all.
LEMMA AddEdit ==
    ASSUME NEW f, NEW g, NEW o, NEW s, FsType(f), FsType(g), DiskInv(f, o, s), Exists(f, Current),
           NEW e \in Record, EditWritten(f, g, e), e.kind = "add",
           NEW m \in Seq(Nat), Exists(f, Table(e.n)), Synced(FileOf(f, Table(e.n))),
           Records(f, Table(e.n)) = Puts(m) \o <<Footer>>,
           Exists(f, Wal(Replayed(f).log)), Records(f, Wal(Replayed(f).log)) = Puts(m),
           o \subseteq InTables(f) \cup InLog(f)
    PROVE  DiskInv(g, o, s) /\ InTables(g) = o /\ InLog(g) = InLog(f)
<1>1. OnDisk(f, o, s) /\ TablesOnDisk(f) /\ LogsOnDisk(f) /\ InOrder(f, o)
  BY DEF DiskInv
<1>2. /\ g.dir = f.dir /\ g.disks = {f.dir}
      /\ \A n \in Names \ {Manifest} :
           /\ (Exists(g, n) <=> Exists(f, n))
           /\ Exists(f, n) => FileOf(g, n) = FileOf(f, n) /\ Records(g, n) = Records(f, n)
      /\ Replayed(g).files = Replayed(f).files \cup {e.n} /\ Replayed(g).log = Replayed(f).log
      /\ Exists(f, Manifest) /\ NamesStay(g) /\ CurrentFirst(g) /\ ManifestOnDisk(g)
  <2>1. EditDone(f, g, e) /\ g.disks = {f.dir}
    BY EditLogged DEF EditWritten
  <2> QED BY <2>1 DEF EditDone
<1>3. PICK v, l : v = Replayed(f) /\ l = Wal(v.log)
  OBVIOUS
<1>4. /\ l \in Names \ {Manifest}
      /\ \A n \in v.files \cup {e.n} : Table(n) \in Names \ {Manifest} /\ Exists(f, Table(n))
  <2>1. \A n \in v.files : Exists(f, Table(n))
    BY <1>1, <1>3 DEF TablesOnDisk, Complete
  <2>2. e.n \in 1..MaxNumber
    BY RecordFacts
  <2> QED BY <1>2, <1>3, <2>1, <2>2, DiskType, NameFacts, NamesDiffer
<1>5. /\ WritesIn(Records(f, Table(e.n))) = InLog(f) /\ Contains(Records(f, Table(e.n)), Footer)
  BY PutsAre DEF InLog
<1>6. InTables(g) = o
  <2>1. InTables(g) = UNION {WritesIn(Records(f, Table(n))) : n \in v.files \cup {e.n}}
    <3>1. InTables(g) = UNION {WritesIn(Records(g, Table(n))) : n \in v.files \cup {e.n}}
      BY <1>2, <1>3 DEF InTables
    <3>2. \A n \in v.files \cup {e.n} : Records(g, Table(n)) = Records(f, Table(n))
      BY <1>2, <1>4
    <3> QED BY <3>1, <3>2
  <2>2. InTables(f) = UNION {WritesIn(Records(f, Table(n))) : n \in v.files}
    BY <1>3 DEF InTables
  <2>3. InTables(f) \subseteq o /\ InLog(f) \subseteq o
    BY <1>1 DEF InOrder
  <2> QED BY <1>5, <2>1, <2>2, <2>3
<1>7. InLog(g) = InLog(f)
  BY <1>2, <1>3, <1>4 DEF InLog
<1>8. TablesOnDisk(g)
  <2>1. ASSUME NEW n \in v.files \cup {e.n}
        PROVE  /\ Complete(g, n) /\ Synced(FileOf(g, Table(n)))
               /\ \A d \in g.disks : d[Table(n)] # 0
    <3>1. Complete(f, n) /\ Synced(FileOf(f, Table(n)))
      BY <1>1, <1>3, <1>5 DEF TablesOnDisk, Complete
    <3> QED BY <1>2, <1>4, <3>1 DEF Complete, Exists
  <2> QED BY <1>2, <1>3, <2>1 DEF TablesOnDisk
<1>9. LogsOnDisk(g)
  <2>1. \A n \in 1..MaxNumber : Wal(n) \in Names \ {Manifest}
    BY NameFacts, NamesDiffer
  <2> QED BY <1>1, <1>2, <1>3, <1>4, <2>1 DEF LogsOnDisk
<1>10. InOrder(g, o)
  <2>1. InTables(g) = o /\ InLog(g) \subseteq o
    BY <1>1, <1>6, <1>7 DEF InOrder
  <2> QED BY <2>1 DEF InOrder
<1>11. OnDisk(g, o, s)
  <2>1. \A d \in g.disks : d[Current] # 0
    BY <1>2 DEF Exists
  <2> QED BY <1>6, <2>1 DEF OnDisk
<1> QED BY <1>2, <1>6, <1>7, <1>8, <1>9, <1>10, <1>11 DEF DiskInv

\* LogNumber: the tables have all that the old log had.
LEMMA LogNumberEdit ==
    ASSUME NEW f, NEW g, NEW o, NEW s, NEW t, FsType(f), FsType(g), DiskInv(f, o, s),
           Exists(f, Current),
           NEW e \in Record, EditWritten(f, g, e), e.kind = "log",
           e.n > Replayed(f).log, Exists(f, Wal(e.n)), o \subseteq InTables(f)
    PROVE  /\ DiskInv(g, o, t) /\ InTables(g) = InTables(f)
           /\ Exists(g, Wal(e.n)) /\ Records(g, Wal(e.n)) = <<>>
<1>1. OnDisk(f, o, s) /\ TablesOnDisk(f) /\ LogsOnDisk(f) /\ InOrder(f, o)
  BY DEF DiskInv
<1>2. /\ g.dir = f.dir /\ g.disks = {f.dir}
      /\ \A n \in Names \ {Manifest} :
           /\ (Exists(g, n) <=> Exists(f, n))
           /\ Exists(f, n) => FileOf(g, n) = FileOf(f, n) /\ Records(g, n) = Records(f, n)
      /\ Replayed(g).files = Replayed(f).files /\ Replayed(g).log = e.n
      /\ Exists(f, Manifest) /\ NamesStay(g) /\ CurrentFirst(g) /\ ManifestOnDisk(g)
  <2>1. EditDone(f, g, e) /\ g.disks = {f.dir}
    BY EditLogged DEF EditWritten
  <2> QED BY <2>1 DEF EditDone
<1>3. PICK v : v = Replayed(f)
  OBVIOUS
<1>4. /\ e.n \in 1..MaxNumber /\ v.log \in Nat
      /\ \A n \in 1..MaxNumber : Wal(n) \in Names \ {Manifest}
      /\ \A n \in v.files : Table(n) \in Names \ {Manifest} /\ Exists(f, Table(n))
  <2>1. \A n \in v.files : Exists(f, Table(n))
    BY <1>1, <1>3 DEF TablesOnDisk, Complete
  <2>2. e.n \in 1..MaxNumber
    BY RecordFacts
  <2> QED BY <1>2, <1>3, <2>1, <2>2, DiskType, NameFacts, NamesDiffer
<1>5. \A n \in 1..MaxNumber : n > v.log /\ Exists(g, Wal(n)) => FileOf(g, Wal(n)) = Empty
  <2>1. \A n \in 1..MaxNumber : n > v.log /\ Exists(f, Wal(n)) => FileOf(f, Wal(n)) = Empty
    BY <1>1, <1>3 DEF LogsOnDisk, Empty
  <2> QED BY <1>2, <1>4, <2>1
<1>6. /\ Exists(g, Wal(e.n)) /\ FileOf(g, Wal(e.n)) = Empty /\ Records(g, Wal(e.n)) = <<>>
  <2>1. Exists(g, Wal(e.n))
    BY <1>2, <1>4
  <2>2. FileOf(g, Wal(e.n)) = Empty
    BY <1>3, <1>4, <1>5, <2>1
  <2>3. Records(g, Wal(e.n)) = FileOf(g, Wal(e.n)).data /\ Empty.data = <<>>
    BY DEF Records, FileOf, Empty
  <2> QED BY <2>1, <2>2, <2>3
<1>7. InTables(g) = InTables(f)
  BY <1>2, <1>3, <1>4, TablesSame
<1>8. InLog(g) = {}
  <2>1. WritesIn(<<>>) = {}
    BY WritesInIs
  <2> QED BY <1>2, <1>6, <2>1 DEF InLog
<1>9. TablesOnDisk(g)
  <2>1. ASSUME NEW n \in v.files
        PROVE  /\ Complete(g, n) /\ Synced(FileOf(g, Table(n)))
               /\ \A d \in g.disks : d[Table(n)] # 0
    <3>1. Complete(f, n) /\ Synced(FileOf(f, Table(n)))
      BY <1>1, <1>3 DEF TablesOnDisk
    <3> QED BY <1>2, <1>4, <3>1 DEF Complete, Exists
  <2> QED BY <1>2, <1>3, <2>1 DEF TablesOnDisk
<1>10. LogsOnDisk(g)
  <2>1. \A n \in 1..MaxNumber : n > e.n /\ Exists(g, Wal(n)) => FileOf(g, Wal(n)) = Empty
    BY <1>3, <1>4, <1>5
  <2>2. /\ IsPrefix(FileOf(g, Wal(e.n)).safe, FileOf(g, Wal(e.n)).data)
        /\ \A i \in DOMAIN FileOf(g, Wal(e.n)).data : FileOf(g, Wal(e.n)).data[i].kind = "write"
    <3>1. FileOf(g, Wal(e.n)).safe = <<>> /\ FileOf(g, Wal(e.n)).data = <<>>
      BY <1>6 DEF Empty
    <3> QED BY <3>1 DEF IsPrefix
  <2> QED BY <1>2, <2>1, <2>2 DEF LogsOnDisk, Empty
<1>11. InOrder(g, o)
  <2>1. InTables(g) = o
    BY <1>1, <1>7 DEF InOrder
  <2> QED BY <1>8, <2>1 DEF InOrder
<1>12. OnDisk(g, o, t)
  <2>1. \A d \in g.disks : d[Current] # 0
    BY <1>2 DEF Exists
  <2> QED BY <1>7, <2>1 DEF OnDisk
<1> QED BY <1>2, <1>6, <1>7, <1>9, <1>10, <1>11, <1>12 DEF DiskInv

\* The rename that makes a database of what VersionSet::create wrote: there is
\* no log yet, and nothing was synced.
LEMMA RenameMakesDatabase ==
    ASSUME Journaled, NEW f, NEW g, NEW o, NEW s, FsType(f), FsType(g), DiskInv(f, o, s),
           ~Exists(f, Current), f.disks = {f.dir}, Exists(f, CurrentTmp),
           Synced(FileOf(f, CurrentTmp)), Records(f, CurrentTmp) # <<>>,
           Exists(f, Manifest), Synced(FileOf(f, Manifest)), Records(f, Manifest) = FirstEdits,
           g = Rename(f, CurrentTmp, Current)
    PROVE  DiskInv(g, o, s) /\ Exists(g, Current) /\ Records(g, Manifest) = FirstEdits
<1>1. /\ Current \in Names \ Temps /\ Manifest \in Names \ Temps /\ CurrentTmp \in Temps
      /\ CurrentTmp \in Names /\ Current # Manifest
      /\ \A n \in 1..MaxNumber : Wal(n) \in Names \ Temps /\ Wal(n) # Current
  BY NameFacts, NamesDiffer
<1>2. PICK i : i = f.dir[CurrentTmp]
  OBVIOUS
<1>3. /\ g.inodes = f.inodes /\ g.dir = Moved(f.dir, CurrentTmp, Current, i)
      /\ g.disks = {f.dir, g.dir}
  <2>1. f \in Systems
    BY DEF FsType
  <2>2. /\ g.inodes = f.inodes
        /\ g.dir = Moved(f.dir, CurrentTmp, Current, i)
        /\ g.disks = f.disks \cup {Moved(f.dir, CurrentTmp, Current, i)}
    <3>1. PICK from \in Names, to \in Names : from = CurrentTmp /\ to = Current
      BY <1>1
    <3>2. /\ g.inodes = f.inodes
          /\ g.dir = Moved(f.dir, from, to, f.dir[from])
          /\ g.disks = f.disks \cup {Moved(f.dir, from, to, f.dir[from])}
      <4>1. g = Rename(f, from, to)
        BY <3>1
      <4> QED BY <2>1, <4>1, RenameIs
    <3> QED BY <1>2, <3>1, <3>2
  <2> QED BY <2>2
<1>4. /\ i # 0 /\ g.dir[Current] = i
      /\ \A n \in Names \ Temps : n # Current => g.dir[n] = f.dir[n]
  BY <1>1, <1>2, <1>3 DEF Moved, Exists
<1>5. /\ \A n \in 1..MaxNumber : f.dir[Wal(n)] = 0 /\ g.dir[Wal(n)] = 0
      /\ f.dir[Current] = 0
  <2>1. f.dir[Current] = 0 /\ \A n \in 1..MaxNumber : f.dir[Wal(n)] = 0
    BY DEF DiskInv, CurrentFirst, Exists
  <2> QED BY <1>1, <1>4, <2>1
<1>6. \A w \in o : ~(w <= s)
  BY <1>5 DEF DiskInv, OnDisk
<1>7. NamesStay(g) /\ CurrentFirst(g) /\ OnDisk(g, o, s)
  <2>1. NamesStay(g)
    BY <1>3, <1>4, <1>5 DEF NamesStay
  <2>2. CurrentFirst(g)
    BY <1>3, <1>5 DEF CurrentFirst
  <2>3. OnDisk(g, o, s)
    BY <1>6 DEF OnDisk
  <2> QED BY <2>1, <2>2, <2>3
<1>8. /\ Exists(g, Manifest) /\ FileOf(g, Manifest) = FileOf(f, Manifest)
      /\ Records(g, Manifest) = FirstEdits
      /\ FileOf(g, Current) = FileOf(f, CurrentTmp) /\ Records(g, Current) = Records(f, CurrentTmp)
  BY <1>1, <1>2, <1>3, <1>4 DEF Exists, FileOf, Records
<1>9. Replayed(g).files = {} /\ Replayed(g).log = 1 /\ 1 \in 1..MaxNumber
  BY <1>8, ReplayedFirst, PowerLossAssumption
<1>10. ManifestOnDisk(g)
  <2>1. \A d \in g.disks : d[Manifest] # 0
    BY <1>1, <1>3, <1>4 DEF Exists
  <2> QED BY <1>8, <2>1 DEF ManifestOnDisk
<1>11. \A n \in 1..MaxNumber : ~Exists(g, Wal(n))
  BY <1>5 DEF Exists
<1>12. TablesOnDisk(g) /\ LogsOnDisk(g)
  BY <1>9, <1>11 DEF TablesOnDisk, LogsOnDisk
<1>13. InTables(g) = {} /\ InLog(g) = {}
  BY <1>9, <1>11 DEF InTables, InLog
<1>14. InOrder(g, o)
  BY <1>9, <1>11, <1>13 DEF InOrder
<1> QED BY <1>4, <1>7, <1>8, <1>10, <1>12, <1>14 DEF DiskInv, Exists

\* r is data cut short, not below its synced part, and rsafe, all of it, synced.
CutShort(data, safe, r, rsafe) ==
    /\ data \in Seq(Record) /\ safe \in Seq(Record) /\ r \in Seq(Record)
    /\ rsafe = r
    /\ Len(r) <= Len(data) /\ \A i \in 1..Len(r) : r[i] = data[i]
    /\ Len(safe) <= Len(r) /\ \A i \in 1..Len(safe) : safe[i] = r[i]

\* A power loss leaves of the log what was synced, and some of what follows.
LEMMA LogSurvives ==
    ASSUME NEW f \in Systems, NEW g \in AfterPowerLoss(f), NEW j \in 1..Len(f.inodes),
           IsPrefix(f.inodes[j].safe, f.inodes[j].data)
    PROVE  CutShort(f.inodes[j].data, f.inodes[j].safe, g.inodes[j].data, g.inodes[j].safe)
<1>0. PICK data, safe, r : data = f.inodes[j].data /\ safe = f.inodes[j].safe /\ r = g.inodes[j].data
  OBVIOUS
<1> USE <1>0
<1>1. data \in Seq(Record) /\ safe \in Seq(Record)
  BY InodeType
<1>2. /\ g \in Systems /\ Len(g.inodes) = Len(f.inodes) /\ Synced(g.inodes[j])
      /\ IF Synced(f.inodes[j]) THEN g.inodes[j] = f.inodes[j]
         ELSE g.inodes[j].data \in Survivors(f.inodes[j])
  BY PowerLossIs
<1>3. r \in Seq(Record)
  BY <1>2, InodeType
<1>4. g.inodes[j].safe = r
  BY <1>2 DEF Synced
<1>5. Len(r) <= Len(data) /\ (\A i \in 1..Len(r) : r[i] = data[i]) /\ IsPrefix(safe, r)
  <2>1. CASE Synced(f.inodes[j])
    BY <1>1, <1>2, <2>1
  <2>2. CASE ~Synced(f.inodes[j])
    <3>1. r \in {q \in {SubSeq(data, 1, n) : n \in 0..Len(data)} : IsPrefix(safe, q)}
      BY <1>2, <2>2 DEF Survivors
    <3>2. PICK n \in 0..Len(data) : r = SubSeq(data, 1, n) /\ IsPrefix(safe, r)
      BY <3>1
    <3>3. Len(r) = n /\ \A i \in 1..n : r[i] = data[i]
      BY <1>1, <3>2
    <3> QED BY <1>1, <3>2, <3>3
  <2> QED BY <2>1, <2>2
<1>6. Len(safe) <= Len(r) /\ \A i \in 1..Len(safe) : safe[i] = r[i]
  BY <1>1, <1>3, <1>5, PrefixIs
<1>7. CutShort(data, safe, r, g.inodes[j].safe)
  BY <1>1, <1>3, <1>4, <1>5, <1>6 DEF CutShort
<1> QED BY <1>7

\* Whatever directory and whatever of the files a power loss leaves.
LEMMA PowerLossKeeps ==
    ASSUME NEW f, NEW g, NEW o, NEW s, FsType(f), FsType(g), DiskInv(f, o, s),
           g \in AfterPowerLoss(f)
    PROVE  DiskInv(g, o, s)
<1>1. PICK d \in f.disks : d = g.dir /\ g.disks = {d}
  BY PowerLossIs DEF FsType
<1>2. NamesStay(f) /\ CurrentFirst(f) /\ OnDisk(f, o, s)
  BY DEF DiskInv
<1>3. NamesStay(g) /\ CurrentFirst(g)
  BY <1>1, <1>2 DEF NamesStay, CurrentFirst
<1>4. CASE d[Current] = 0
  <2>1. OnDisk(g, o, s)
    BY <1>1, <1>2, <1>4 DEF OnDisk
  <2> QED BY <1>1, <1>3, <1>4, <2>1 DEF DiskInv, Exists
<1>5. CASE d[Current] # 0
  <2>1. Current \in Names \ Temps /\ Manifest \in Names \ Temps
    BY NameFacts
  <2>2. Exists(f, Current)
    BY <1>2, <1>5, <2>1 DEF NamesStay, Exists
  <2>3. ManifestOnDisk(f) /\ TablesOnDisk(f) /\ LogsOnDisk(f) /\ InOrder(f, o)
    BY <2>2 DEF DiskInv
  <2>4. \A n \in Names \ Temps : Exists(g, n) =>
          /\ d[n] \in 1..Len(f.inodes) /\ f.dir[n] = d[n] /\ Exists(f, n)
          /\ FileOf(f, n) = f.inodes[d[n]] /\ FileOf(g, n) = g.inodes[d[n]]
    BY <1>1, <1>2 DEF NamesStay, Exists, FileOf, FsType
  <2>5. ASSUME NEW n \in Names \ Temps, Exists(g, n), Synced(FileOf(f, n))
        PROVE  FileOf(g, n) = FileOf(f, n) /\ Records(g, n) = Records(f, n)
    <3>1. PICK j \in 1..Len(f.inodes) : j = d[n]
      BY <2>4, <2>5
    <3>2. IF Synced(f.inodes[j]) THEN g.inodes[j] = f.inodes[j]
          ELSE g.inodes[j].data \in Survivors(f.inodes[j])
      BY PowerLossIs DEF FsType
    <3>3. FileOf(g, n) = FileOf(f, n)
      BY <2>4, <2>5, <3>1, <3>2
    <3> QED BY <3>3 DEF FileOf, Records
  <2>6. Exists(g, Current) /\ Exists(g, Manifest)
    BY <1>1, <1>5, <2>3 DEF ManifestOnDisk, Exists
  <2>7. FileOf(g, Current) = FileOf(f, Current) /\ Records(g, Current) = Records(f, Current)
    BY <2>1, <2>3, <2>5, <2>6 DEF ManifestOnDisk
  <2>8. FileOf(g, Manifest) = FileOf(f, Manifest) /\ Records(g, Manifest) = Records(f, Manifest)
    BY <2>1, <2>3, <2>5, <2>6 DEF ManifestOnDisk
  <2>9. PICK v, l : v = Replayed(f) /\ l = Wal(v.log)
    OBVIOUS
  <2>10. Replayed(g) = v
    BY <2>8, <2>9, ReplayedSame
  <2>11. l \in Names \ Temps /\ v.log \in 1..MaxNumber /\ \A n \in v.files : Table(n) \in Names \ Temps
    BY <2>3, <2>9, DiskType DEF ManifestOnDisk
  <2>12. ASSUME NEW n \in v.files
         PROVE  /\ Complete(f, n) /\ Synced(FileOf(f, Table(n))) /\ d[Table(n)] # 0
                /\ Exists(g, Table(n)) /\ FileOf(g, Table(n)) = FileOf(f, Table(n))
                /\ Records(g, Table(n)) = Records(f, Table(n))
    <3>1. Complete(f, n) /\ Synced(FileOf(f, Table(n))) /\ d[Table(n)] # 0
      BY <2>3, <2>9 DEF TablesOnDisk
    <3>2. Exists(g, Table(n))
      BY <1>1, <3>1 DEF Exists
    <3> QED BY <2>5, <2>11, <3>1, <3>2
  <2>13. InTables(g) = InTables(f)
    BY <2>9, <2>10, <2>12, TablesSame
  <2>14. ManifestOnDisk(g)
    <3>1. \A e \in g.disks : e[Manifest] # 0
      BY <1>1, <2>6 DEF Exists
    <3> QED BY <2>3, <2>6, <2>7, <2>8, <3>1 DEF ManifestOnDisk
  <2>15. TablesOnDisk(g)
    <3>1. ASSUME NEW n \in v.files
          PROVE  /\ Complete(g, n) /\ Synced(FileOf(g, Table(n)))
                 /\ \A e \in g.disks : e[Table(n)] # 0
      BY <1>1, <2>12 DEF Complete
    <3> QED BY <2>10, <3>1 DEF TablesOnDisk
  <2>16. \A n \in 1..MaxNumber : n > v.log /\ Exists(g, Wal(n)) => FileOf(g, Wal(n)) = Empty
    <3>1. ASSUME NEW n \in 1..MaxNumber, n > v.log, Exists(g, Wal(n))
          PROVE  FileOf(g, Wal(n)) = Empty
      <4>1. Wal(n) \in Names \ Temps
        BY NameFacts
      <4>2. Exists(f, Wal(n))
        BY <2>4, <3>1, <4>1
      <4>3. FileOf(f, Wal(n)) = Empty
        BY <2>3, <2>9, <3>1, <4>2 DEF LogsOnDisk, Empty
      <4>4. Synced(FileOf(f, Wal(n)))
        BY <4>3 DEF Synced, Empty
      <4> QED BY <2>5, <3>1, <4>1, <4>3, <4>4
    <3> QED BY <3>1
  <2>17. /\ InTables(f) \subseteq o /\ InLog(f) \subseteq o
         /\ \A x, w \in o : x < w /\ w \in InTables(f) => x \in InTables(f)
         /\ Exists(f, l) =>
               \A i \in DOMAIN Records(f, l) : \A x \in o :
                  x < Records(f, l)[i].n =>
                     x \in InTables(f) \/ \E j \in 1..i : Records(f, l)[j].n = x
    BY <2>3, <2>9 DEF InOrder
  <2>18. CASE ~Exists(g, l)
    <3>1. LogsOnDisk(g)
      BY <2>9, <2>10, <2>16, <2>18 DEF LogsOnDisk, Empty
    <3>2. InLog(g) = {}
      BY <2>9, <2>10, <2>18 DEF InLog
    <3>3. InOrder(g, o)
      BY <2>9, <2>10, <2>13, <2>17, <2>18, <3>2 DEF InOrder
    <3>4. OnDisk(g, o, s)
      <4>1. ASSUME NEW w \in o, w <= s PROVE w \in InTables(f)
        <5>1. \/ w \in InTables(f)
              \/ /\ d[Wal(Replayed(f).log)] # 0
                 /\ w \in WritesIn(FileOf(f, Wal(Replayed(f).log)).safe)
          BY <1>2, <4>1, OnDiskAt
        <5> QED BY <1>1, <2>9, <2>18, <5>1 DEF Exists
      <4> QED BY <1>1, <1>5, <2>13, <4>1 DEF OnDisk
    <3> QED BY <1>3, <2>14, <2>15, <3>1, <3>3, <3>4 DEF DiskInv
  <2>19. CASE Exists(g, l)
    <3>1. PICK j \in 1..Len(f.inodes) : j = d[l]
      BY <2>4, <2>11, <2>19
    <3>2. /\ Exists(f, l) /\ FileOf(f, l) = f.inodes[j] /\ FileOf(g, l) = g.inodes[j]
          /\ Records(f, l) = f.inodes[j].data /\ Records(g, l) = g.inodes[j].data
      <4>1. Exists(f, l) /\ FileOf(f, l) = f.inodes[j] /\ FileOf(g, l) = g.inodes[j]
        BY <2>4, <2>11, <2>19, <3>1
      <4> QED BY <4>1 DEF FileOf, Records
    <3>3. PICK data, safe, r : data = f.inodes[j].data /\ safe = f.inodes[j].safe /\ r = g.inodes[j].data
      OBVIOUS
    <3>4. IsPrefix(safe, data) /\ \A i \in DOMAIN data : data[i].kind = "write"
      BY <2>3, <2>9, <3>2, <3>3 DEF LogsOnDisk
    <3>5. /\ data \in Seq(Record) /\ safe \in Seq(Record) /\ r \in Seq(Record)
          /\ g.inodes[j].safe = r
          /\ Len(r) <= Len(data) /\ \A i \in 1..Len(r) : r[i] = data[i]
          /\ Len(safe) <= Len(r) /\ \A i \in 1..Len(safe) : safe[i] = r[i]
      <4>1. f \in Systems
        BY DEF FsType
      <4>2. IsPrefix(f.inodes[j].safe, f.inodes[j].data)
        BY <3>3, <3>4
      <4>3. CutShort(f.inodes[j].data, f.inodes[j].safe, g.inodes[j].data, g.inodes[j].safe)
        BY <4>1, <4>2, LogSurvives
      <4>4. CutShort(data, safe, r, g.inodes[j].safe)
        BY <3>3, <4>3
      <4> QED BY <4>4 DEF CutShort
    <3>6. LogsOnDisk(g)
      <4>1. IsPrefix(r, r)
        BY <3>5, PrefixIs
      <4>2. \A i \in DOMAIN r : r[i].kind = "write"
        <5>1. DOMAIN r = 1..Len(r) /\ DOMAIN data = 1..Len(data) /\ Len(r) \in Nat /\ Len(data) \in Nat
          BY <3>5
        <5>2. ASSUME NEW i \in 1..Len(r) PROVE r[i] = data[i] /\ i \in DOMAIN data
          BY <3>5, <5>1
        <5> QED BY <3>4, <5>1, <5>2
      <4>3. FileOf(g, l).safe = r /\ FileOf(g, l).data = r
        BY <3>2, <3>3, <3>5
      <4> QED BY <2>9, <2>10, <2>16, <4>1, <4>2, <4>3 DEF LogsOnDisk, Empty
    <3>7. \A x : (x \in WritesIn(r) => x \in WritesIn(data)) /\ (x \in WritesIn(safe) => x \in WritesIn(r))
      <4>1. ASSUME NEW x, x \in WritesIn(r) PROVE x \in WritesIn(data)
        <5>1. PICK i \in 1..Len(r) : r[i].kind = "write" /\ r[i].n = x
          BY <3>5, <4>1, WritesInIs
        <5>2. i \in 1..Len(data) /\ r[i] = data[i]
          BY <3>5
        <5> QED BY <3>5, <5>1, <5>2, WritesInIs
      <4>2. ASSUME NEW x, x \in WritesIn(safe) PROVE x \in WritesIn(r)
        <5>1. PICK i \in 1..Len(safe) : safe[i].kind = "write" /\ safe[i].n = x
          BY <3>5, <4>2, WritesInIs
        <5>2. i \in 1..Len(r) /\ r[i] = safe[i]
          BY <3>5
        <5> QED BY <3>5, <5>1, <5>2, WritesInIs
      <4> QED BY <4>1, <4>2
    <3>8. InLog(f) = WritesIn(data) /\ InLog(g) = WritesIn(r)
      BY <2>9, <2>10, <2>19, <3>2, <3>3 DEF InLog
    <3>9. InOrder(g, o)
      <4>1. InLog(g) \subseteq o
        BY <2>17, <3>7, <3>8
      <4>2. ASSUME NEW i \in DOMAIN r, NEW x \in o, x < r[i].n
            PROVE  x \in InTables(f) \/ \E k \in 1..i : r[k].n = x
        <5>1. i \in DOMAIN data /\ r[i] = data[i] /\ \A k \in 1..i : r[k] = data[k]
          BY <3>5
        <5>2. x \in InTables(f) \/ \E k \in 1..i : data[k].n = x
          BY <2>17, <3>2, <3>3, <4>2, <5>1
        <5> QED BY <5>1, <5>2
      <4>3. Records(g, l) = r
        BY <3>2, <3>3
      <4> QED BY <2>9, <2>10, <2>13, <2>17, <4>1, <4>2, <4>3 DEF InOrder
    <3>10. OnDisk(g, o, s)
      <4>1. ASSUME NEW w \in o, w <= s PROVE w \in InTables(f) \/ w \in WritesIn(r)
        <5>1. \/ w \in InTables(f)
              \/ /\ d[Wal(Replayed(f).log)] # 0
                 /\ w \in WritesIn(FileOf(f, Wal(Replayed(f).log)).safe)
          BY <1>2, <4>1, OnDiskAt
        <5> QED BY <2>9, <3>2, <3>3, <3>7, <5>1
      <4>2. FileOf(g, Wal(Replayed(g).log)).safe = r /\ d[Wal(Replayed(g).log)] # 0
        BY <1>1, <2>9, <2>10, <2>19, <3>2, <3>5 DEF Exists
      <4> QED BY <1>1, <1>5, <2>13, <4>1, <4>2 DEF OnDisk
    <3> QED BY <1>3, <2>14, <2>15, <3>6, <3>9, <3>10 DEF DiskInv
  <2> QED BY <2>18, <2>19
<1> QED BY <1>4, <1>5

-----------------------------------------------------------------------------
(* The calls, where the directory reaches the disk in order *)

LEMMA OpenAppendKeeps ==
    ASSUME Journaled, NEW f, FsType(f), NEW name \in Names, NEW g, g = OpenAppend(f, name)
    PROVE  /\ \A n \in Names : n # name => g.dir[n] = f.dir[n]
           /\ \A n \in Names : f.dir[n] # 0 =>
                 g.dir[n] = f.dir[n] /\ FileOf(g, n) = FileOf(f, n) /\ Records(g, n) = Records(f, n)
           /\ Exists(g, name) /\ (~Exists(f, name) => FileOf(g, name) = Empty)
           /\ \A e \in g.disks : e \in f.disks \/ e = g.dir
<1>1. CASE Exists(f, name)
  BY <1>1 DEF OpenAppend, Exists
<1>2. CASE ~Exists(f, name)
  <2>1. f \in Systems /\ f.inodes \in Seq(File) /\ Len(f.inodes) \in Nat /\ f.dir \in f.disks
    BY DEF FsType, Systems
  <2>2. PICK new : new = Len(f.inodes) + 1
    OBVIOUS
  <2>3. /\ g.inodes = Append(f.inodes, Empty) /\ g.dir = With(f.dir, name, new)
        /\ g.disks = f.disks \cup {With(f.dir, name, new)}
    BY <1>2, <2>1, <2>2, OpenAppendIs
  <2>4. /\ g.dir[name] = new /\ new # 0
        /\ \A n \in Names : n # name => g.dir[n] = f.dir[n]
    BY <2>1, <2>2, <2>3 DEF With
  <2>5. /\ g.inodes[new] = Empty
        /\ \A j \in 1..Len(f.inodes) : g.inodes[j] = f.inodes[j]
    BY <2>1, <2>2, <2>3
  <2>6. ASSUME NEW n \in Names, f.dir[n] # 0
        PROVE  g.dir[n] = f.dir[n] /\ FileOf(g, n) = FileOf(f, n) /\ Records(g, n) = Records(f, n)
    <3>1. f.dir[n] \in 1..Len(f.inodes)
      BY <2>1, <2>6 DEF FsType
    <3>2. n # name
      BY <1>2, <2>6 DEF Exists
    <3> QED BY <2>4, <2>5, <3>1, <3>2 DEF FileOf, Records
  <2> QED BY <2>3, <2>4, <2>5, <2>6 DEF Exists, FileOf
<1> QED BY <1>1, <1>2

LEMMA OpenCreateKeeps ==
    ASSUME Journaled, NEW f, FsType(f), NEW name \in Names, NEW g, g = OpenCreate(f, name)
    PROVE  /\ FsType(g)
           /\ \A n \in Names : n # name => g.dir[n] = f.dir[n]
           /\ \A n \in Names : f.dir[n] # 0 => g.dir[n] = f.dir[n]
           /\ \A n \in Names : n # name /\ f.dir[n] # 0 => FileOf(g, n) = FileOf(f, n)
           /\ Exists(g, name) /\ Records(g, name) = <<>>
           /\ \A e \in g.disks : e \in f.disks \/ e = g.dir
<1>1. FsType(g) /\ f \in Systems
  BY OtherTypes, SMTT(60), ZenonT(60) DEF FsType
<1>2. CASE Exists(f, name)
  <2>1. PICK file : file = [data |-> <<>>, safe |-> FileOf(f, name).safe]
    OBVIOUS
  <2>2. Rewritten(f, g, f.dir[name], file) /\ g.disks = f.disks
    BY <1>1, <1>2, <2>1, OpenCreateIs
  <2>3. Exists(g, name) /\ FileOf(g, name) = file
    BY <1>2, <2>2, RecordsAfter, Zenon
  <2>4. Records(g, name) = <<>>
    BY <2>1, <2>3 DEF Records, FileOf
  <2>5. ASSUME NEW n \in Names, n # name, f.dir[n] # 0 PROVE FileOf(g, n) = FileOf(f, n)
    <3>1. Exists(f, n)
      BY <2>5 DEF Exists
    <3> QED BY <1>2, <2>2, <2>5, <3>1, OthersKept, ZenonT(60)
  <2> QED BY <1>1, <2>2, <2>3, <2>4, <2>5 DEF Rewritten
<1>3. CASE ~Exists(f, name)
  <2>1. g = OpenAppend(f, name)
    BY <1>1, <1>3, OpenCreateIs
  <2>2. /\ \A n \in Names : n # name => g.dir[n] = f.dir[n]
        /\ \A n \in Names : f.dir[n] # 0 => g.dir[n] = f.dir[n] /\ FileOf(g, n) = FileOf(f, n)
        /\ Exists(g, name) /\ FileOf(g, name) = Empty
        /\ \A e \in g.disks : e \in f.disks \/ e = g.dir
    BY <1>3, <2>1, OpenAppendKeeps
  <2>3. Records(g, name) = <<>>
    BY <2>2 DEF Records, FileOf, Empty
  <2> QED BY <1>1, <2>2, <2>3
<1> QED BY <1>2, <1>3

LEMMA BuiltIs ==
    ASSUME Journaled, NEW f, FsType(f), NEW name \in Names, NEW recs \in Seq(Record),
           NEW g, g = Built(f, name, recs)
    PROVE  /\ g.disks = {g.dir} /\ Exists(g, name)
           /\ Synced(FileOf(g, name)) /\ Records(g, name) = recs
           /\ \A n \in Names : n # name => g.dir[n] = f.dir[n]
           /\ \A n \in Names : n # name /\ f.dir[n] # 0 =>
                 FileOf(g, n) = FileOf(f, n) /\ Records(g, n) = Records(f, n)
<1>1. PICK h : h = OpenCreate(f, name)
  OBVIOUS
<1>2. /\ FsType(h)
      /\ \A n \in Names : n # name => h.dir[n] = f.dir[n]
      /\ \A n \in Names : n # name /\ f.dir[n] # 0 => FileOf(h, n) = FileOf(f, n)
      /\ Exists(h, name) /\ Records(h, name) = <<>>
  BY <1>1, OpenCreateKeeps
<1>3. PICK file : file = [data |-> Records(h, name) \o recs, safe |-> Records(h, name) \o recs]
  OBVIOUS
<1>4. Rewritten(h, g, h.dir[name], file) /\ g.disks = {h.dir} /\ g.dir = h.dir
  <2>1. h \in Systems /\ g = SyncAll(WriteAll(h, name, recs), name)
    BY <1>1, <1>2 DEF Built, FsType
  <2>2. LET k == SyncAll(WriteAll(h, name, recs), name)
        IN  /\ Rewritten(h, k, h.dir[name], [data |-> Records(h, name) \o recs,
                                             safe |-> Records(h, name) \o recs])
            /\ k.disks = IF Journaled THEN {h.dir} ELSE h.disks
    BY <2>1, AppendSyncedIs, Zenon
  <2>3. Rewritten(h, g, h.dir[name], file) /\ g.disks = {h.dir}
    BY <1>3, <2>1, <2>2
  <2> QED BY <2>3 DEF Rewritten
<1>5. file.data = recs /\ file.safe = recs
  BY <1>2, <1>3
<1>6. Exists(g, name) /\ FileOf(g, name) = file
  <2>1. FsType(h) /\ Exists(h, name) /\ Rewritten(h, g, h.dir[name], file)
    BY <1>2, <1>4
  <2> QED BY <2>1, RecordsAfter
<1>7. Records(g, name) = recs /\ Synced(FileOf(g, name))
  BY <1>5, <1>6 DEF Records, FileOf, Synced
<1>8. ASSUME NEW n \in Names, n # name, f.dir[n] # 0
      PROVE  FileOf(g, n) = FileOf(f, n) /\ Records(g, n) = Records(f, n)
  <2>1. Exists(h, n)
    BY <1>2, <1>8 DEF Exists
  <2>2. FileOf(g, n) = FileOf(h, n)
    <3>1. FsType(h) /\ Exists(h, name) /\ Rewritten(h, g, h.dir[name], file)
      BY <1>2, <1>4
    <3> QED BY <1>8, <2>1, <3>1, OthersKept
  <2>3. FileOf(g, n) = FileOf(f, n)
    BY <1>2, <1>8, <2>2
  <2> QED BY <2>3 DEF FileOf, Records
<1> QED BY <1>2, <1>4, <1>6, <1>7, <1>8

LEMMA LogEditIs ==
    ASSUME Journaled, FsType(fs), NEW e \in Record
    PROVE  EditWritten(fs, LogEdit(e), e)
<1>1. fs \in Systems /\ <<e>> \in Seq(Record)
  BY DEF FsType
<1>2. PICK file : file = [data |-> Records(fs, Manifest) \o <<e>>, safe |-> Records(fs, Manifest) \o <<e>>]
  OBVIOUS
<1>3. Rewritten(fs, LogEdit(e), fs.dir[Manifest], file) /\ LogEdit(e).disks = {fs.dir}
  BY <1>1, <1>2, AppendSyncedIs DEF LogEdit
<1>4. file.data = Records(fs, Manifest) \o <<e>> /\ file.safe = file.data
  BY <1>2
<1> QED BY <1>3, <1>4 DEF EditWritten

-----------------------------------------------------------------------------
(* The steps of the first DB::open *)

LEMMA CreateManifestStep ==
    ASSUME Journaled, PowerInv, TypeInv', CreateManifest PROVE PowerInv'
<1>1. /\ FsType(fs) /\ FsType(fs') /\ DiskInv(fs, order, synced) /\ ~Exists(fs, Current)
      /\ pc' = "edits" /\ order' = order /\ synced' = synced
      /\ fs' = OpenCreate(fs, Manifest)
  BY DEF PowerInv, TypeInv, CreateManifest, Goto, ghosts
<1>2. /\ Manifest \in Names \ Temps /\ Current \in Names \ Temps /\ Current # Manifest
      /\ \A n \in 1..MaxNumber : Wal(n) \in Names /\ Wal(n) # Manifest
  BY NameFacts, NamesDiffer
<1>3. /\ \A n \in Names : n # Manifest => fs'.dir[n] = fs.dir[n]
      /\ \A n \in Names : fs.dir[n] # 0 => fs'.dir[n] = fs.dir[n]
      /\ Exists(fs', Manifest) /\ Records(fs', Manifest) = <<>>
      /\ \A e \in fs'.disks : e \in fs.disks \/ e = fs'.dir
  <2>1. Manifest \in Names
    BY <1>2
  <2> QED BY <1>1, <2>1, OpenCreateKeeps
<1>4. DiskInv(fs', order, synced)
  <2>1. \A e \in fs'.disks :
              \/ \E d \in fs.disks : \A n \in Names \ Temps : e[n] = d[n]
              \/ \A n \in Names \ Temps : e[n] = fs'.dir[n]
    BY <1>3
  <2> QED BY <1>1, <1>2, <1>3, <2>1, Frame
<1>5. CreateInv'
  <2>1. ~Exists(fs', Current)
    BY <1>1, <1>2, <1>3 DEF Exists
  <2>2. SubSeq(FirstEdits, 1, Len(<<>>)) = <<>>
    BY RecordTypes
  <2> QED BY <1>1, <1>3, <2>1, <2>2 DEF CreateInv, Opened, Running, Creating
<1>6. RunInv'
  BY <1>1 DEF RunInv, Running
<1> QED BY <1>1, <1>4, <1>5, <1>6 DEF PowerInv

LEMMA FirstEditsGrow ==
    ASSUME NEW n \in 0..2
    PROVE  SubSeq(FirstEdits, 1, n) \o <<FirstEdits[n + 1]>> = SubSeq(FirstEdits, 1, n + 1)
<1>1. PICK s \in Seq(Record) : s = FirstEdits /\ Len(s) = 3
  BY RecordTypes
<1>2. SubSeq(s, 1, n) \o <<s[n + 1]>> = SubSeq(s, 1, n + 1)
  OBVIOUS
<1> QED BY <1>1, <1>2

LEMMA AppendFirstEditStep ==
    ASSUME Journaled, PowerInv, TypeInv', AppendFirstEdit PROVE PowerInv'
<1>1. /\ FsType(fs) /\ FsType(fs') /\ DiskInv(fs, order, synced)
      /\ pc = "edits" /\ order' = order /\ synced' = synced
      /\ ~Exists(fs, Current) /\ Exists(fs, Manifest)
      /\ Records(fs, Manifest) = SubSeq(FirstEdits, 1, Len(Records(fs, Manifest)))
      /\ Len(Records(fs, Manifest)) < Len(FirstEdits)
  BY DEF PowerInv, TypeInv, ProcessType, AppendFirstEdit, CreateInv, Creating, ghosts
<1>2. PICK recs \in Seq(Record) : recs = Records(fs, Manifest)
  BY <1>1, NameFacts, RecordsType
<1>3. PICK n \in 0..2 : n = Len(recs)
  BY <1>1, <1>2, RecordTypes
<1>4. PICK e \in Record : e = FirstEdits[n + 1]
  <2>1. FirstEdits \in Seq(Record) /\ n + 1 \in 1..Len(FirstEdits)
    BY RecordTypes
  <2>2. FirstEdits[n + 1] \in Record
    BY <2>1
  <2> QED BY <2>2
<1>5. /\ fs' = LogEdit(e) /\ pc' = IF n + 1 = 3 THEN "tmp" ELSE "edits"
  BY <1>2, <1>3, <1>4, RecordTypes DEF AppendFirstEdit
<1>6. PICK file : /\ Rewritten(fs, fs', fs.dir[Manifest], file)
                  /\ file.data = recs \o <<e>> /\ file.safe = file.data
                  /\ fs'.disks = {fs.dir}
  <2>1. EditWritten(fs, fs', e)
    BY <1>1, <1>5, LogEditIs
  <2> QED BY <1>2, <2>1 DEF EditWritten
<1>7. fs'.dir = fs.dir
  BY <1>6 DEF Rewritten
<1>8. Exists(fs', Manifest) /\ FileOf(fs', Manifest) = file
  BY <1>1, <1>6, NameFacts, RecordsAfter
<1>9. Synced(FileOf(fs', Manifest)) /\ Records(fs', Manifest) = SubSeq(FirstEdits, 1, n + 1)
  <2>1. Synced(FileOf(fs', Manifest)) /\ Records(fs', Manifest) = recs \o <<e>>
    BY <1>6, <1>8 DEF Synced, FileOf, Records
  <2>2. recs = SubSeq(FirstEdits, 1, n)
    BY <1>1, <1>2, <1>3
  <2> QED BY <1>4, <2>1, <2>2, FirstEditsGrow
<1>10. DiskInv(fs', order, synced)
  <2>1. \A e2 \in fs'.disks :
              \/ \E d \in fs.disks : \A m \in Names \ Temps : e2[m] = d[m]
              \/ \A m \in Names \ Temps : e2[m] = fs'.dir[m]
    BY <1>6, <1>7
  <2> QED BY <1>1, <1>7, <2>1, Frame
<1>11. CreateInv'
  <2>1. ~Exists(fs', Current)
    BY <1>1, <1>7 DEF Exists
  <2>2. n + 1 = 3 => Records(fs', Manifest) = FirstEdits
    <3>1. SubSeq(FirstEdits, 1, 3) = FirstEdits
      BY RecordTypes
    <3> QED BY <1>9, <3>1
  <2>3. Len(Records(fs', Manifest)) = n + 1
    <3>1. Len(SubSeq(FirstEdits, 1, n + 1)) = n + 1
      BY RecordTypes
    <3> QED BY <1>9, <3>1
  <2>4. fs'.disks = {fs'.dir}
    BY <1>6, <1>7
  <2> QED BY <1>5, <1>8, <1>9, <2>1, <2>2, <2>3, <2>4 DEF CreateInv, Opened, Running, Creating
<1>12. RunInv'
  BY <1>5 DEF RunInv, Running
<1> QED BY <1>1, <1>10, <1>11, <1>12 DEF PowerInv

LEMMA WriteCurrentTmpStep ==
    ASSUME Journaled, PowerInv, TypeInv', WriteCurrentTmp PROVE PowerInv'
<1>1. /\ FsType(fs) /\ FsType(fs') /\ DiskInv(fs, order, synced)
      /\ pc = "tmp" /\ pc' = "rename" /\ order' = order /\ synced' = synced
      /\ fs' = Built(fs, CurrentTmp, <<Edit("name", 1)>>)
      /\ ~Exists(fs, Current) /\ Exists(fs, Manifest) /\ Synced(FileOf(fs, Manifest))
      /\ Records(fs, Manifest) = FirstEdits
  BY DEF PowerInv, TypeInv, WriteCurrentTmp, Goto, Named, Built, CreateInv, Creating, ghosts
<1>2. /\ CurrentTmp \in Names /\ CurrentTmp \in Temps /\ Current \in Names \ Temps
      /\ Manifest \in Names \ Temps /\ \A n \in 1..MaxNumber : Wal(n) \in Names \ Temps
  BY NameFacts
<1>3. PICK recs \in Seq(Record) : recs = <<Edit("name", 1)>> /\ recs # <<>>
  <2>1. <<Edit("name", 1)>> \in Seq(Record)
    BY RecordTypes
  <2> QED BY <2>1
<1>4. /\ fs'.disks = {fs'.dir} /\ Exists(fs', CurrentTmp)
      /\ Synced(FileOf(fs', CurrentTmp)) /\ Records(fs', CurrentTmp) = recs
      /\ \A n \in Names : n # CurrentTmp => fs'.dir[n] = fs.dir[n]
      /\ \A n \in Names : n # CurrentTmp /\ fs.dir[n] # 0 =>
            FileOf(fs', n) = FileOf(fs, n) /\ Records(fs', n) = Records(fs, n)
  <2>1. fs' = Built(fs, CurrentTmp, recs)
    BY <1>1, <1>3
  <2>2. PICK f, t, g : t \in Names /\ f = fs /\ t = CurrentTmp /\ g = fs'
    BY <1>2
  <2>3. FsType(f) /\ g = Built(f, t, recs) /\ t \in Names
    BY <1>1, <2>1, <2>2
  <2>4. /\ g.disks = {g.dir} /\ Exists(g, t)
        /\ Synced(FileOf(g, t)) /\ Records(g, t) = recs
        /\ \A n \in Names : n # t => g.dir[n] = f.dir[n]
        /\ \A n \in Names : n # t /\ f.dir[n] # 0 =>
              FileOf(g, n) = FileOf(f, n) /\ Records(g, n) = Records(f, n)
    BY <2>3, BuiltIs
  <2> QED BY <2>2, <2>4
<1>5. \A n \in Names \ Temps : fs'.dir[n] = fs.dir[n]
  BY <1>2, <1>4
<1>6. DiskInv(fs', order, synced)
  <2>1. \A e \in fs'.disks :
              \/ \E d \in fs.disks : \A m \in Names \ Temps : e[m] = d[m]
              \/ \A m \in Names \ Temps : e[m] = fs'.dir[m]
    BY <1>4
  <2> QED BY <1>1, <1>2, <1>5, <2>1, Frame
<1>7. CreateInv'
  <2>1. ~Exists(fs', Current) /\ Exists(fs', Manifest)
    BY <1>1, <1>2, <1>5 DEF Exists
  <2>2. FileOf(fs', Manifest) = FileOf(fs, Manifest) /\ Records(fs', Manifest) = FirstEdits
    BY <1>1, <1>2, <1>4 DEF Exists
  <2> QED BY <1>1, <1>3, <1>4, <2>1, <2>2 DEF CreateInv, Opened, Running, Creating
<1>8. RunInv'
  BY <1>1 DEF RunInv, Running
<1> QED BY <1>1, <1>6, <1>7, <1>8 DEF PowerInv

LEMMA RenameCurrentStep ==
    ASSUME Journaled, PowerInv, TypeInv', RenameCurrent PROVE PowerInv'
<1>1. /\ FsType(fs) /\ FsType(fs') /\ DiskInv(fs, order, synced)
      /\ pc = "rename" /\ pc' = "dirsync" /\ order' = order /\ synced' = synced
      /\ fs' = Rename(fs, CurrentTmp, Current)
  BY DEF PowerInv, TypeInv, RenameCurrent, Goto, ghosts
<1>2. /\ ~Exists(fs, Current) /\ fs.disks = {fs.dir} /\ Exists(fs, CurrentTmp)
      /\ Synced(FileOf(fs, CurrentTmp)) /\ Records(fs, CurrentTmp) # <<>>
      /\ Exists(fs, Manifest) /\ Synced(FileOf(fs, Manifest)) /\ Records(fs, Manifest) = FirstEdits
  BY <1>1 DEF PowerInv, CreateInv, Creating
<1>3. DiskInv(fs', order, synced) /\ Exists(fs', Current) /\ Records(fs', Manifest) = FirstEdits
  BY <1>1, <1>2, RenameMakesDatabase
<1>4. CreateInv'
  BY <1>1, <1>3 DEF CreateInv, Creating, Opened
<1>5. RunInv'
  BY <1>1 DEF RunInv, Running
<1> QED BY <1>1, <1>3, <1>4, <1>5 DEF PowerInv

LEMMA SyncCurrentStep ==
    ASSUME Journaled, PowerInv, TypeInv', SyncCurrent PROVE PowerInv'
<1>1. /\ FsType(fs) /\ FsType(fs') /\ DiskInv(fs, order, synced)
      /\ pc = "dirsync" /\ pc' = "replay" /\ order' = order /\ synced' = synced
      /\ fs' = SyncDirectory(fs) /\ ver' = NewVersions
      /\ Exists(fs, Current) /\ Records(fs, Manifest) = FirstEdits
  BY DEF PowerInv, TypeInv, SyncCurrent, Goto, ghosts, CreateInv, Opened
<1>2. fs'.dir = fs.dir /\ fs'.inodes = fs.inodes /\ fs'.disks = {fs.dir}
  <2>1. fs = [dir |-> fs.dir, disks |-> fs.disks, inodes |-> fs.inodes]
    BY <1>1 DEF FsType, Systems
  <2> QED BY <1>1, <2>1 DEF SyncDirectory
<1>3. \A n : FileOf(fs', n) = FileOf(fs, n) /\ Records(fs', n) = Records(fs, n)
              /\ (Exists(fs', n) <=> Exists(fs, n))
  BY <1>2 DEF FileOf, Records, Exists
<1>4. DiskInv(fs', order, synced)
  <2>1. \A e \in fs'.disks :
              \/ \E d \in fs.disks : \A m \in Names \ Temps : e[m] = d[m]
              \/ \A m \in Names \ Temps : e[m] = fs'.dir[m]
    BY <1>2
  <2> QED BY <1>1, <1>2, <1>3, <2>1, Frame
<1>5. CreateInv'
  BY <1>1, <1>3 DEF CreateInv, Creating
<1>6. RunInv'
  <2>1. Replayed(fs').files = {} /\ Replayed(fs').log = 1
    BY <1>1, <1>3, ReplayedFirst
  <2> QED BY <1>1, <2>1 DEF RunInv, Running, NewVersions
<1> QED BY <1>1, <1>4, <1>5, <1>6 DEF PowerInv

-----------------------------------------------------------------------------
(* DB::open, and writes *)

\* Where there is a CURRENT, DB::open succeeds, and this is what it finds.
LEMMA RecoveredIs ==
    ASSUME NEW f, NEW o, NEW s, DiskInv(f, o, s), Exists(f, Current)
    PROVE  CanRecover(f) /\ Recovered(f) = InTables(f) \cup InLog(f)
<1>1. ManifestOnDisk(f) /\ TablesOnDisk(f)
  BY DEF DiskInv
<1>2. CanRecover(f)
  BY <1>1 DEF CanRecover, ManifestOnDisk, TablesOnDisk
<1>3. Recovered(f) = InTables(f) \cup InLog(f)
  BY <1>2, Zenon DEF Recovered, InTables, InLog
<1> QED BY <1>2, <1>3

LEMMA FewerWrites ==
    ASSUME NEW f, NEW o, NEW p, NEW s, DiskInv(f, o, s), Exists(f, Current),
           p = o \cap (InTables(f) \cup InLog(f))
    PROVE  DiskInv(f, p, s) /\ p = InTables(f) \cup InLog(f)
<1>1. OnDisk(f, o, s) /\ InOrder(f, o) /\ p \subseteq o
  BY DEF DiskInv
<1>2. OnDisk(f, p, s)
  BY <1>1 DEF OnDisk
<1>3. InTables(f) \subseteq p /\ InLog(f) \subseteq p
  BY <1>1 DEF InOrder
<1>4. InOrder(f, p)
  <2>1. \A v, w \in p : v < w /\ w \in InTables(f) => v \in InTables(f)
    BY <1>1 DEF InOrder
  <2>2. ASSUME Exists(f, Wal(Replayed(f).log)), NEW recs, recs = Records(f, Wal(Replayed(f).log))
        PROVE  \A i \in DOMAIN recs : \A v \in p :
                  v < recs[i].n => v \in InTables(f) \/ \E j \in 1..i : recs[j].n = v
    BY <1>1, <2>2 DEF InOrder
  <2> QED BY <1>3, <2>1, <2>2 DEF InOrder
<1> QED BY <1>2, <1>3, <1>4 DEF DiskInv

LEMMA PutIs == ASSUME NEW r \in Record, r.kind = "write" PROVE r = Put(r.n)
BY DEF Record, Put, Edit, Footer

LEMMA RecoverStep ==
    ASSUME Journaled, PowerInv, TypeInv', Recover PROVE PowerInv'
<1>1. /\ FsType(fs) /\ DiskInv(fs, order, synced) /\ fs' = fs
      /\ pc = "down" /\ pc' = "replay" /\ order' = order /\ synced' = synced
      /\ ver' = Replayed(fs) /\ Exists(fs, Current) /\ Exists(fs, Manifest)
  BY DEF PowerInv, TypeInv, Recover, CanRecover, Goto, ghosts
<1>2. CreateInv'
  BY <1>1 DEF CreateInv, Creating
<1>3. RunInv'
  <2>1. Records(fs, Manifest) \in Seq(Record)
    BY <1>1, NameFacts, RecordsType
  <2>2. Replayed(fs).next > Replayed(fs).log
    BY <2>1, ReplayedType
  <2> QED BY <1>1, <2>2 DEF RunInv, Running
<1> QED BY <1>1, <1>2, <1>3 DEF PowerInv

LEMMA ReplayWalStep ==
    ASSUME Journaled, PowerInv, TypeInv', ReplayWal PROVE PowerInv'
<1>1. /\ FsType(fs) /\ FsType(fs') /\ DiskInv(fs, order, synced)
      /\ pc = "replay" /\ pc' = "up" /\ synced' = synced /\ ver' = ver
      /\ order' = order \cap Recovered(fs) /\ mem' = Memtable(fs, ver)
      /\ fs' = OpenAppend(fs, Wal(ver.log)) /\ Exists(fs, Current)
      /\ ver.files = Replayed(fs).files /\ ver.log = Replayed(fs).log /\ ver.next > ver.log
      /\ ver.log \in 1..MaxNumber
  BY DEF PowerInv, TypeInv, ProcessType, ReplayWal, Goto, CreateInv, RunInv, Opened
<1>2. PICK l \in Names \ Temps : l = Wal(ver.log) /\ l # Current /\ l # Manifest
  BY <1>1, NameFacts, NamesDiffer
<1>3. /\ \A n \in Names : n # l => fs'.dir[n] = fs.dir[n]
      /\ \A n \in Names : fs.dir[n] # 0 =>
            fs'.dir[n] = fs.dir[n] /\ FileOf(fs', n) = FileOf(fs, n) /\ Records(fs', n) = Records(fs, n)
      /\ Exists(fs', l) /\ (~Exists(fs, l) => FileOf(fs', l) = Empty)
      /\ \A e \in fs'.disks : e \in fs.disks \/ e = fs'.dir
  <2>1. l \in Names /\ fs' = OpenAppend(fs, l)
    BY <1>1, <1>2
  <2> QED BY <1>1, <2>1, OpenAppendKeeps
<1>4. Current \in Names /\ Manifest \in Names /\ \A n \in 1..MaxNumber : Wal(n) \in Names
  BY NameFacts
<1>5. /\ DiskInv(fs', order, synced)
      /\ Replayed(fs') = Replayed(fs) /\ InTables(fs') = InTables(fs) /\ InLog(fs') = InLog(fs)
  <2>1. \A e \in fs'.disks :
              \/ \E d \in fs.disks : \A m \in Names \ Temps : e[m] = d[m]
              \/ \A m \in Names \ Temps : e[m] = fs'.dir[m]
    BY <1>3
  <2>2. \A n \in 1..MaxNumber : fs.dir[Wal(n)] = 0 /\ fs'.dir[Wal(n)] # 0 =>
              n >= Replayed(fs).log /\ FileOf(fs', Wal(n)) = Empty
    <3>1. ASSUME NEW n \in 1..MaxNumber, fs.dir[Wal(n)] = 0, fs'.dir[Wal(n)] # 0
          PROVE  n >= Replayed(fs).log /\ FileOf(fs', Wal(n)) = Empty
      <4>1. Wal(n) = l
        BY <1>3, <1>4, <3>1
      <4>2. n = ver.log
        BY <1>2, <4>1, NamesDiffer
      <4> QED BY <1>1, <1>3, <3>1, <4>1, <4>2 DEF Exists
    <3> QED BY <3>1
  <2>3. fs'.dir[Current] = fs.dir[Current]
    BY <1>2, <1>3, <1>4
  <2> QED BY <1>1, <1>3, <2>1, <2>2, <2>3, Frame
<1>6. Exists(fs', Current)
  BY <1>1, <1>3, <1>4 DEF Exists
<1>7. DiskInv(fs', order', synced) /\ order' = InTables(fs') \cup InLog(fs')
  <2>1. Recovered(fs) = InTables(fs') \cup InLog(fs')
    BY <1>1, <1>5, RecoveredIs
  <2> QED BY <1>1, <1>5, <1>6, <2>1, FewerWrites
<1>8. Records(fs', l) = Puts(mem')
  <2>1. CASE Exists(fs, l)
    <3>1. PICK recs \in Seq(Record) : recs = Records(fs, l)
      BY <1>1, <1>2, <2>1, RecordsType
    <3>2. mem' = [i \in DOMAIN recs |-> recs[i].n]
      BY <1>1, <1>2, <2>1, <3>1 DEF Memtable
    <3>3. \A i \in DOMAIN recs : recs[i].kind = "write"
      <4>1. ManifestOnDisk(fs) /\ LogsOnDisk(fs)
        BY <1>1 DEF DiskInv
      <4> QED BY <1>1, <1>2, <2>1, <3>1, <4>1 DEF LogsOnDisk, FileOf, Records
    <3>4. \A i \in DOMAIN recs : recs[i] = Put(recs[i].n)
      BY <3>3, PutIs
    <3>5. Puts(mem') = [i \in DOMAIN recs |-> Put(recs[i].n)]
      BY <3>2 DEF Puts
    <3>6. recs = [i \in DOMAIN recs |-> Put(recs[i].n)]
      BY <3>4
    <3> QED BY <1>2, <1>3, <2>1, <3>1, <3>5, <3>6 DEF Exists
  <2>2. CASE ~Exists(fs, l)
    <3>1. mem' = <<>>
      BY <1>1, <1>2, <2>2 DEF Memtable
    <3>2. Puts(mem') = <<>>
      BY <3>1 DEF Puts
    <3>3. Records(fs', l) = <<>>
      BY <1>3, <2>2 DEF Records, FileOf, Empty
    <3> QED BY <3>2, <3>3
  <2> QED BY <2>1, <2>2
<1>9. CreateInv'
  BY <1>1, <1>6 DEF CreateInv, Creating
<1>10. RunInv'
  <2>1. /\ ver'.files = Replayed(fs').files /\ ver'.log = Replayed(fs').log /\ ver'.next > ver'.log
        /\ Exists(fs', Wal(ver'.log)) /\ Records(fs', Wal(ver'.log)) = Puts(mem')
        /\ order' \subseteq InTables(fs') \cup InLog(fs')
    BY <1>1, <1>2, <1>3, <1>5, <1>7, <1>8
  <2> QED BY <1>1, <2>1 DEF RunInv
<1> QED BY <1>1, <1>7, <1>9, <1>10 DEF PowerInv

LEMMA PutsAppend ==
    ASSUME NEW m \in Seq(Nat), NEW w \in Nat
    PROVE  Puts(Append(m, w)) = Puts(m) \o <<Put(w)>>
<1>1. PICK p \in Seq(Record) : p = Puts(m) /\ Len(p) = Len(m)
  <2>1. Len(Puts(m)) = Len(m)
    BY DEF Puts
  <2> QED BY <2>1, PutsType
<1>2. PICK r \in Record : r = Put(w)
  BY RecordTypes
<1>3. PICK q \in Seq(Record) : q = Puts(Append(m, w)) /\ Len(q) = Len(m) + 1
  <2>1. Append(m, w) \in Seq(Nat) /\ Len(Append(m, w)) = Len(m) + 1
    OBVIOUS
  <2>2. Len(Puts(Append(m, w))) = Len(m) + 1
    BY <2>1 DEF Puts
  <2> QED BY <2>1, <2>2, PutsType
<1>4. \A i \in 1..Len(m) + 1 : q[i] = IF i = Len(m) + 1 THEN r ELSE p[i]
  BY <1>1, <1>2, <1>3 DEF Puts
<1>5. q = p \o <<r>>
  BY <1>1, <1>3, <1>4
<1> QED BY <1>1, <1>2, <1>3, <1>5

\* What holds while the database is open.
LEMMA OpenFacts ==
    ASSUME PowerInv, pc \in Running
    PROVE  /\ FsType(fs) /\ ProcessType /\ DiskInv(fs, order, synced) /\ Exists(fs, Current)
           /\ ver.files = Replayed(fs).files /\ ver.log = Replayed(fs).log /\ ver.next > ver.log
           /\ ver \in [files : SUBSET (1..MaxNumber), log : 1..MaxNumber, next : Nat \ {0}]
           /\ Wal(ver.log) \in Names \ Temps /\ ver.log \in 1..MaxNumber /\ ver.next \in Nat
           /\ Exists(fs, Wal(ver.log)) /\ Records(fs, Wal(ver.log)) = Puts(mem) /\ mem \in Seq(Nat)
           /\ order \subseteq InTables(fs) \cup InLog(fs)
           /\ order \subseteq 1..writes /\ synced \in 0..writes /\ writes \in Nat
<1>1. TypeInv /\ CreateInv /\ RunInv /\ DiskInv(fs, order, synced)
  BY DEF PowerInv
<1>2. ProcessType /\ FsType(fs) /\ Exists(fs, Current)
  BY <1>1 DEF TypeInv, CreateInv, Opened
<1>3. Wal(ver.log) \in Names \ Temps
  BY <1>2, NameFacts DEF ProcessType
<1> QED BY <1>1, <1>2, <1>3, PowerLossAssumption DEF RunInv, ProcessType

LEMMA WriteStep ==
    ASSUME Journaled, PowerInv, TypeInv', NEW sync \in BOOLEAN, Write(sync) PROVE PowerInv'
<1>1. pc = "up" /\ pc' = "up" /\ ver' = ver /\ num' = num /\ pc \in Running
  BY DEF Write, Running
<1>2. /\ FsType(fs) /\ FsType(fs') /\ DiskInv(fs, order, synced) /\ Exists(fs, Current)
      /\ ver.files = Replayed(fs).files /\ ver.log = Replayed(fs).log /\ ver.next > ver.log
      /\ Wal(ver.log) \in Names \ Temps
      /\ Exists(fs, Wal(ver.log)) /\ Records(fs, Wal(ver.log)) = Puts(mem) /\ mem \in Seq(Nat)
      /\ order \subseteq InTables(fs) \cup InLog(fs)
      /\ order \subseteq 1..writes /\ synced \in 0..writes /\ writes \in Nat
  BY <1>1, OpenFacts DEF TypeInv
<1>3. PICK w \in Nat : w = writes + 1
  BY <1>2
<1>4. /\ fs' = LogWrite(w, sync) /\ mem' = Append(mem, w) /\ order' = order \cup {w}
      /\ synced' = (IF sync THEN w ELSE synced)
  BY <1>3 DEF Write
<1>5. PICK l \in Names : l = Wal(Replayed(fs).log) /\ l = Wal(ver.log) /\ Exists(fs, l)
  BY <1>2
<1>6. PICK recs \in Seq(Record) : recs = Records(fs, l) /\ recs = Puts(mem)
  BY <1>2, <1>5, RecordsType
<1>7. PICK put \in Seq(Record) : put = <<Put(w)>>
  <2>1. <<Put(w)>> \in Seq(Record)
    BY RecordTypes
  <2> QED BY <2>1
<1>8. PICK file \in File : /\ Rewritten(fs, fs', fs.dir[l], file)
                           /\ file.data = recs \o put
                           /\ IF sync THEN file.safe = file.data /\ fs'.disks = {fs.dir}
                              ELSE file.safe = FileOf(fs, l).safe /\ fs'.disks = fs.disks
  <2>1. fs \in Systems /\ recs \o put \in Seq(Record) /\ FileOf(fs, l).safe \in Seq(Record)
    <3>1. recs \o put \in Seq(Record)
      OBVIOUS
    <3>2. FileOf(fs, l) \in File
      BY <1>2, <1>5, RecordsType
    <3> QED BY <1>2, <3>1, <3>2 DEF FsType, File
  <2>2. PICK new \in Seq(Record), safe \in Seq(Record) : new = recs \o put /\ safe = FileOf(fs, l).safe
    BY <2>1
  <2>3. CASE sync
    <3>1. fs' = SyncAll(WriteAll(fs, l, put), l)
      BY <1>4, <1>5, <1>7, <2>3 DEF LogWrite
    <3>2. Rewritten(fs, fs', fs.dir[l], [data |-> new, safe |-> new]) /\ fs'.disks = {fs.dir}
      BY <1>6, <2>1, <2>2, <3>1, AppendSyncedIs
    <3>3. [data |-> new, safe |-> new] \in File
      BY DEF File
    <3> QED BY <2>2, <2>3, <3>2, <3>3
  <2>4. CASE ~sync
    <3>1. fs' = WriteAll(fs, l, put)
      BY <1>4, <1>5, <1>7, <2>4 DEF LogWrite
    <3>2. Rewritten(fs, fs', fs.dir[l], [data |-> new, safe |-> safe]) /\ fs'.disks = fs.disks
      BY <1>6, <2>1, <2>2, <3>1, WriteAllIs
    <3>3. [data |-> new, safe |-> safe] \in File
      BY DEF File
    <3> QED BY <2>2, <2>4, <3>2, <3>3
  <2> QED BY <2>3, <2>4
<1>9. /\ DiskInv(fs', order', synced')
      /\ Replayed(fs') = Replayed(fs) /\ InTables(fs') = InTables(fs)
      /\ InLog(fs) \cup {w} \subseteq InLog(fs')
  <2>1. order \subseteq Nat /\ \A v \in order : v < w
    <3>1. order \subseteq 1..writes /\ writes \in Nat
      BY <1>2
    <3> QED BY <1>3, <3>1
  <2>2. ~(w <= synced)
    BY <1>2, <1>3
  <2>3. PICK tail, s, t : tail = {w} /\ s = synced /\ t = synced'
    OBVIOUS
  <2>4. \/ file.data = Records(fs, l) /\ tail = {}
        \/ file.data = Records(fs, l) \o <<Put(w)>> /\ tail = {w}
    BY <1>6, <1>7, <1>8, <2>3
  <2>5. \/ fs'.disks = fs.disks /\ file.safe = FileOf(fs, l).safe /\ t = s /\ \A v \in tail : ~(v <= s)
        \/ fs'.disks = {fs.dir} /\ file.safe = file.data
    BY <1>4, <1>8, <2>2, <2>3
  <2>6. /\ FsType(fs) /\ FsType(fs') /\ DiskInv(fs, order, s) /\ Exists(fs, Current)
        /\ order \subseteq InTables(fs) \cup InLog(fs)
        /\ l = Wal(Replayed(fs).log) /\ Exists(fs, l) /\ Rewritten(fs, fs', fs.dir[l], file)
    BY <1>2, <1>5, <1>8, <2>3
  <2>7. LogWritten(fs, fs', order, s, t, l, file, w, tail)
    BY <2>1, <2>4, <2>5, <2>6 DEF LogWritten
  <2>8. /\ DiskInv(fs', order \cup tail, t)
        /\ Replayed(fs') = Replayed(fs) /\ InTables(fs') = InTables(fs)
        /\ \A x : x \in InLog(fs) \/ x \in tail => x \in InLog(fs')
    BY <2>7, WalStep
  <2> QED BY <1>4, <2>3, <2>8
<1>10. Exists(fs', Current) /\ Exists(fs', l) /\ Records(fs', l) = Puts(mem')
  <2>1. fs'.dir = fs.dir
    BY <1>8 DEF Rewritten
  <2>2. FileOf(fs', l) = file
    BY <1>2, <1>5, <1>8, RecordsAfter
  <2>3. Records(fs', l) = recs \o put
    BY <1>8, <2>2 DEF Records, FileOf
  <2> QED BY <1>2, <1>4, <1>5, <1>6, <1>7, <2>1, <2>3, PutsAppend DEF Exists
<1>11. CreateInv'
  BY <1>1, <1>10 DEF CreateInv, Creating
<1>12. RunInv'
  <2>1. /\ ver'.files = Replayed(fs').files /\ ver'.log = Replayed(fs').log /\ ver'.next > ver'.log
        /\ Exists(fs', Wal(ver'.log)) /\ Records(fs', Wal(ver'.log)) = Puts(mem')
        /\ order' \subseteq InTables(fs') \cup InLog(fs')
    BY <1>1, <1>2, <1>4, <1>5, <1>9, <1>10
  <2> QED BY <1>1, <2>1 DEF RunInv
<1> QED BY <1>9, <1>11, <1>12 DEF PowerInv

LEMMA SyncWalStep ==
    ASSUME Journaled, PowerInv, TypeInv', SyncWal PROVE PowerInv'
<1>1. /\ pc = "up" /\ pc' = "up" /\ ver' = ver /\ num' = num /\ mem' = mem /\ order' = order
      /\ pc \in Running
  BY DEF SyncWal, Running, process
<1>2. /\ FsType(fs) /\ FsType(fs') /\ DiskInv(fs, order, synced) /\ Exists(fs, Current)
      /\ ver.files = Replayed(fs).files /\ ver.log = Replayed(fs).log /\ ver.next > ver.log
      /\ Wal(ver.log) \in Names \ Temps
      /\ Exists(fs, Wal(ver.log)) /\ Records(fs, Wal(ver.log)) = Puts(mem)
      /\ order \subseteq InTables(fs) \cup InLog(fs)
      /\ order \subseteq 1..writes /\ writes \in Nat
  BY <1>1, OpenFacts DEF TypeInv
<1>3. PICK l \in Names : l = Wal(Replayed(fs).log) /\ l = Wal(ver.log) /\ Exists(fs, l)
  BY <1>2
<1>4. PICK recs \in Seq(Record) : recs = Records(fs, l)
  BY <1>2, <1>3, RecordsType
<1>5. PICK file \in File : /\ Rewritten(fs, fs', fs.dir[l], file)
                           /\ file.data = recs /\ file.safe = file.data /\ fs'.disks = {fs.dir}
  <2>1. fs \in Systems /\ fs' = SyncAll(fs, l)
    BY <1>2, <1>3 DEF FsType, SyncWal
  <2>2. Rewritten(fs, fs', fs.dir[l], [data |-> recs, safe |-> recs]) /\ fs'.disks = {fs.dir}
    BY <1>4, <2>1, SyncAllIs
  <2>3. [data |-> recs, safe |-> recs] \in File
    BY DEF File
  <2> QED BY <2>2, <2>3
<1>6. /\ DiskInv(fs', order, synced')
      /\ Replayed(fs') = Replayed(fs) /\ InTables(fs') = InTables(fs) /\ InLog(fs) \subseteq InLog(fs')
  <2>1. PICK w \in Nat : w = writes + 1
    BY <1>2
  <2>2. order \subseteq Nat /\ \A v \in order : v < w
    <3>1. order \subseteq 1..writes /\ writes \in Nat
      BY <1>2
    <3> QED BY <2>1, <3>1
  <2>3. PICK tail, s, t : tail = {} /\ s = synced /\ t = synced'
    OBVIOUS
  <2>4. \/ file.data = Records(fs, l) /\ tail = {}
        \/ file.data = Records(fs, l) \o <<Put(w)>> /\ tail = {w}
    BY <1>4, <1>5, <2>3
  <2>5. \/ fs'.disks = fs.disks /\ file.safe = FileOf(fs, l).safe /\ t = s /\ \A v \in tail : ~(v <= s)
        \/ fs'.disks = {fs.dir} /\ file.safe = file.data
    BY <1>5
  <2>6. /\ FsType(fs) /\ FsType(fs') /\ DiskInv(fs, order, s) /\ Exists(fs, Current)
        /\ order \subseteq InTables(fs) \cup InLog(fs)
        /\ l = Wal(Replayed(fs).log) /\ Exists(fs, l) /\ Rewritten(fs, fs', fs.dir[l], file)
    BY <1>2, <1>3, <1>5, <2>3
  <2>7. LogWritten(fs, fs', order, s, t, l, file, w, tail)
    BY <2>2, <2>4, <2>5, <2>6 DEF LogWritten
  <2>8. /\ DiskInv(fs', order \cup tail, t)
        /\ Replayed(fs') = Replayed(fs) /\ InTables(fs') = InTables(fs)
        /\ \A x : x \in InLog(fs) \/ x \in tail => x \in InLog(fs')
    BY <2>7, WalStep
  <2> QED BY <2>3, <2>8
<1>7. Exists(fs', Current) /\ Exists(fs', l) /\ Records(fs', l) = recs
  <2>1. fs'.dir = fs.dir
    BY <1>5 DEF Rewritten
  <2>2. FileOf(fs', l) = file
    BY <1>2, <1>3, <1>5, RecordsAfter
  <2> QED BY <1>2, <1>3, <1>5, <2>1, <2>2 DEF Records, FileOf, Exists
<1>8. CreateInv'
  BY <1>1, <1>7 DEF CreateInv, Creating
<1>9. RunInv'
  <2>1. /\ ver'.files = Replayed(fs').files /\ ver'.log = Replayed(fs').log /\ ver'.next > ver'.log
        /\ Exists(fs', Wal(ver'.log)) /\ Records(fs', Wal(ver'.log)) = Puts(mem')
        /\ order' \subseteq InTables(fs') \cup InLog(fs')
    BY <1>1, <1>2, <1>3, <1>4, <1>6, <1>7
  <2> QED BY <1>1, <2>1 DEF RunInv
<1> QED BY <1>1, <1>6, <1>8, <1>9 DEF PowerInv

LEMMA FlushRefusedStep ==
    ASSUME Journaled, PowerInv, TypeInv', FlushRefused PROVE PowerInv'
<1>1. /\ pc = "up" /\ pc' = "up" /\ fs' = fs /\ mem' = mem /\ order' = order /\ synced' = synced
      /\ ver' = [ver EXCEPT !.next = @ + 1] /\ pc \in Running
  BY DEF FlushRefused, Running, ghosts
<1>2. /\ DiskInv(fs, order, synced) /\ Exists(fs, Current)
      /\ ver.files = Replayed(fs).files /\ ver.log = Replayed(fs).log /\ ver.next > ver.log
      /\ ver \in [files : SUBSET (1..MaxNumber), log : 1..MaxNumber, next : Nat \ {0}]
      /\ Exists(fs, Wal(ver.log)) /\ Records(fs, Wal(ver.log)) = Puts(mem)
      /\ order \subseteq InTables(fs) \cup InLog(fs)
  BY <1>1, OpenFacts
<1>3. CreateInv'
  BY <1>1, <1>2 DEF CreateInv, Creating
<1>4. ver'.files = ver.files /\ ver'.log = ver.log /\ ver'.next > ver'.log
  BY <1>1, <1>2
<1>5. RunInv'
  BY <1>1, <1>2, <1>4 DEF RunInv
<1> QED BY <1>1, <1>2, <1>3, <1>5 DEF PowerInv

-----------------------------------------------------------------------------
(* DB::flush *)

\* A step that leaves the log and what the manifest says as they are.
LEMMA FlushFrame ==
    ASSUME Journaled, PowerInv, TypeInv', pc \in Running, pc' \in Running,
           ver'.files = ver.files, ver'.log = ver.log, ver'.next >= ver.next, ver'.next \in Nat,
           mem' = mem, order' = order, synced' = synced,
           \A n \in Names \ Temps : fs.dir[n] # 0 =>
              /\ fs'.dir[n] = fs.dir[n]
              /\ FileOf(fs', n) = FileOf(fs, n) /\ Records(fs', n) = Records(fs, n),
           \A e \in fs'.disks : e \in fs.disks \/ \A n \in Names \ Temps : e[n] = fs'.dir[n],
           \A n \in 1..MaxNumber : fs.dir[Wal(n)] = 0 /\ fs'.dir[Wal(n)] # 0 =>
              n >= ver.log /\ FileOf(fs', Wal(n)) = Empty
    PROVE  /\ DiskInv(fs', order', synced') /\ Exists(fs', Current)
           /\ ver'.files = Replayed(fs').files /\ ver'.log = Replayed(fs').log /\ ver'.next > ver'.log
           /\ Exists(fs', Wal(ver'.log)) /\ Records(fs', Wal(ver'.log)) = Puts(mem')
           /\ order' \subseteq InTables(fs') \cup InLog(fs')
           /\ InTables(fs') = InTables(fs)
<1>1. /\ FsType(fs) /\ FsType(fs') /\ DiskInv(fs, order, synced) /\ Exists(fs, Current)
      /\ ver.files = Replayed(fs).files /\ ver.log = Replayed(fs).log /\ ver.next > ver.log
      /\ Wal(ver.log) \in Names \ Temps /\ ver.log \in 1..MaxNumber /\ ver.next \in Nat
      /\ Exists(fs, Wal(ver.log)) /\ Records(fs, Wal(ver.log)) = Puts(mem)
      /\ order \subseteq InTables(fs) \cup InLog(fs)
  BY OpenFacts DEF TypeInv
<1>2. Current \in Names \ Temps
  BY NameFacts
<1>3. fs'.dir[Current] = fs.dir[Current]
  BY <1>1, <1>2 DEF Exists
<1>4. \A e \in fs'.disks :
              \/ \E d \in fs.disks : \A m \in Names \ Temps : e[m] = d[m]
              \/ \A m \in Names \ Temps : e[m] = fs'.dir[m]
  OBVIOUS
<1>5. /\ DiskInv(fs', order, synced)
      /\ Replayed(fs') = Replayed(fs) /\ InTables(fs') = InTables(fs) /\ InLog(fs') = InLog(fs)
  BY <1>1, <1>3, <1>4, Frame
<1>6. Exists(fs', Current) /\ Exists(fs', Wal(ver.log)) /\ Records(fs', Wal(ver.log)) = Puts(mem)
  BY <1>1, <1>3 DEF Exists
<1>7. ver'.next > ver'.log
  BY <1>1
<1> QED BY <1>1, <1>5, <1>6, <1>7

LEMMA BuildTableStep ==
    ASSUME Journaled, PowerInv, TypeInv', BuildTable PROVE PowerInv'
<1>1. /\ pc = "up" /\ pc' = "publish" /\ pc \in Running /\ pc' \in Running
      /\ mem' = mem /\ order' = order /\ synced' = synced /\ num' = ver.next
      /\ ver' = [ver EXCEPT !.next = @ + 1] /\ ~Exists(fs, Table(ver.next))
      /\ ver.next < MaxNumber
      /\ fs' = Built(fs, TableTmp(ver.next), Puts(mem) \o <<Footer>>)
  BY DEF BuildTable, Goto, Running, ghosts, Puts
<1>2. /\ FsType(fs) /\ mem \in Seq(Nat)
      /\ ver \in [files : SUBSET (1..MaxNumber), log : 1..MaxNumber, next : Nat \ {0}]
  BY <1>1, OpenFacts
<1>3. PICK n \in 1..MaxNumber : n = ver.next
  BY <1>1, <1>2, PowerLossAssumption
<1>4. PICK t \in Names : t = TableTmp(n) /\ t \in Temps
  BY NameFacts
<1>5. PICK recs \in Seq(Record) : recs = Puts(mem) \o <<Footer>>
  <2>1. Puts(mem) \in Seq(Record) /\ <<Footer>> \in Seq(Record)
    BY <1>2, PutsType, RecordTypes
  <2>2. Puts(mem) \o <<Footer>> \in Seq(Record)
    BY <2>1
  <2> QED BY <2>2
<1>6. /\ fs'.disks = {fs'.dir} /\ Exists(fs', t)
      /\ Synced(FileOf(fs', t)) /\ Records(fs', t) = recs
      /\ \A m \in Names : m # t => fs'.dir[m] = fs.dir[m]
      /\ \A m \in Names : m # t /\ fs.dir[m] # 0 =>
            FileOf(fs', m) = FileOf(fs, m) /\ Records(fs', m) = Records(fs, m)
  <2>1. FsType(fs) /\ fs' = Built(fs, t, recs)
    BY <1>1, <1>2, <1>3, <1>4, <1>5
  <2> QED BY <2>1, BuiltIs
<1>7. ver'.files = ver.files /\ ver'.log = ver.log /\ ver'.next >= ver.next /\ ver'.next \in Nat
  BY <1>1, <1>2
<1>8. /\ \A m \in Names \ Temps : fs.dir[m] # 0 =>
            /\ fs'.dir[m] = fs.dir[m]
            /\ FileOf(fs', m) = FileOf(fs, m) /\ Records(fs', m) = Records(fs, m)
      /\ \A e \in fs'.disks : e \in fs.disks \/ \A m \in Names \ Temps : e[m] = fs'.dir[m]
      /\ \A m \in 1..MaxNumber : fs.dir[Wal(m)] = 0 /\ fs'.dir[Wal(m)] # 0 =>
            m >= ver.log /\ FileOf(fs', Wal(m)) = Empty
  <2>1. \A m \in 1..MaxNumber : Wal(m) \in Names \ Temps
    BY NameFacts
  <2> QED BY <1>4, <1>6, <2>1
<1>9. /\ DiskInv(fs', order', synced') /\ Exists(fs', Current)
      /\ ver'.files = Replayed(fs').files /\ ver'.log = Replayed(fs').log /\ ver'.next > ver'.log
      /\ Exists(fs', Wal(ver'.log)) /\ Records(fs', Wal(ver'.log)) = Puts(mem')
      /\ order' \subseteq InTables(fs') \cup InLog(fs')
  BY <1>1, <1>7, <1>8, FlushFrame
<1>10. ~Exists(fs', Table(num'))
  <2>1. Table(n) \in Names \ Temps
    BY NameFacts
  <2> QED BY <1>1, <1>3, <1>4, <1>6, <2>1 DEF Exists
<1>11. CreateInv'
  BY <1>1, <1>9 DEF CreateInv, Creating
<1>12. Exists(fs', TableTmp(num')) /\ Synced(FileOf(fs', TableTmp(num')))
         /\ Records(fs', TableTmp(num')) = Puts(mem') \o <<Footer>>
  BY <1>1, <1>3, <1>4, <1>5, <1>6
<1>13. RunInv'
  BY <1>1, <1>9, <1>10, <1>12 DEF RunInv
<1> QED BY <1>9, <1>11, <1>13 DEF PowerInv

LEMMA PublishTableStep ==
    ASSUME Journaled, PowerInv, TypeInv', PublishTable PROVE PowerInv'
<1>1. /\ pc = "publish" /\ pc' = "add" /\ pc \in Running /\ pc' \in Running
      /\ mem' = mem /\ order' = order /\ synced' = synced /\ num' = num /\ ver' = ver
      /\ fs' = Rename(fs, TableTmp(num), Table(num))
  BY DEF PublishTable, Goto, Running, ghosts, process
<1>2. /\ FsType(fs) /\ ver.next \in Nat /\ num \in 1..MaxNumber
  BY <1>1, OpenFacts DEF ProcessType
<1>3. /\ ~Exists(fs, Table(num)) /\ Exists(fs, TableTmp(num)) /\ Synced(FileOf(fs, TableTmp(num)))
      /\ Records(fs, TableTmp(num)) = Puts(mem) \o <<Footer>>
  BY <1>1 DEF PowerInv, RunInv
<1>4. PICK t \in Names, to \in Names : t = TableTmp(num) /\ to = Table(num)
  BY <1>2, NameFacts
<1> DEFINE i == fs.dir[t]
<1>5. t \in Temps /\ to \notin Temps
  BY <1>2, <1>4, NameFacts
<1>6. /\ fs'.inodes = fs.inodes /\ fs'.dir = Moved(fs.dir, t, to, i)
      /\ fs'.disks = fs.disks \cup {fs'.dir}
  <2>1. fs \in Systems
    BY <1>2 DEF FsType
  <2>2. /\ fs'.inodes = fs.inodes /\ fs'.dir = Moved(fs.dir, t, to, i)
        /\ fs'.disks = fs.disks \cup {Moved(fs.dir, t, to, i)}
    BY <1>1, <1>4, <2>1, RenameIs
  <2> QED BY <2>2
<1>7. fs'.dir[to] = i /\ \A m \in Names \ Temps : m # to => fs'.dir[m] = fs.dir[m]
  BY <1>5, <1>6 DEF Moved
<1>8. /\ \A m \in Names \ Temps : fs.dir[m] # 0 =>
            /\ fs'.dir[m] = fs.dir[m]
            /\ FileOf(fs', m) = FileOf(fs, m) /\ Records(fs', m) = Records(fs, m)
      /\ \A e \in fs'.disks : e \in fs.disks \/ \A m \in Names \ Temps : e[m] = fs'.dir[m]
      /\ \A m \in 1..MaxNumber : fs.dir[Wal(m)] = 0 /\ fs'.dir[Wal(m)] # 0 =>
            m >= ver.log /\ FileOf(fs', Wal(m)) = Empty
  <2>1. \A m \in Names \ Temps : fs.dir[m] # 0 => fs'.dir[m] = fs.dir[m]
    BY <1>3, <1>4, <1>7 DEF Exists
  <2>2. \A m \in 1..MaxNumber : Wal(m) \in Names \ Temps /\ Wal(m) # to
    BY <1>4, NameFacts, NamesDiffer
  <2> QED BY <1>6, <1>7, <2>1, <2>2 DEF FileOf, Records
<1>9. /\ DiskInv(fs', order', synced') /\ Exists(fs', Current)
      /\ ver'.files = Replayed(fs').files /\ ver'.log = Replayed(fs').log /\ ver'.next > ver'.log
      /\ Exists(fs', Wal(ver'.log)) /\ Records(fs', Wal(ver'.log)) = Puts(mem')
      /\ order' \subseteq InTables(fs') \cup InLog(fs')
  <2>1. ver'.next >= ver.next /\ ver'.next \in Nat
    BY <1>1, <1>2
  <2> QED BY <1>1, <1>8, <2>1, FlushFrame
<1>10. /\ Exists(fs', Table(num')) /\ Synced(FileOf(fs', Table(num')))
       /\ Records(fs', Table(num')) = Puts(mem') \o <<Footer>>
  BY <1>1, <1>3, <1>4, <1>6, <1>7 DEF Exists, FileOf, Records
<1>11. CreateInv'
  BY <1>1, <1>9 DEF CreateInv, Creating
<1>12. RunInv'
  BY <1>1, <1>9, <1>10 DEF RunInv
<1> QED BY <1>9, <1>11, <1>12 DEF PowerInv

LEMMA CreateWalStep ==
    ASSUME Journaled, PowerInv, TypeInv', CreateWal PROVE PowerInv'
<1>1. /\ pc = "newlog" /\ pc' = "log" /\ pc \in Running /\ pc' \in Running
      /\ mem' = mem /\ order' = order /\ synced' = synced /\ num' = ver.next
      /\ ver' = [ver EXCEPT !.next = @ + 1] /\ ver.next <= MaxNumber
      /\ fs' = OpenAppend(fs, Wal(ver.next))
  BY DEF CreateWal, Goto, Running, ghosts
<1>2. /\ FsType(fs) /\ ver.next > ver.log /\ ver.log \in 1..MaxNumber
      /\ ver \in [files : SUBSET (1..MaxNumber), log : 1..MaxNumber, next : Nat \ {0}]
      /\ order \subseteq InTables(fs)
  BY <1>1, OpenFacts DEF PowerInv, RunInv
<1>3. PICK n \in 1..MaxNumber : n = ver.next
  BY <1>1, <1>2, PowerLossAssumption
<1>4. PICK l \in Names : l = Wal(n) /\ l \notin Temps
  BY NameFacts
<1>5. /\ \A m \in Names : m # l => fs'.dir[m] = fs.dir[m]
      /\ \A m \in Names : fs.dir[m] # 0 =>
            fs'.dir[m] = fs.dir[m] /\ FileOf(fs', m) = FileOf(fs, m) /\ Records(fs', m) = Records(fs, m)
      /\ Exists(fs', l) /\ (~Exists(fs, l) => FileOf(fs', l) = Empty)
      /\ \A e \in fs'.disks : e \in fs.disks \/ e = fs'.dir
  <2>1. FsType(fs) /\ fs' = OpenAppend(fs, l)
    BY <1>1, <1>2, <1>3, <1>4
  <2> QED BY <2>1, OpenAppendKeeps
<1>6. /\ ver'.files = ver.files /\ ver'.log = ver.log /\ ver'.next >= ver.next /\ ver'.next \in Nat
      /\ num' > ver'.log
  BY <1>1, <1>2
<1>7. \A m \in 1..MaxNumber : fs.dir[Wal(m)] = 0 /\ fs'.dir[Wal(m)] # 0 =>
            m >= ver.log /\ FileOf(fs', Wal(m)) = Empty
  <2>1. ASSUME NEW m \in 1..MaxNumber, fs.dir[Wal(m)] = 0, fs'.dir[Wal(m)] # 0
        PROVE  m >= ver.log /\ FileOf(fs', Wal(m)) = Empty
    <3>1. Wal(m) \in Names
      BY NameFacts
    <3>2. Wal(m) = l
      BY <1>5, <2>1, <3>1
    <3>3. m = n
      BY <1>4, <3>2, NamesDiffer
    <3>4. m >= ver.log
      BY <1>2, <1>3, <3>3
    <3> QED BY <1>5, <2>1, <3>2, <3>4 DEF Exists
  <2> QED BY <2>1
<1>8. /\ DiskInv(fs', order', synced') /\ Exists(fs', Current)
      /\ ver'.files = Replayed(fs').files /\ ver'.log = Replayed(fs').log /\ ver'.next > ver'.log
      /\ Exists(fs', Wal(ver'.log)) /\ Records(fs', Wal(ver'.log)) = Puts(mem')
      /\ order' \subseteq InTables(fs') \cup InLog(fs') /\ InTables(fs') = InTables(fs)
  BY <1>1, <1>5, <1>6, <1>7, FlushFrame
<1>9. CreateInv'
  BY <1>1, <1>8 DEF CreateInv, Creating
<1>10. RunInv'
  <2>1. Exists(fs', Wal(num')) /\ order' \subseteq InTables(fs')
    BY <1>1, <1>2, <1>3, <1>4, <1>5, <1>8
  <2> QED BY <1>1, <1>6, <1>8, <2>1 DEF RunInv
<1> QED BY <1>8, <1>9, <1>10 DEF PowerInv

\* What an edit of the manifest leaves of the log of the running database.
LEMMA LogKept ==
    ASSUME FsType(fs), Exists(fs, Manifest), NEW g, NEW file,
           Rewritten(fs, g, fs.dir[Manifest], file), NEW n \in 1..MaxNumber, Exists(fs, Wal(n))
    PROVE  Exists(g, Wal(n)) /\ Records(g, Wal(n)) = Records(fs, Wal(n))
<1>1. PICK l \in Names, m \in Names : l = Wal(n) /\ m = Manifest /\ l # m
  BY NameFacts, NamesDiffer
<1>2. Exists(fs, l) /\ Exists(fs, m) /\ Rewritten(fs, g, fs.dir[m], file)
  BY <1>1
<1>3. Exists(g, l) /\ Records(g, l) = Records(fs, l)
  BY <1>1, <1>2, OthersKept
<1> QED BY <1>1, <1>3

LEMMA AddFileStep ==
    ASSUME Journaled, PowerInv, TypeInv', AddFile PROVE PowerInv'
<1>1. /\ pc = "add" /\ pc' = "last" /\ pc \in Running
      /\ mem' = mem /\ order' = order /\ synced' = synced
      /\ fs' = LogEdit(Edit("add", num)) /\ ver' = ApplyEdit(ver, Edit("add", num))
  BY DEF AddFile, Goto, Running, ghosts
<1>2. /\ FsType(fs) /\ FsType(fs') /\ DiskInv(fs, order, synced) /\ Exists(fs, Current)
      /\ ver.files = Replayed(fs).files /\ ver.log = Replayed(fs).log /\ ver.next > ver.log
      /\ ver \in [files : SUBSET (1..MaxNumber), log : 1..MaxNumber, next : Nat \ {0}]
      /\ ver.log \in 1..MaxNumber
      /\ Exists(fs, Wal(ver.log)) /\ Records(fs, Wal(ver.log)) = Puts(mem) /\ mem \in Seq(Nat)
      /\ order \subseteq InTables(fs) \cup InLog(fs)
  BY <1>1, OpenFacts DEF TypeInv
<1>3. num \in 1..MaxNumber
  BY <1>1, OpenFacts DEF ProcessType
<1>4. /\ Exists(fs, Table(num)) /\ Synced(FileOf(fs, Table(num)))
      /\ Records(fs, Table(num)) = Puts(mem) \o <<Footer>>
  BY <1>1 DEF PowerInv, RunInv
<1>5. PICK e \in Record : e = Edit("add", num) /\ e.kind = "add" /\ e.n = num
  BY <1>3, RecordTypes DEF Edit
<1>6. EditWritten(fs, fs', e) /\ \E file : Rewritten(fs, fs', fs.dir[Manifest], file)
  <2>1. EditWritten(fs, fs', e)
    BY <1>1, <1>2, <1>5, LogEditIs
  <2> QED BY <2>1 DEF EditWritten
<1>7. Exists(fs, Manifest) /\ Replayed(fs').files = Replayed(fs).files \cup {num}
        /\ Replayed(fs').log = Replayed(fs).log
  <2>1. EditDone(fs, fs', e)
    BY <1>2, <1>6, EditLogged
  <2> QED BY <1>5, <2>1 DEF EditDone
<1>8. DiskInv(fs', order, synced) /\ InTables(fs') = order
  <2>1. /\ Exists(fs, Table(e.n)) /\ Synced(FileOf(fs, Table(e.n)))
        /\ Records(fs, Table(e.n)) = Puts(mem) \o <<Footer>>
        /\ Exists(fs, Wal(Replayed(fs).log)) /\ Records(fs, Wal(Replayed(fs).log)) = Puts(mem)
    BY <1>2, <1>4, <1>5
  <2> QED BY <1>2, <1>5, <1>6, <2>1, AddEdit
<1>9. ver' = [files |-> ver.files \cup {num}, log |-> ver.log, next |-> MaxOf(ver.next, num + 1)]
        /\ MaxOf(ver.next, num + 1) > ver.log
  <2>1. ver' = [files |-> ver.files \cup {num}, log |-> ver.log, next |-> MaxOf(ver.next, num + 1)]
    BY <1>1, <1>2, <1>3, EditIsApplied
  <2>2. MaxOf(ver.next, num + 1) > ver.log
    BY <1>2, <1>3 DEF MaxOf
  <2> QED BY <2>1, <2>2
<1>10. Exists(fs', Wal(ver.log)) /\ Records(fs', Wal(ver.log)) = Puts(mem) /\ Exists(fs', Current)
  <2>1. Exists(fs', Current)
    BY <1>2, <1>6 DEF Rewritten, Exists
  <2> QED BY <1>2, <1>6, <1>7, <2>1, LogKept
<1>11. CreateInv'
  BY <1>1, <1>10 DEF CreateInv, Creating
<1>12. RunInv'
  <2>1. /\ ver'.files = Replayed(fs').files /\ ver'.log = Replayed(fs').log /\ ver'.next > ver'.log
        /\ Exists(fs', Wal(ver'.log)) /\ Records(fs', Wal(ver'.log)) = Puts(mem')
        /\ order' \subseteq InTables(fs')
    <3>1. ver'.files = ver.files \cup {num} /\ ver'.log = ver.log /\ ver'.next > ver'.log
      BY <1>9
    <3>2. Replayed(fs').files = ver.files \cup {num}
      BY <1>2, <1>7
    <3> QED BY <1>1, <1>2, <1>7, <1>8, <1>10, <3>1, <3>2
  <2> QED BY <1>1, <2>1 DEF RunInv
<1> QED BY <1>1, <1>8, <1>11, <1>12 DEF PowerInv

LEMMA LastSequenceStep ==
    ASSUME Journaled, PowerInv, TypeInv', LastSequence PROVE PowerInv'
<1>1. /\ pc = "last" /\ pc' = "newlog" /\ pc \in Running
      /\ mem' = mem /\ order' = order /\ synced' = synced /\ ver' = ver
      /\ fs' = LogEdit(Edit("last", Cardinality(order)))
  BY DEF LastSequence, Goto, Running, ghosts, process
<1>2. /\ FsType(fs) /\ FsType(fs') /\ DiskInv(fs, order, synced) /\ Exists(fs, Current)
      /\ ver.files = Replayed(fs).files /\ ver.log = Replayed(fs).log /\ ver.next > ver.log
      /\ ver.log \in 1..MaxNumber
      /\ Exists(fs, Wal(ver.log)) /\ Records(fs, Wal(ver.log)) = Puts(mem)
      /\ order \subseteq 1..writes /\ writes \in Nat
  BY <1>1, OpenFacts DEF TypeInv
<1>3. order \subseteq InTables(fs)
  BY <1>1 DEF PowerInv, RunInv
<1>4. PICK e \in Record : e = Edit("last", Cardinality(order)) /\ e.kind = "last"
  <2>1. Cardinality(order) \in Nat
    <3>1. IsFiniteSet(1..writes)
      BY <1>2, FS_Interval
    <3>2. IsFiniteSet(order)
      BY <1>2, <3>1, FS_Subset
    <3> QED BY <3>2, FS_CardinalityType
  <2> QED BY <2>1, RecordTypes DEF Edit
<1>5. EditWritten(fs, fs', e) /\ \E file : Rewritten(fs, fs', fs.dir[Manifest], file)
  <2>1. EditWritten(fs, fs', e)
    BY <1>1, <1>2, <1>4, LogEditIs
  <2> QED BY <2>1 DEF EditWritten
<1>6. Exists(fs, Manifest) /\ Replayed(fs').files = Replayed(fs).files
        /\ Replayed(fs').log = Replayed(fs).log
  <2>1. EditDone(fs, fs', e)
    BY <1>2, <1>5, EditLogged
  <2> QED BY <1>4, <2>1 DEF EditDone
<1>7. DiskInv(fs', order, synced) /\ InTables(fs') = InTables(fs)
  BY <1>2, <1>4, <1>5, LastEdit
<1>8. Exists(fs', Wal(ver.log)) /\ Records(fs', Wal(ver.log)) = Puts(mem) /\ Exists(fs', Current)
  <2>1. Exists(fs', Current)
    BY <1>2, <1>5 DEF Rewritten, Exists
  <2> QED BY <1>2, <1>5, <1>6, <2>1, LogKept
<1>9. CreateInv'
  BY <1>1, <1>8 DEF CreateInv, Creating
<1>10. RunInv'
  <2>1. /\ ver'.files = Replayed(fs').files /\ ver'.log = Replayed(fs').log /\ ver'.next > ver'.log
        /\ Exists(fs', Wal(ver'.log)) /\ Records(fs', Wal(ver'.log)) = Puts(mem')
        /\ order' \subseteq InTables(fs')
    BY <1>1, <1>2, <1>3, <1>6, <1>7, <1>8
  <2> QED BY <1>1, <2>1 DEF RunInv
<1> QED BY <1>1, <1>7, <1>9, <1>10 DEF PowerInv

LEMMA LogNumberStep ==
    ASSUME Journaled, PowerInv, TypeInv', LogNumber PROVE PowerInv'
<1>1. /\ pc = "log" /\ pc' = "up" /\ pc \in Running /\ mem' = <<>> /\ order' = order
      /\ fs' = LogEdit(Edit("log", num)) /\ ver' = ApplyEdit(ver, Edit("log", num))
  BY DEF LogNumber, Goto, Running
<1>2. /\ FsType(fs) /\ FsType(fs') /\ DiskInv(fs, order, synced) /\ Exists(fs, Current)
      /\ ver.files = Replayed(fs).files /\ ver.log = Replayed(fs).log
      /\ ver \in [files : SUBSET (1..MaxNumber), log : 1..MaxNumber, next : Nat \ {0}]
  BY <1>1, OpenFacts DEF TypeInv
<1>3. num \in 1..MaxNumber
  BY <1>1, OpenFacts DEF ProcessType
<1>4. order \subseteq InTables(fs) /\ Exists(fs, Wal(num)) /\ num > ver.log
  BY <1>1 DEF PowerInv, RunInv
<1>5. PICK e \in Record : e = Edit("log", num) /\ e.kind = "log" /\ e.n = num
  BY <1>3, RecordTypes DEF Edit
<1>6. EditWritten(fs, fs', e) /\ \E file : Rewritten(fs, fs', fs.dir[Manifest], file)
  <2>1. EditWritten(fs, fs', e)
    BY <1>1, <1>2, <1>5, LogEditIs
  <2> QED BY <2>1 DEF EditWritten
<1>7. Replayed(fs').files = Replayed(fs).files /\ Replayed(fs').log = num
  <2>1. EditDone(fs, fs', e)
    BY <1>2, <1>6, EditLogged
  <2> QED BY <1>5, <2>1 DEF EditDone
<1>8. /\ DiskInv(fs', order, synced') /\ InTables(fs') = InTables(fs)
      /\ Exists(fs', Wal(num)) /\ Records(fs', Wal(num)) = <<>>
  <2>1. e.n > Replayed(fs).log /\ Exists(fs, Wal(e.n))
    BY <1>2, <1>4, <1>5
  <2>2. PICK t : t = synced'
    OBVIOUS
  <2>3. /\ DiskInv(fs', order, t) /\ InTables(fs') = InTables(fs)
        /\ Exists(fs', Wal(e.n)) /\ Records(fs', Wal(e.n)) = <<>>
    BY <1>2, <1>4, <1>5, <1>6, <2>1, LogNumberEdit
  <2> QED BY <1>5, <2>2, <2>3
<1>9. ver' = [files |-> ver.files, log |-> num, next |-> MaxOf(ver.next, num + 1)]
        /\ MaxOf(ver.next, num + 1) > num
  BY <1>1, <1>2, <1>3, EditIsApplied
<1>10. Exists(fs', Current)
  BY <1>2, <1>6 DEF Rewritten, Exists
<1>11. CreateInv'
  BY <1>1, <1>10 DEF CreateInv, Creating
<1>12. RunInv'
  <2>1. Puts(mem') = <<>>
    BY <1>1 DEF Puts
  <2>2. /\ ver'.files = Replayed(fs').files /\ ver'.log = Replayed(fs').log /\ ver'.next > ver'.log
        /\ Exists(fs', Wal(ver'.log)) /\ Records(fs', Wal(ver'.log)) = Puts(mem')
        /\ order' \subseteq InTables(fs') \cup InLog(fs')
    BY <1>1, <1>2, <1>4, <1>7, <1>8, <1>9, <2>1
  <2> QED BY <1>1, <2>2 DEF RunInv
<1> QED BY <1>1, <1>8, <1>11, <1>12 DEF PowerInv

-----------------------------------------------------------------------------
(* Failures, and the theorems *)

LEMMA FailureStep ==
    ASSUME Journaled, PowerInv, TypeInv', Crash \/ LosePower PROVE PowerInv'
<1>1. /\ FsType(fs) /\ FsType(fs') /\ DiskInv(fs, order, synced)
      /\ pc' = "down" /\ order' = order /\ synced' = synced
      /\ fs' = fs \/ fs' \in AfterPowerLoss(fs)
  BY DEF PowerInv, TypeInv, Crash, LosePower, Stop, ghosts
<1>2. DiskInv(fs', order, synced)
  BY <1>1, PowerLossKeeps
<1>3. CreateInv' /\ RunInv'
  BY <1>1 DEF CreateInv, RunInv, Creating, Opened, Running
<1> QED BY <1>1, <1>2, <1>3 DEF PowerInv

LEMMA PowerInit == ASSUME Init, TypeInv PROVE PowerInv
<1>1. \A d \in fs.disks : \A n \in Names : d[n] = 0 /\ fs.dir[n] = 0
  BY DEF Init
<1>2. Current \in Names /\ \A n \in 1..MaxNumber : Wal(n) \in Names
  BY NameFacts
<1>3. NamesStay(fs) /\ CurrentFirst(fs) /\ ~Exists(fs, Current)
  <2>1. NamesStay(fs)
    BY <1>1 DEF NamesStay
  <2>2. CurrentFirst(fs)
    BY <1>1, <1>2 DEF CurrentFirst
  <2>3. fs.dir[Current] = 0
    BY <1>2 DEF Init
  <2> QED BY <2>1, <2>2, <2>3 DEF Exists
<1>4. OnDisk(fs, order, synced)
  BY DEF Init, OnDisk
<1>5. CreateInv /\ RunInv
  BY DEF Init, CreateInv, RunInv, Creating, Opened, Running
<1> QED BY <1>3, <1>4, <1>5 DEF PowerInv, DiskInv

LEMMA PowerStep == ASSUME Journaled, PowerInv, TypeInv', [Next]_vars PROVE PowerInv'
<1>1. CASE UNCHANGED vars
  BY <1>1 DEF vars, PowerInv, TypeInv, ProcessType, CreateInv, RunInv
<1>2. CASE Next
  BY <1>2, CreateManifestStep, AppendFirstEditStep, WriteCurrentTmpStep, RenameCurrentStep,
     SyncCurrentStep, RecoverStep, ReplayWalStep, WriteStep, SyncWalStep, FlushRefusedStep,
     BuildTableStep, PublishTableStep, AddFileStep, LastSequenceStep, CreateWalStep, LogNumberStep,
     FailureStep DEF Next
<1> QED BY <1>1, <1>2

LEMMA PowerHolds == ASSUME Journaled PROVE Spec => []PowerInv
<1>1. Init /\ TypeInv => PowerInv
  BY PowerInit
<1>2. PowerInv /\ TypeInv' /\ [Next]_vars => PowerInv'
  BY PowerStep
<1> QED BY <1>1, <1>2, TypeHolds, PTL DEF Spec

\* Wherever a crash or a power loss stops the process, in the first DB::open,
\* in a write or in a flush, the next DB::open succeeds.
THEOREM OpenAlwaysSucceeds == ASSUME Journaled PROVE Spec => []OpenSucceeds
<1>1. PowerInv => OpenSucceeds
  BY RecoveredIs DEF PowerInv, OpenSucceeds
<1> QED BY <1>1, PowerHolds, PTL

\* Writes with sync, and those before a sync_wal or a flush that returned, are
\* found by DB::open after any number of crashes and power losses.
THEOREM SyncedWritesAlwaysSurvive == ASSUME Journaled PROVE Spec => []SyncedWritesSurvive
<1>1. PowerInv => SyncedWritesSurvive
  <2>1. ASSUME PowerInv, pc = "down", NEW w \in order, w <= synced PROVE w \in Recovered(fs)
    <3>1. FsType(fs) /\ DiskInv(fs, order, synced) /\ fs.dir \in fs.disks
      BY <2>1 DEF PowerInv, TypeInv, FsType
    <3>2. OnDisk(fs, order, synced)
      BY <3>1 DEF DiskInv
    <3>3. PICK l : l = Wal(Replayed(fs).log)
      OBVIOUS
    <3>4. /\ fs.dir[Current] # 0
          /\ w \in InTables(fs) \/ (fs.dir[l] # 0 /\ w \in WritesIn(FileOf(fs, l).safe))
      <4>1. /\ fs.dir[Current] # 0
            /\ \/ w \in InTables(fs)
               \/ /\ fs.dir[Wal(Replayed(fs).log)] # 0
                  /\ w \in WritesIn(FileOf(fs, Wal(Replayed(fs).log)).safe)
        BY <2>1, <3>1, <3>2, OnDiskAt
      <4> QED BY <3>3, <4>1
    <3>5. Exists(fs, Current) /\ Recovered(fs) = InTables(fs) \cup InLog(fs)
      BY <3>1, <3>4, RecoveredIs DEF Exists
    <3>6. ASSUME fs.dir[l] # 0, w \in WritesIn(FileOf(fs, l).safe) PROVE w \in InLog(fs)
      <4>1. Exists(fs, l) /\ l \in Names
        <5>1. Exists(fs, Manifest)
          BY <3>1, <3>5 DEF DiskInv, ManifestOnDisk
        <5> QED BY <3>1, <3>3, <3>6, <5>1, DiskType DEF Exists
      <4>2. PICK safe \in Seq(Record), data \in Seq(Record) :
               safe = FileOf(fs, l).safe /\ data = FileOf(fs, l).data
        BY <3>1, <4>1, RecordsType DEF File
      <4>3. IsPrefix(safe, data)
        BY <3>1, <3>3, <3>5, <4>1, <4>2 DEF DiskInv, LogsOnDisk
      <4>4. Len(safe) <= Len(data) /\ \A i \in 1..Len(safe) : safe[i] = data[i]
        BY <4>3, PrefixIs
      <4>5. PICK i \in 1..Len(safe) : safe[i].kind = "write" /\ safe[i].n = w
        BY <3>6, <4>2, WritesInIs
      <4>6. i \in 1..Len(data) /\ data[i] = safe[i]
        BY <4>4
      <4>7. w \in WritesIn(data)
        BY <4>5, <4>6, WritesInIs
      <4> QED BY <3>3, <4>1, <4>2, <4>7 DEF InLog, Records, FileOf
    <3> QED BY <3>4, <3>5, <3>6
  <2> QED BY <2>1 DEF SyncedWritesSurvive
<1> QED BY <1>1, PowerHolds, PTL

\* A power loss takes writes from the end only: DB::open never finds a write
\* without all the writes before it that the database had.
THEOREM OnlySuffixesAreLost == ASSUME Journaled PROVE Spec => []LossesAreSuffixes
<1>1. PowerInv => LossesAreSuffixes
  <2>1. ASSUME PowerInv, pc = "down", NEW v \in order, NEW w \in order, v < w, w \in Recovered(fs)
        PROVE  v \in Recovered(fs)
    <3>1. FsType(fs) /\ DiskInv(fs, order, synced)
      BY <2>1 DEF PowerInv, TypeInv
    <3>2. Exists(fs, Current)
      BY <2>1 DEF Recovered
    <3>3. Recovered(fs) = InTables(fs) \cup InLog(fs)
      BY <3>1, <3>2, RecoveredIs
    <3>4. InOrder(fs, order) /\ LogsOnDisk(fs)
      BY <3>1, <3>2 DEF DiskInv
    <3>5. CASE w \in InTables(fs)
      BY <2>1, <3>3, <3>4, <3>5 DEF InOrder
    <3>6. CASE w \in InLog(fs)
      <4>1. PICK l : l = Wal(Replayed(fs).log) /\ Exists(fs, l)
        BY <3>6 DEF InLog
      <4>2. PICK recs \in Seq(Record) : recs = Records(fs, l)
        <5>1. Exists(fs, Manifest)
          BY <3>1, <3>2 DEF DiskInv, ManifestOnDisk
        <5>2. l \in Names
          BY <3>1, <4>1, <5>1, DiskType
        <5> QED BY <3>1, <4>1, <5>2, RecordsType
      <4>3. InLog(fs) = WritesIn(recs)
        BY <4>1, <4>2 DEF InLog
      <4>4. PICK i \in 1..Len(recs) : recs[i].n = w
        BY <3>6, <4>3, WritesInIs
      <4>5. v \in InTables(fs) \/ \E j \in 1..i : recs[j].n = v
        BY <2>1, <3>4, <4>1, <4>2, <4>4 DEF InOrder
      <4>6. \A j \in 1..Len(recs) : recs[j].kind = "write"
        <5>1. FileOf(fs, l).data = recs
          BY <4>2 DEF FileOf, Records
        <5> QED BY <3>4, <4>1, <5>1 DEF LogsOnDisk
      <4>7. \A j \in 1..i : recs[j].n \in WritesIn(recs)
        BY <4>4, <4>6, WritesInIs
      <4> QED BY <3>3, <4>3, <4>5, <4>7
    <3> QED BY <2>1, <3>3, <3>5, <3>6
  <2> QED BY <2>1 DEF LossesAreSuffixes
<1> QED BY <1>1, PowerHolds, PTL
=============================================================================
