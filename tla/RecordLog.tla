----------------------------- MODULE RecordLog -----------------------------
(***************************************************************************)
(* The log files of TyLsmDB, WAL and MANIFEST: how WalWriter::append and   *)
(* ManifestWriter::append lay records out, what WalReader::read_record     *)
(* makes of them, and the files being appended to again after a crash or a *)
(* failed append that cut a record short.                                  *)
(*                                                                         *)
(* A file is a sequence of cells.  A record is HeaderCells cells of header *)
(* (checksum, length, type) and then the cells of its payload; a cell      *)
(* knows the record it was written for and its place in it, and a header   *)
(* cell its record's length.  Checksums do not collide.                    *)
(*                                                                         *)
(* The Faulty... definitions are as in LsmTree.                            *)
(***************************************************************************)
EXTENDS Naturals, Sequences

CONSTANTS
    Sizes,        \* lengths that payloads can have
    HeaderCells,  \* cells of a header
    MaxRecords,   \* bound: records appended
    MaxFailures   \* bound: crashes and failed appends

ASSUME SizesAssumption == Sizes \subseteq Nat \ {0}
ASSUME HeaderAssumption == HeaderCells \in Nat \ {0}
ASSUME BoundsAssumption == MaxRecords \in Nat /\ MaxFailures \in Nat

VARIABLES
    file,      \* the cells of the file
    appended,  \* records begun so far; a record is named by its number
    acked,     \* the numbers of the records written completely, in order
    replayed,  \* what the last open read
    expected,  \* acked as of the last open
    status,    \* "open", or "corrupt" after Error::Corruption
    failures

vars == <<file, appended, acked, replayed, expected, status, failures>>

\* Leaves the type byte out of the length.
FaultyCells(r, size) ==
    [i \in 1..(HeaderCells + size) |-> [rec |-> r, place |-> i, len |-> size - 1]]

\* WalWriter::append: the header (checksum, length, type), then the payload.
Cells(r, size) == [i \in 1..(HeaderCells + size) |-> [rec |-> r, place |-> i, len |-> size]]

-----------------------------------------------------------------------------
(* WalReader *)

\* Does not verify the checksum.
FaultyOneRecord(f, p, n, place) == TRUE

\* n cells from position p on are the cells of one record from `place' on.
OneRecord(f, p, n, place) ==
    \A i \in 0..(n - 1) : f[p + i].rec = f[p].rec /\ f[p + i].place = place + i

\* Takes the end of the file inside a record for corruption.
FaultyCutShort == [ok |-> FALSE, recs |-> <<>>]

\* read_exact_or_eof: the file ends before the record does.
CutShort == [ok |-> TRUE, recs |-> <<>>]

\* read_record at position p; `rest' is what the calls after it return.
\* `damaged' is what happens at a header made up of pieces: its length is then
\* any number, and leads past the end ("eof") or to a payload with another
\* checksum ("corrupt").
Corrupt == [ok |-> FALSE, recs |-> <<>>]
ReadRecord(f, damaged, rest, p) ==
    LET body == p + HeaderCells
        next == body + f[p].len
    IN  IF Len(f) < body - 1 \/ p > Len(f) THEN CutShort
        ELSE IF ~OneRecord(f, p, HeaderCells, 1)
             THEN IF damaged = "eof" THEN CutShort ELSE Corrupt
        ELSE IF Len(f) < next - 1 THEN CutShort
        ELSE IF ~OneRecord(f, p, HeaderCells + f[p].len, 1) THEN Corrupt
        ELSE [ok |-> rest[next].ok, recs |-> <<f[p].rec>> \o rest[next].recs]

\* read_record until it returns None or an error.
ReadFrom(f, damaged) ==
    LET from[p \in 1..(Len(f) + 1)] == ReadRecord(f, damaged, from, p)
    IN  from
ReadAll(f, damaged) == ReadFrom(f, damaged)[1]

-----------------------------------------------------------------------------
Init ==
    /\ file = <<>> /\ appended = 0 /\ acked = <<>> /\ replayed = <<>> /\ expected = <<>>
    /\ status = "open" /\ failures = 0

\* WalWriter::append, complete.
AppendRecord(size) ==
    /\ status = "open" /\ appended < MaxRecords
    /\ appended' = appended + 1
    /\ file' = file \o Cells(appended + 1, size)
    /\ acked' = Append(acked, appended + 1)
    /\ UNCHANGED <<replayed, expected, status, failures>>

\* One of the writes of an append fails, after n cells.  The caller gets the
\* error; the file keeps the cells and the next append goes behind them.
AppendFails(size, n) ==
    /\ status = "open" /\ appended < MaxRecords /\ failures < MaxFailures
    /\ failures' = failures + 1
    /\ appended' = appended + 1
    /\ file' = file \o SubSeq(Cells(appended + 1, size), 1, n)
    /\ UNCHANGED <<acked, replayed, expected, status>>

\* WalWriter::create_with_env and ManifestWriter::append_to_with_env open the
\* file for append, after all of its bytes.
Kept(f) == f

\* The process ends, maybe with the first n cells of one more record written;
\* DB::open replays the file and appends to it from then on.
CrashAndOpen(size, n, damaged) ==
    /\ status = "open" /\ failures < MaxFailures
    /\ n > 0 => appended < MaxRecords
    /\ n <= HeaderCells + size
    /\ failures' = failures + 1
    /\ appended' = IF n > 0 THEN appended + 1 ELSE appended
    /\ LET cut == file \o SubSeq(Cells(appended + 1, size), 1, n)
           read == ReadAll(cut, damaged)
       IN  /\ file' = Kept(cut)
           /\ replayed' = read.recs
           /\ status' = IF read.ok THEN "open" ELSE "corrupt"
    /\ acked' = IF n = HeaderCells + size THEN Append(acked, appended + 1) ELSE acked
    /\ expected' = acked'

Next ==
    \/ \E size \in Sizes : AppendRecord(size)
    \/ \E size \in Sizes : \E n \in 0..(HeaderCells + size - 1) : AppendFails(size, n)
    \/ \E size \in Sizes : \E n \in 0..(HeaderCells + size) : \E damaged \in {"eof", "corrupt"} :
          CrashAndOpen(size, n, damaged)

Spec == Init /\ [][Next]_vars

-----------------------------------------------------------------------------
\* The cells are those of records begun, and the log's state keeps its type.
TypeOK ==
    /\ \A i \in DOMAIN file : file[i].rec \in 1..MaxRecords /\ file[i].len \in Sizes
    /\ appended \in 0..MaxRecords
    /\ acked \in Seq(1..MaxRecords) /\ expected \in Seq(1..MaxRecords)
    /\ replayed \in Seq(1..MaxRecords)
    /\ status \in {"open", "corrupt"}
    /\ failures \in 0..MaxFailures

\* Replay never makes a record up and never skips one: whatever was cut
\* short and appended to, what it yields is a prefix of what was written.
ReplayIsPrefix ==
    /\ Len(replayed) <= Len(expected)
    /\ \A i \in DOMAIN replayed : replayed[i] = expected[i]

\* A record cut short at the end of the file is ignored on open: the file
\* opens, and every record that was written completely comes back, in order.
\* (Once something was appended behind a partial record this is not so.)
TornTailIgnored ==
    (\A i \in DOMAIN file :
        file[i].rec = appended \/ \E j \in DOMAIN acked : acked[j] = file[i].rec)
    => status = "open" /\ replayed = expected

-----------------------------------------------------------------------------
(* Inductive strengthening *)

Cell == [rec : 1..MaxRecords, place : Nat \ {0}, len : Sizes]

\* Records lie in the order they were begun, each from its first cell on
\* without a gap, and none is longer than it says.
Layout(f) ==
    \A i \in DOMAIN f :
        /\ f[i].place \in 1..i /\ f[i].place <= HeaderCells + f[i].len
        /\ f[i + 1 - f[i].place].rec = f[i].rec
        /\ \A j \in 1..(i - 1) :
              \/ f[j].rec < f[i].rec
              \/ /\ f[j].rec = f[i].rec /\ f[j].len = f[i].len
                 /\ f[i].place = f[j].place + (i - j)

\* All cells of the record are there.
Whole(f, r) == \E i \in DOMAIN f : f[i].rec = r /\ f[i].place = HeaderCells + f[i].len

\* The file f holds exactly the records a completely, in this order.
Written(f, a) ==
    /\ f \in Seq(Cell) /\ a \in Seq(1..MaxRecords) /\ Layout(f)
    /\ \A m, n \in DOMAIN a : m < n => a[m] < a[n]
    /\ \A r \in 1..MaxRecords : Whole(f, r) <=> \E n \in DOMAIN a : a[n] = r

LogInv ==
    /\ Written(file, acked)
    /\ \A i \in DOMAIN file : file[i].rec <= appended
    /\ \A n \in DOMAIN acked : acked[n] <= appended
=============================================================================
