------------------------- MODULE TransactionsProofs -------------------------
(***************************************************************************)
(* Snapshot reads, serializability and first-committer-wins of optimistic  *)
(* transactions, for any number of transactions, keys, ranges, writes and  *)
(* compactions: IInv of Transactions is inductive.                         *)
(***************************************************************************)
EXTENDS Transactions, LsmTreeProofs

LEMMA FreshIsTransaction ==
    /\ Fresh \in Transaction
    /\ Fresh.pc = "none" /\ Fresh.readSeq = 0 /\ Fresh.commitSeq = 0 /\ Fresh.seen = {}
<1>1. Fresh \in Transaction
  BY BoundsAssumption DEF Fresh, Transaction
<1> QED BY <1>1 DEF Fresh

LEMMA InitIInv == Init => IInv
<1> SUFFICES ASSUME Init PROVE IInv
  OBVIOUS
<1>1. \A x \in Txns : txn[x] = Fresh
  BY DEF Init
<1>2. txn \in [Txns -> Transaction]
  BY FreshIsTransaction DEF Init
<1>3. TypeOK
  <2>1. closed \in BOOLEAN
    BY DEF Init
  <2>2. \A x \in Txns : txn[x].readSeq <= lastSequence /\ txn[x].commitSeq <= lastSequence
    BY <1>1, FreshIsTransaction DEF Init
  <2>3. /\ lastSequence \in Nat /\ writes \in 0..MaxWrites /\ compactions \in 0..MaxCompactions
        /\ entries = {} /\ history = {} /\ gc = {}
    BY BoundsAssumption DEF Init
  <2> QED BY <1>2, <2>1, <2>2, <2>3 DEF TypeOK
<1>4. StoreInv
  BY <1>1, FreshIsTransaction DEF Init, StoreInv, Open, Faithful, Value, Newest, VersionsOf, UniqueSeqs
<1>5. GcInv /\ ReadsRecorded /\ CommitsInv
  BY <1>1, FreshIsTransaction DEF Init, GcInv, ReadsRecorded, CommitsInv
<1>6. RepeatableReads /\ Serializable /\ FirstCommitterWins
  BY <1>1, FreshIsTransaction DEF RepeatableReads, Serializable, FirstCommitterWins
<1> QED BY <1>3, <1>4, <1>5, <1>6 DEF IInv

-----------------------------------------------------------------------------
(* Steps of one transaction that leave the store alone *)

LEMMA TxnStep ==
    ASSUME IInv, NEW x \in Txns, NEW t \in Transaction,
           txn' = [txn EXCEPT ![x] = t],
           UNCHANGED <<entries, lastSequence, closed, gc, history, writes, compactions>>,
           t.pc # "committed", t.readSeq <= lastSequence, t.commitSeq <= lastSequence,
           t.pc = "open" => /\ Faithful(t.readSeq)
                            /\ \A c \in gc : c.watermark <= t.readSeq,
           \A r \in t.seen :
              /\ r.key \in t.readKeys \/ \E range \in t.readRanges : r.key \in range
              /\ r.value = Visible(Newest(history, r.key, t.readSeq)),
           \A y \in Txns : txn[y].pc = "committed" =>
              \/ t.readSeq <= txn[y].commitSeq
              \/ txn[y].commitSeq + Len(txn[y].recs) <= t.readSeq
    PROVE  IInv'
<1>0. TypeOK /\ \A y \in Txns : txn'[y] = IF y = x THEN t ELSE txn[y]
  BY DEF IInv, TypeOK
<1>1. TypeOK'
  <2>1. txn' \in [Txns -> Transaction]
    BY <1>0 DEF TypeOK
  <2> QED BY <1>0, <2>1 DEF TypeOK
<1>2. StoreInv'
  <2>1. \A s : Faithful(s) => Faithful(s)'
    BY DEF Faithful, Value
  <2>2. ASSUME NEW y \in Txns, Open(y)' PROVE Faithful(txn[y].readSeq)'
    <3>1. CASE y = x
      BY <1>0, <2>1, <2>2, <3>1 DEF Open, Faithful, Value
    <3>2. CASE y # x
      BY <1>0, <2>1, <2>2, <3>2 DEF IInv, StoreInv, Open, Faithful, Value
    <3> QED BY <3>1, <3>2
  <2>3. Faithful(lastSequence)'
    BY DEF IInv, StoreInv, Faithful, Value
  <2> QED BY <2>2, <2>3 DEF IInv, StoreInv
<1>3. GcInv'
  BY <1>0 DEF IInv, GcInv, Open
<1>4. ReadsRecorded'
  BY <1>0 DEF IInv, ReadsRecorded
<1>5. CommitsInv'
  BY <1>0 DEF IInv, CommitsInv, Numbered
<1>6. RepeatableReads' /\ Serializable'
  BY <1>0 DEF IInv, RepeatableReads, Serializable
<1>7. FirstCommitterWins'
  <2> SUFFICES ASSUME NEW y \in Txns, NEW z \in Txns, y # z,
                      txn'[y].pc = "committed", txn'[z].pc = "committed",
                      txn'[y].readSeq < txn'[z].commitSeq + Len(txn'[z].recs),
                      txn'[z].commitSeq + Len(txn'[z].recs) <= txn'[y].commitSeq
               PROVE  WriteKeys(txn'[y].recs) \cap WriteKeys(txn'[z].recs) = {}
    BY DEF FirstCommitterWins, WriteKeys
  <2>1. txn'[y] = txn[y] /\ txn'[z] = txn[z]
    BY <1>0
  <2> QED BY <2>1 DEF IInv, FirstCommitterWins
<1> QED BY <1>1, <1>2, <1>3, <1>4, <1>5, <1>6, <1>7 DEF IInv

LEMMA EndsStep ==
    ASSUME IInv, NEW x \in Txns, NEW pc \in {"aborted", "rolledBack"}, Ends(x, pc),
           UNCHANGED <<entries, lastSequence, closed, gc, history, writes, compactions>>
    PROVE  IInv'
<1>0. PICK t : t = [Fresh EXCEPT !.pc = pc]
  OBVIOUS
<1>1. t \in Transaction
  BY <1>0, FreshIsTransaction DEF Transaction
<1>2. t.pc = pc /\ t.readSeq = 0 /\ t.commitSeq = 0 /\ t.seen = {}
  BY <1>0, FreshIsTransaction DEF Transaction
<1>3. lastSequence \in Nat /\ \A y \in Txns : txn[y].commitSeq \in Nat
  BY DEF IInv, TypeOK, Transaction
<1>4. txn' = [txn EXCEPT ![x] = t]
  BY <1>0 DEF Ends
<1>5. t.pc # "committed" /\ t.pc # "open" /\ t.readSeq <= lastSequence /\ t.commitSeq <= lastSequence
  BY <1>2, <1>3
<1>6. \A y \in Txns : txn[y].pc = "committed" =>
         \/ t.readSeq <= txn[y].commitSeq
         \/ txn[y].commitSeq + Len(txn[y].recs) <= t.readSeq
  BY <1>2, <1>3
<1>7. \A r \in t.seen :
         /\ r.key \in t.readKeys \/ \E range \in t.readRanges : r.key \in range
         /\ r.value = Visible(Newest(history, r.key, t.readSeq))
  BY <1>2
<1> QED BY <1>1, <1>4, <1>5, <1>6, <1>7, TxnStep

LEMMA BeginStep ==
    ASSUME IInv, NEW x \in Txns, NEW readOnly \in BOOLEAN, Begin(x, readOnly)
    PROVE  IInv'
<1>0. PICK t : t = [Fresh EXCEPT !.pc = "open", !.readSeq = lastSequence, !.readOnly = readOnly]
  OBVIOUS
<1>1. lastSequence \in Nat /\ \A y \in Txns : txn[y].commitSeq \in Nat
  BY DEF IInv, TypeOK, Transaction
<1>2. t \in Transaction
  BY <1>0, <1>1, FreshIsTransaction DEF Transaction
<1>3. t.pc = "open" /\ t.readSeq = lastSequence /\ t.commitSeq = 0 /\ t.seen = {}
  BY <1>0, FreshIsTransaction DEF Transaction
<1>4. /\ txn' = [txn EXCEPT ![x] = t]
      /\ UNCHANGED <<entries, lastSequence, closed, gc, history, writes, compactions>>
  BY <1>0 DEF Begin
<1>5. Faithful(t.readSeq) /\ \A c \in gc : c.watermark <= t.readSeq
  BY <1>3 DEF IInv, StoreInv, GcInv
<1>6. \A y \in Txns : txn[y].pc = "committed" =>
         \/ t.readSeq <= txn[y].commitSeq
         \/ txn[y].commitSeq + Len(txn[y].recs) <= t.readSeq
  BY <1>3 DEF IInv, CommitsInv
<1>7. \A r \in t.seen :
         /\ r.key \in t.readKeys \/ \E range \in t.readRanges : r.key \in range
         /\ r.value = Visible(Newest(history, r.key, t.readSeq))
  BY <1>3
<1>8. t.pc # "committed" /\ t.readSeq <= lastSequence /\ t.commitSeq <= lastSequence
  BY <1>1, <1>3
<1> QED BY <1>2, <1>4, <1>5, <1>6, <1>7, <1>8, TxnStep

\* An operation of an open transaction: reads of the store at its snapshot are
\* recorded, nothing else moves.
LEMMA OperationStep ==
    ASSUME IInv, NEW x \in Txns, Open(x), NEW t \in Transaction,
           txn' = [txn EXCEPT ![x] = t],
           UNCHANGED <<entries, lastSequence, closed, gc, history, writes, compactions>>,
           t.pc = "open", t.readSeq = txn[x].readSeq, t.commitSeq = txn[x].commitSeq,
           txn[x].readKeys \subseteq t.readKeys, txn[x].readRanges \subseteq t.readRanges,
           \A r \in t.seen :
              \/ r \in txn[x].seen
              \/ /\ r.value = Value(r.key, t.readSeq) /\ r.key \in Keys
                 /\ r.key \in t.readKeys \/ \E range \in t.readRanges : r.key \in range
    PROVE  IInv'
<1>1. Faithful(t.readSeq) /\ \A c \in gc : c.watermark <= t.readSeq
  BY DEF IInv, StoreInv, GcInv
<1>2. t.readSeq <= lastSequence /\ t.commitSeq <= lastSequence
  BY DEF IInv, TypeOK
<1>3. \A r \in t.seen :
         /\ r.key \in t.readKeys \/ \E range \in t.readRanges : r.key \in range
         /\ r.value = Visible(Newest(history, r.key, t.readSeq))
  BY <1>1 DEF IInv, ReadsRecorded, RepeatableReads, Faithful
<1>4. \A y \in Txns : txn[y].pc = "committed" =>
         \/ t.readSeq <= txn[y].commitSeq
         \/ txn[y].commitSeq + Len(txn[y].recs) <= t.readSeq
  BY DEF IInv, CommitsInv
<1> QED BY <1>1, <1>2, <1>3, <1>4, TxnStep

LEMMA ValueType ==
    ASSUME IInv, NEW k, NEW s PROVE Value(k, s) \in SUBSET Nat
<1>1. \A e \in entries : e.seq \in Nat
  BY DEF IInv, TypeOK, Entry
<1> QED BY <1>1 DEF Value, Visible, Newest, VersionsOf

LEMMA GetStep ==
    ASSUME IInv, NEW x \in Txns, NEW k \in Keys, Get(x, k)
    PROVE  IInv'
<1> DEFINE own == LocalValue(txn[x].recs, k)
           row == [key |-> k, value |-> Value(k, txn[x].readSeq)]
           ops == txn[x].ops + 1
           keys == IF own = {} THEN txn[x].readKeys \cup {k} ELSE txn[x].readKeys
           rows == IF own = {} THEN txn[x].seen \cup {row} ELSE txn[x].seen
<1>1. txn \in [Txns -> Transaction] /\ txn[x] \in Transaction /\ Open(x)
  BY DEF IInv, TypeOK, Get
<1>2. row \in [key : Keys, value : SUBSET Nat]
  BY ValueType
<1>3. ops \in 0..MaxOps
  <2>1. txn[x].ops < MaxOps
    BY DEF Get
  <2>2. txn[x].ops \in 0..MaxOps
    BY <1>1 DEF Transaction
  <2> QED BY <2>1, <2>2, BoundsAssumption
<1>4. keys \in SUBSET Keys /\ rows \in SUBSET [key : Keys, value : SUBSET Nat]
  <2> HIDE DEF own, row
  <2> QED BY <1>1, <1>2 DEF Transaction
<1>5. /\ txn' = [txn EXCEPT ![x].ops = ops, ![x].readKeys = keys, ![x].seen = rows]
      /\ UNCHANGED <<entries, lastSequence, closed, gc, history, writes, compactions>>
  BY DEF Get
<1>6. /\ txn[x].readKeys \subseteq keys
      /\ \A r \in rows :
            \/ r \in txn[x].seen
            \/ r.value = Value(r.key, txn[x].readSeq) /\ r.key \in Keys /\ r.key \in keys
  <2>0. row.key = k /\ row.value = Value(k, txn[x].readSeq)
    OBVIOUS
  <2> HIDE DEF own, row
  <2>1. CASE own = {}
    BY <2>0, <2>1
  <2>2. CASE own # {}
    BY <2>2
  <2> QED BY <2>1, <2>2
<1> HIDE DEF ops, keys, rows
<1>t. PICK t : t = [txn[x] EXCEPT !.ops = ops, !.readKeys = keys, !.seen = rows]
  OBVIOUS
<1>7. txn' = [txn EXCEPT ![x] = t]
  BY <1>1, <1>5, <1>t
<1>8. /\ t \in Transaction /\ t.pc = txn[x].pc /\ t.readSeq = txn[x].readSeq
      /\ t.commitSeq = txn[x].commitSeq /\ t.readKeys = keys /\ t.seen = rows
      /\ t.readRanges = txn[x].readRanges
  BY <1>1, <1>3, <1>4, <1>t DEF Transaction
<1>9. t.pc = "open"
  BY <1>1, <1>8 DEF Open
<1>10. \A r \in t.seen :
         \/ r \in txn[x].seen
         \/ /\ r.value = Value(r.key, t.readSeq) /\ r.key \in Keys
            /\ r.key \in t.readKeys \/ \E range \in t.readRanges : r.key \in range
  BY <1>6, <1>8
<1>11. txn[x].readKeys \subseteq t.readKeys /\ txn[x].readRanges \subseteq t.readRanges
  BY <1>6, <1>8
<1> QED BY <1>1, <1>5, <1>7, <1>8, <1>9, <1>10, <1>11, OperationStep

LEMMA ScanStep ==
    ASSUME IInv, NEW x \in Txns, NEW range \in KeyRanges, Scan(x, range)
    PROVE  IInv'
<1> DEFINE found == {[key |-> k, value |-> Value(k, txn[x].readSeq)] : k \in range}
           ops == txn[x].ops + 1
           ranges == txn[x].readRanges \cup {range}
           rows == txn[x].seen \cup found
<1>1. txn \in [Txns -> Transaction] /\ txn[x] \in Transaction /\ Open(x)
  BY DEF IInv, TypeOK, Scan
<1>2. range \subseteq Keys
  BY RangesAssumption
<1>3. ops \in 0..MaxOps
  BY <1>1, BoundsAssumption DEF Scan, Transaction
<1>4. ranges \in SUBSET KeyRanges /\ rows \in SUBSET [key : Keys, value : SUBSET Nat]
  <2>1. found \in SUBSET [key : Keys, value : SUBSET Nat]
    BY <1>2, ValueType
  <2> HIDE DEF found
  <2> QED BY <1>1, <2>1 DEF Transaction
<1>5. /\ txn' = [txn EXCEPT ![x].ops = ops, ![x].readRanges = ranges, ![x].seen = rows]
      /\ UNCHANGED <<entries, lastSequence, closed, gc, history, writes, compactions>>
  BY DEF Scan
<1>6. \A r \in rows :
         \/ r \in txn[x].seen
         \/ r.value = Value(r.key, txn[x].readSeq) /\ r.key \in Keys /\ r.key \in range
  <2>1. \A r \in found : r.value = Value(r.key, txn[x].readSeq) /\ r.key \in range
    OBVIOUS
  <2> HIDE DEF found
  <2> QED BY <1>2, <2>1
<1>7. txn[x].readRanges \subseteq ranges /\ range \in ranges
  OBVIOUS
<1> HIDE DEF ops, ranges, rows
<1>t. PICK t : t = [txn[x] EXCEPT !.ops = ops, !.readRanges = ranges, !.seen = rows]
  OBVIOUS
<1>8. txn' = [txn EXCEPT ![x] = t]
  BY <1>1, <1>5, <1>t
<1>9. /\ t \in Transaction /\ t.pc = txn[x].pc /\ t.readSeq = txn[x].readSeq
      /\ t.commitSeq = txn[x].commitSeq /\ t.readKeys = txn[x].readKeys
      /\ t.readRanges = ranges /\ t.seen = rows
  BY <1>1, <1>3, <1>4, <1>t DEF Transaction
<1>10. t.pc = "open"
  BY <1>1, <1>9 DEF Open
<1>11. \A r \in t.seen :
         \/ r \in txn[x].seen
         \/ /\ r.value = Value(r.key, t.readSeq) /\ r.key \in Keys
            /\ r.key \in t.readKeys \/ \E u \in t.readRanges : r.key \in u
  BY <1>6, <1>7, <1>9
<1>12. txn[x].readKeys \subseteq t.readKeys /\ txn[x].readRanges \subseteq t.readRanges
  BY <1>7, <1>9
<1> QED BY <1>1, <1>5, <1>8, <1>9, <1>10, <1>11, <1>12, OperationStep

LEMMA WriteStep ==
    ASSUME IInv, NEW x \in Txns, NEW rec \in Record, Write(x, rec)
    PROVE  IInv'
<1> DEFINE ops == txn[x].ops + 1
           recs == Append(txn[x].recs, rec)
<1>1. txn \in [Txns -> Transaction] /\ txn[x] \in Transaction /\ Open(x)
  BY DEF IInv, TypeOK, Write
<1>2. ops \in 0..MaxOps /\ recs \in Seq(Record)
  BY <1>1, BoundsAssumption DEF Write, Transaction
<1>3. /\ txn' = [txn EXCEPT ![x].ops = ops, ![x].recs = recs]
      /\ UNCHANGED <<entries, lastSequence, closed, gc, history, writes, compactions>>
  BY DEF Write
<1> HIDE DEF ops, recs
<1>t. PICK t : t = [txn[x] EXCEPT !.ops = ops, !.recs = recs]
  OBVIOUS
<1>4. txn' = [txn EXCEPT ![x] = t]
  BY <1>1, <1>3, <1>t
<1>5. /\ t \in Transaction /\ t.pc = txn[x].pc /\ t.readSeq = txn[x].readSeq
      /\ t.commitSeq = txn[x].commitSeq /\ t.readKeys = txn[x].readKeys
      /\ t.readRanges = txn[x].readRanges /\ t.seen = txn[x].seen
  BY <1>1, <1>2, <1>t DEF Transaction
<1>6. t.pc = "open"
  BY <1>1, <1>5 DEF Open
<1> QED BY <1>1, <1>3, <1>4, <1>5, <1>6, OperationStep

-----------------------------------------------------------------------------
(* Writes *)

\* What one write group adds: records numbered from last_sequence on.
LEMMA NumberedFacts ==
    ASSUME NEW recs \in Seq(Record), NEW s \in Nat
    PROVE  /\ Numbered(recs, s) \subseteq Entry
           /\ UniqueSeqs(Numbered(recs, s))
           /\ \A e \in Numbered(recs, s) : e.seq > s /\ e.seq <= s + Len(recs) /\ e.seq \in Nat
           /\ \A k : k \in WriteKeys(recs) <=> \E e \in Numbered(recs, s) : e.key = k
<1>1. \A i \in DOMAIN recs : i \in Nat /\ i > 0 /\ i <= Len(recs) /\ recs[i] \in Record
  OBVIOUS
<1>2. \A i \in DOMAIN recs : recs[i].key \in Keys /\ recs[i].type \in Types /\ s + i \in Nat
  BY <1>1 DEF Record
<1>3. Numbered(recs, s) \subseteq Entry
  BY <1>2 DEF Numbered, Entry
<1>4. ASSUME NEW e \in Numbered(recs, s), NEW f \in Numbered(recs, s), e.seq = f.seq
      PROVE  e = f
  <2>1. PICK i \in DOMAIN recs : e = [key |-> recs[i].key, seq |-> s + i, type |-> recs[i].type]
    BY DEF Numbered
  <2>2. PICK j \in DOMAIN recs : f = [key |-> recs[j].key, seq |-> s + j, type |-> recs[j].type]
    BY DEF Numbered
  <2>3. i = j
    BY <1>1, <1>4, <2>1, <2>2
  <2> QED BY <2>1, <2>2, <2>3
<1>5. \A e \in Numbered(recs, s) : e.seq > s /\ e.seq <= s + Len(recs) /\ e.seq \in Nat
  BY <1>1 DEF Numbered
<1>6. ASSUME NEW k PROVE k \in WriteKeys(recs) <=> \E e \in Numbered(recs, s) : e.key = k
  <2>1. ASSUME NEW i \in DOMAIN recs, recs[i].key = k
        PROVE  \E e \in Numbered(recs, s) : e.key = k
    <3>1. [key |-> recs[i].key, seq |-> s + i, type |-> recs[i].type] \in Numbered(recs, s)
      BY DEF Numbered
    <3> QED BY <2>1, <3>1
  <2>2. ASSUME NEW e \in Numbered(recs, s), e.key = k
        PROVE  k \in WriteKeys(recs)
    <3>1. PICK i \in DOMAIN recs : e = [key |-> recs[i].key, seq |-> s + i, type |-> recs[i].type]
      BY DEF Numbered
    <3> QED BY <2>2, <3>1 DEF WriteKeys
  <2> QED BY <2>1, <2>2 DEF WriteKeys
<1> QED BY <1>3, <1>4, <1>5, <1>6 DEF UniqueSeqs

\* The store after a write: older snapshots read what they read before, and
\* the newest state is still the whole history's.
LEMMA GrowthKeepsStore ==
    ASSUME IInv, NEW recs \in Seq(Record),
           entries' = entries \cup Numbered(recs, lastSequence),
           history' = history \cup Numbered(recs, lastSequence),
           lastSequence' = lastSequence + Len(recs)
    PROVE  /\ lastSequence' \in Nat /\ lastSequence <= lastSequence'
           /\ entries' \subseteq history' /\ history' \subseteq Entry /\ history \subseteq history'
           /\ \A e \in history' : e.seq <= lastSequence'
           /\ UniqueSeqs(history')
           /\ \A k, s : s \in Nat /\ s <= lastSequence =>
                  /\ Newest(history', k, s) = Newest(history, k, s)
                  /\ Newest(entries', k, s) = Newest(entries, k, s)
           /\ \A s \in Nat : s <= lastSequence /\ Faithful(s) => Faithful(s)'
           /\ Faithful(lastSequence)'
           /\ \A e \in entries' \ entries, f \in history : f.seq < e.seq
<1> DEFINE new == Numbered(recs, lastSequence)
<1>0. /\ lastSequence \in Nat /\ entries \subseteq history /\ history \subseteq Entry
      /\ \A e \in history : e.seq <= lastSequence /\ e.seq \in Nat
      /\ UniqueSeqs(history) /\ Faithful(lastSequence) /\ Len(recs) \in Nat
  BY DEF IInv, TypeOK, StoreInv, Entry
<1>1. /\ new \subseteq Entry /\ UniqueSeqs(new)
      /\ \A e \in new : /\ e.seq > lastSequence /\ e.seq <= lastSequence + Len(recs)
                        /\ e.seq \in Nat
  BY <1>0, NumberedFacts
<1> HIDE DEF new
<1>2. /\ entries' = entries \cup new /\ history' = history \cup new
      /\ lastSequence' = lastSequence + Len(recs) /\ lastSequence' \in Nat
      /\ lastSequence <= lastSequence'
  BY <1>0 DEF new
<1>3. /\ entries' \subseteq history' /\ history' \subseteq Entry /\ history \subseteq history'
      /\ \A e \in history' : e.seq <= lastSequence' /\ e.seq \in Nat
      /\ \A e \in entries' \ entries, f \in history : f.seq < e.seq
  BY <1>0, <1>1, <1>2
<1>4. UniqueSeqs(history') /\ UniqueSeqs(entries')
  BY <1>0, <1>1, <1>2 DEF UniqueSeqs
<1>5. ASSUME NEW k, NEW s \in Nat, s <= lastSequence
      PROVE  /\ Newest(history', k, s) = Newest(history, k, s)
             /\ Newest(entries', k, s) = Newest(entries, k, s)
  <2>1. \A e \in new : ~(e.seq <= s)
    BY <1>0, <1>1, <1>5
  <2>2. /\ VersionsOf(history', k, s) = VersionsOf(history, k, s)
        /\ VersionsOf(entries', k, s) = VersionsOf(entries, k, s)
    BY <1>2, <2>1 DEF VersionsOf
  <2> QED BY <2>2 DEF Newest
<1>6. ASSUME NEW s \in Nat, s <= lastSequence, Faithful(s) PROVE Faithful(s)'
  BY <1>2, <1>5, <1>6 DEF Faithful, Value
<1>7. Faithful(lastSequence)'
  <2>1. ASSUME NEW k \in Keys
        PROVE  Visible(Newest(entries', k, lastSequence')) = Visible(Newest(history', k, lastSequence'))
    <3>1. CASE \E g \in new : g.key = k
      <4>1. PICK g \in new : g.key = k
        BY <3>1
      <4>2. PICK e \in history' : e \in Newest(history', k, lastSequence')
        BY <1>2, <1>3, <1>4, <4>1, NewestExists
      <4>3. /\ e.key = k /\ e.seq <= lastSequence' /\ g.seq <= e.seq
            /\ \A f \in history' : f.key = k /\ f.seq <= lastSequence' => f.seq <= e.seq
        BY <1>2, <1>3, <1>4, <4>1, <4>2, NewestIsGreatest
      <4>4. e \in entries'
        BY <1>0, <1>1, <1>2, <1>3, <4>1, <4>3
      <4>5. entries' \subseteq Entry
        BY <1>3
      <4>6. e \in Newest(entries', k, lastSequence')
        BY <1>3, <1>4, <4>3, <4>4, <4>5, NewestIsGreatest
      <4>7. /\ Newest(entries', k, lastSequence') = {e}
            /\ Newest(history', k, lastSequence') = {e}
        BY <1>3, <1>4, <4>2, <4>5, <4>6, NewestUnique
      <4> QED BY <4>7
    <3>2. CASE \A g \in new : g.key # k
      <4>1. VersionsOf(history', k, lastSequence') = VersionsOf(history, k, lastSequence)
        BY <1>0, <1>2, <1>3, <3>2 DEF VersionsOf
      <4>2. VersionsOf(entries', k, lastSequence') = VersionsOf(entries, k, lastSequence)
        BY <1>0, <1>2, <1>3, <3>2 DEF VersionsOf
      <4>3. /\ Newest(history', k, lastSequence') = Newest(history, k, lastSequence)
            /\ Newest(entries', k, lastSequence') = Newest(entries, k, lastSequence)
        BY <4>1, <4>2 DEF Newest
      <4> QED BY <1>0, <4>3 DEF Faithful, Value
    <3> QED BY <3>1, <3>2
  <2>2. \A e \in history' : ~(e.seq > lastSequence')
    BY <1>2, <1>3
  <2> QED BY <2>1, <2>2 DEF Faithful, Value
<1> QED BY <1>2, <1>3, <1>4, <1>5, <1>6, <1>7

\* A write, by the transaction in X that passes the conflict check, or by
\* nobody when X is empty.
LEMMA GrowthStep ==
    ASSUME IInv, NEW recs \in Seq(Record), NEW X \in SUBSET Txns, \A y, z \in X : y = z,
           entries' = entries \cup Numbered(recs, lastSequence),
           history' = history \cup Numbered(recs, lastSequence),
           lastSequence' = lastSequence + Len(recs), gc' = gc,
           writes' \in 0..MaxWrites, compactions' \in 0..MaxCompactions, closed' = closed,
           txn' \in [Txns -> Transaction],
           \A y \in Txns \ X : txn'[y] = txn[y],
           \A y \in X :
              /\ Open(y) /\ ~Conflicts(y) /\ txn[y].recs = recs
              /\ txn'[y].pc = "committed" /\ txn'[y].commitSeq = lastSequence
              /\ txn'[y].readSeq = txn[y].readSeq /\ txn'[y].recs = recs
              /\ txn'[y].readKeys = txn[y].readKeys
              /\ txn'[y].readRanges = txn[y].readRanges /\ txn'[y].seen = txn[y].seen
    PROVE  IInv'
<1>0. /\ TypeOK /\ lastSequence \in Nat /\ Len(recs) \in Nat
      /\ \A y \in Txns : /\ txn[y].readSeq \in Nat /\ txn[y].commitSeq \in Nat
                         /\ txn[y].readSeq <= lastSequence /\ txn[y].commitSeq <= lastSequence
                         /\ txn[y].recs \in Seq(Record)
  BY SMTT(30) DEF IInv, TypeOK, Transaction
<1>g. /\ lastSequence' \in Nat /\ lastSequence <= lastSequence'
      /\ entries' \subseteq history' /\ history' \subseteq Entry /\ history \subseteq history'
      /\ \A e \in history' : e.seq <= lastSequence'
      /\ UniqueSeqs(history')
      /\ \A k, s : s \in Nat /\ s <= lastSequence =>
             /\ Newest(history', k, s) = Newest(history, k, s)
             /\ Newest(entries', k, s) = Newest(entries, k, s)
      /\ \A s \in Nat : s <= lastSequence /\ Faithful(s) => Faithful(s)'
      /\ Faithful(lastSequence)'
      /\ \A e \in entries' \ entries, f \in history : f.seq < e.seq
  BY GrowthKeepsStore
<1>n. \A k : \A s \in Nat : s <= lastSequence => Newest(history', k, s) = Newest(history, k, s)
  BY <1>g
<1>f. \A y \in Txns : /\ txn'[y].readSeq = txn[y].readSeq /\ txn'[y].recs = txn[y].recs
                      /\ txn'[y].readKeys = txn[y].readKeys
                      /\ txn'[y].readRanges = txn[y].readRanges /\ txn'[y].seen = txn[y].seen
                      /\ txn'[y].commitSeq <= lastSequence
                      /\ txn'[y].pc = "open" => txn[y].pc = "open"
                      /\ y \notin X => txn'[y].pc = txn[y].pc /\ txn'[y].commitSeq = txn[y].commitSeq
  BY <1>0
<1>1. TypeOK'
  <2>1. \A y \in Txns : txn'[y].readSeq <= lastSequence' /\ txn'[y].commitSeq <= lastSequence'
    BY <1>0, <1>f, <1>g, SMTT(30) DEF Transaction
  <2>2. closed' \in BOOLEAN
    BY <1>0 DEF TypeOK
  <2>3. \A c \in gc' : c.inputs \subseteq Entry /\ c.watermark \in Nat
    BY <1>0 DEF TypeOK
  <2> QED BY <1>g, <2>1, <2>2, <2>3 DEF TypeOK
<1>2. StoreInv'
  <2>1. ASSUME NEW y \in Txns, Open(y)' PROVE Faithful(txn[y].readSeq)'
    <3>1. Faithful(txn[y].readSeq) /\ txn'[y].readSeq = txn[y].readSeq
      BY <1>f, <2>1 DEF IInv, StoreInv, Open
    <3>2. PICK s \in Nat : s = txn[y].readSeq
      BY <1>0
    <3>3. Faithful(s)'
      BY <1>0, <1>g, <3>1, <3>2
    <3> QED BY <3>1, <3>2, <3>3 DEF Faithful, Value
  <2> QED BY <1>g, <2>1 DEF StoreInv
<1>3. GcInv'
  <2> SUFFICES ASSUME NEW c \in gc
               PROVE  /\ c.inputs \subseteq entries' /\ c.watermark <= lastSequence'
                      /\ \A e \in entries' \ c.inputs, f \in c.inputs : f.seq < e.seq
                      /\ \A y \in Txns : Open(y)' => c.watermark <= txn'[y].readSeq
    BY DEF GcInv
  <2>1. /\ c.inputs \subseteq entries /\ c.watermark <= lastSequence /\ c.watermark \in Nat
        /\ \A e \in entries \ c.inputs, f \in c.inputs : f.seq < e.seq
        /\ \A y \in Txns : Open(y) => c.watermark <= txn[y].readSeq
    BY <1>0 DEF IInv, GcInv, TypeOK
  <2>2. c.inputs \subseteq history
    BY <1>0, <2>1 DEF TypeOK
  <2>3. \A e \in entries' \ c.inputs, f \in c.inputs : f.seq < e.seq
    BY <1>g, <2>1, <2>2
  <2>4. \A y \in Txns : Open(y)' => c.watermark <= txn'[y].readSeq
    BY <1>f, <2>1 DEF Open
  <2> QED BY <1>0, <1>g, <2>1, <2>3, <2>4
<1>4. ReadsRecorded'
  BY <1>f DEF IInv, ReadsRecorded
<1>5. CommitsInv'
  <2> SUFFICES ASSUME NEW y \in Txns, txn'[y].pc = "committed"
               PROVE  /\ txn'[y].readSeq <= txn'[y].commitSeq
                      /\ txn'[y].commitSeq + Len(txn'[y].recs) <= lastSequence'
                      /\ Numbered(txn'[y].recs, txn'[y].commitSeq) \subseteq history'
                      /\ \A z \in Txns :
                           \/ txn'[z].readSeq <= txn'[y].commitSeq
                           \/ txn'[y].commitSeq + Len(txn'[y].recs) <= txn'[z].readSeq
    BY DEF CommitsInv, Numbered
  <2>1. CASE y \in X
    <3>1. txn'[y].recs = recs /\ txn'[y].commitSeq = lastSequence
      BY <2>1
    <3> QED BY <1>0, <1>f, <3>1
  <2>2. CASE y \notin X
    <3>1. /\ txn[y].pc = "committed" /\ txn'[y].recs = txn[y].recs
          /\ txn'[y].commitSeq = txn[y].commitSeq
      BY <1>f, <2>2
    <3>2. /\ txn[y].readSeq <= txn[y].commitSeq
          /\ txn[y].commitSeq + Len(txn[y].recs) <= lastSequence
          /\ Numbered(txn[y].recs, txn[y].commitSeq) \subseteq history
          /\ \A z \in Txns : \/ txn[z].readSeq <= txn[y].commitSeq
                             \/ txn[y].commitSeq + Len(txn[y].recs) <= txn[z].readSeq
      BY <3>1 DEF IInv, CommitsInv
    <3>3. Len(txn[y].recs) \in Nat
      BY <1>0
    <3> QED BY <1>0, <1>f, <1>g, <3>1, <3>2, <3>3
  <2> QED BY <2>1, <2>2
<1>6. RepeatableReads'
  <2> SUFFICES ASSUME NEW y \in Txns, NEW r \in txn'[y].seen
               PROVE  r.value = Visible(Newest(history', r.key, txn'[y].readSeq))
    BY DEF RepeatableReads
  <2>1. r.value = Visible(Newest(history, r.key, txn[y].readSeq))
    BY <1>f DEF IInv, RepeatableReads
  <2>2. Newest(history', r.key, txn[y].readSeq) = Newest(history, r.key, txn[y].readSeq)
    BY <1>0, <1>n
  <2>3. txn'[y].readSeq = txn[y].readSeq
    BY <1>f
  <2> QED BY <2>1, <2>2, <2>3
<1>7. Serializable'
  <2> SUFFICES ASSUME NEW y \in Txns, txn'[y].pc = "committed", NEW r \in txn'[y].seen
               PROVE  r.value = Visible(Newest(history', r.key, txn'[y].commitSeq))
    BY DEF Serializable
  <2>1. CASE y \in X
    <3>1. Faithful(txn[y].readSeq)
      BY <2>1 DEF IInv, StoreInv
    <3>2. \A e \in entries : e.key = r.key => ~(e.seq > txn[y].readSeq)
      BY <1>f, <2>1 DEF IInv, ReadsRecorded, Conflicts, ChangedAfter
    <3>3. \A e \in history : e.seq \in Nat /\ e.seq <= lastSequence
      BY <1>0 DEF TypeOK, Entry
    <3>4. \A e \in history : e.key = r.key => e.seq <= txn[y].readSeq
      BY <1>0, <3>1, <3>2, <3>3 DEF Faithful
    <3>5. VersionsOf(history, r.key, txn[y].readSeq) = VersionsOf(history, r.key, lastSequence)
      BY <3>3, <3>4 DEF VersionsOf
    <3>6. r.value = Visible(Newest(history, r.key, lastSequence))
      <4>1. r.value = Visible(Newest(history, r.key, txn[y].readSeq))
        BY <1>f DEF IInv, RepeatableReads
      <4>2. Newest(history, r.key, txn[y].readSeq) = Newest(history, r.key, lastSequence)
        BY <3>5 DEF Newest
      <4> QED BY <4>1, <4>2
    <3>7. Newest(history', r.key, lastSequence) = Newest(history, r.key, lastSequence)
      <4>1. lastSequence \in Nat /\ lastSequence <= lastSequence
        BY <1>0
      <4> QED BY <1>n, <4>1
    <3>8. txn'[y].commitSeq = lastSequence
      BY <2>1
    <3> QED BY <3>6, <3>7, <3>8
  <2>2. CASE y \notin X
    <3>1. r.value = Visible(Newest(history, r.key, txn[y].commitSeq))
      BY <1>f, <2>2 DEF IInv, Serializable
    <3>2. Newest(history', r.key, txn[y].commitSeq) = Newest(history, r.key, txn[y].commitSeq)
      BY <1>0, <1>n
    <3>3. txn'[y].commitSeq = txn[y].commitSeq
      BY <1>f, <2>2
    <3> QED BY <3>1, <3>2, <3>3
  <2> QED BY <2>1, <2>2
<1>8. FirstCommitterWins'
  <2> SUFFICES ASSUME NEW y \in Txns, NEW z \in Txns, y # z,
                      txn'[y].pc = "committed", txn'[z].pc = "committed",
                      txn'[y].readSeq < txn'[z].commitSeq + Len(txn'[z].recs),
                      txn'[z].commitSeq + Len(txn'[z].recs) <= txn'[y].commitSeq
               PROVE  WriteKeys(txn'[y].recs) \cap WriteKeys(txn'[z].recs) = {}
    BY DEF FirstCommitterWins, WriteKeys
  <2>0. /\ Len(txn[y].recs) \in Nat /\ Len(txn[z].recs) \in Nat
        /\ txn'[y].recs = txn[y].recs /\ txn'[z].recs = txn[z].recs
    BY <1>0, <1>f
  <2>1. CASE y \notin X /\ z \notin X
    <3>1. txn'[y] = txn[y] /\ txn'[z] = txn[z]
      BY <2>1
    <3> QED BY <3>1, ZenonT(30) DEF IInv, FirstCommitterWins
  <2>2. CASE y \in X /\ z \notin X
    <3>1. /\ txn[z].pc = "committed" /\ txn'[z].commitSeq = txn[z].commitSeq
          /\ txn'[y].readSeq = txn[y].readSeq
      BY <1>f, <2>2
    <3>2. txn[y].readSeq <= txn[z].commitSeq
      BY <1>0, <2>0, <3>1 DEF IInv, CommitsInv
    <3>3. /\ Numbered(txn[z].recs, txn[z].commitSeq) \subseteq history
          /\ \A e \in Numbered(txn[z].recs, txn[z].commitSeq) :
                e.seq \in Nat /\ e.seq > txn[z].commitSeq
      BY <1>0, <3>1, NumberedFacts DEF IInv, CommitsInv
    <3>4. \A e \in Numbered(txn[z].recs, txn[z].commitSeq) : e \in entries /\ e.seq > txn[y].readSeq
      BY <1>0, <2>2, <3>2, <3>3 DEF IInv, StoreInv, Faithful
    <3>5. \A e \in Numbered(txn[z].recs, txn[z].commitSeq) : e.key \notin WriteKeys(txn[y].recs)
      BY <2>2, <3>4 DEF Conflicts, ChangedAfter
    <3>6. ASSUME NEW k, k \in WriteKeys(txn[z].recs) PROVE k \notin WriteKeys(txn[y].recs)
      <4>0. txn[z].recs \in Seq(Record) /\ txn[z].commitSeq \in Nat
        BY <1>0
      <4>1. \E e \in Numbered(txn[z].recs, txn[z].commitSeq) : e.key = k
        <5>1. \A l : l \in WriteKeys(txn[z].recs) <=>
                      \E e \in Numbered(txn[z].recs, txn[z].commitSeq) : e.key = l
          BY <4>0, NumberedFacts
        <5> QED BY <3>6, <5>1
      <4> QED BY <3>5, <4>1
    <3> QED BY <2>0, <3>6
  <2>3. CASE z \in X /\ y \notin X
    <3>1. txn[y].commitSeq + Len(txn[y].recs) <= lastSequence /\ txn'[z].commitSeq = lastSequence
      BY <1>f, <2>3 DEF IInv, CommitsInv
    <3>2. Len(txn[y].recs) = 0
      BY <1>0, <1>f, <2>0, <2>3, <3>1, SMTT(30)
    <3>3. WriteKeys(txn[y].recs) = {}
      BY <1>0, <3>2 DEF WriteKeys
    <3> QED BY <2>0, <3>3
  <2> QED BY <2>1, <2>2, <2>3
<1> QED BY <1>1, <1>2, <1>3, <1>4, <1>5, <1>6, <1>7, <1>8 DEF IInv

LEMMA PlainWriteStep ==
    ASSUME IInv, NEW rec \in Record, PlainWrite(rec)
    PROVE  IInv'
<1>0. <<rec>> \in Seq(Record) /\ Len(<<rec>>) = 1
  OBVIOUS
<1>1. PICK recs \in Seq(Record) : recs = <<rec>>
  BY <1>0
<1>2. /\ entries' = entries \cup Numbered(recs, lastSequence)
      /\ history' = history \cup Numbered(recs, lastSequence)
      /\ lastSequence' = lastSequence + Len(recs)
      /\ UNCHANGED <<closed, txn, gc, compactions>>
  BY <1>0, <1>1 DEF PlainWrite
<1>3. writes' \in 0..MaxWrites /\ compactions' \in 0..MaxCompactions
  BY BoundsAssumption DEF PlainWrite, IInv, TypeOK
<1>4. PICK X \in SUBSET Txns : X = {}
  OBVIOUS
<1>5. txn' \in [Txns -> Transaction] /\ \A y \in Txns \ X : txn'[y] = txn[y]
  BY <1>2 DEF IInv, TypeOK
<1>6. gc' = gc /\ closed' = closed
  BY <1>2
<1>7. /\ \A y, z \in X : y = z
      /\ \A y \in X :
            /\ Open(y) /\ ~Conflicts(y) /\ txn[y].recs = recs
            /\ txn'[y].pc = "committed" /\ txn'[y].commitSeq = lastSequence
            /\ txn'[y].readSeq = txn[y].readSeq /\ txn'[y].recs = recs
            /\ txn'[y].readKeys = txn[y].readKeys
            /\ txn'[y].readRanges = txn[y].readRanges /\ txn'[y].seen = txn[y].seen
  BY <1>4
<1> QED BY <1>2, <1>3, <1>5, <1>6, <1>7, GrowthStep

LEMMA CommitStep ==
    ASSUME IInv, NEW x \in Txns, Commit(x)
    PROVE  IInv'
<1>1. /\ txn \in [Txns -> Transaction] /\ lastSequence \in Nat
      /\ writes \in 0..MaxWrites /\ compactions \in 0..MaxCompactions
  BY DEF IInv, TypeOK
<1>2. PICK recs \in Seq(Record) : recs = txn[x].recs
  BY <1>1 DEF Transaction
<1>3. /\ Open(x) /\ ~Conflicts(x)
      /\ entries' = entries \cup Numbered(recs, lastSequence)
      /\ history' = history \cup Numbered(recs, lastSequence)
      /\ lastSequence' = lastSequence + Len(recs)
      /\ txn' = [txn EXCEPT ![x].pc = "committed", ![x].commitSeq = lastSequence]
      /\ UNCHANGED <<closed, gc, writes, compactions>>
  BY <1>2 DEF Commit
<1>4. PICK t : t = [txn[x] EXCEPT !.pc = "committed", !.commitSeq = lastSequence]
  OBVIOUS
<1>5. txn' = [txn EXCEPT ![x] = t]
  BY <1>1, <1>3, <1>4
<1>6. /\ t \in Transaction /\ t.pc = "committed" /\ t.commitSeq = lastSequence
      /\ t.readSeq = txn[x].readSeq /\ t.recs = recs /\ t.readKeys = txn[x].readKeys
      /\ t.readRanges = txn[x].readRanges /\ t.seen = txn[x].seen
  BY <1>1, <1>2, <1>4 DEF Transaction
<1>X. PICK X \in SUBSET Txns : X = {x}
  OBVIOUS
<1>7. /\ txn' \in [Txns -> Transaction] /\ txn'[x] = t
      /\ \A y \in Txns \ X : txn'[y] = txn[y]
  BY <1>1, <1>5, <1>6, <1>X
<1>8. \A y \in X :
         /\ Open(y) /\ ~Conflicts(y) /\ txn[y].recs = recs
         /\ txn'[y].pc = "committed" /\ txn'[y].commitSeq = lastSequence
         /\ txn'[y].readSeq = txn[y].readSeq /\ txn'[y].recs = recs
         /\ txn'[y].readKeys = txn[y].readKeys
         /\ txn'[y].readRanges = txn[y].readRanges /\ txn'[y].seen = txn[y].seen
  BY <1>2, <1>3, <1>6, <1>7, <1>X
<1>9. writes' \in 0..MaxWrites /\ compactions' \in 0..MaxCompactions /\ closed' = closed /\ gc' = gc
  BY <1>1, <1>3
<1>10. \A y, z \in X : y = z
  BY <1>X
<1> QED BY <1>3, <1>7, <1>8, <1>9, <1>10, GrowthStep

-----------------------------------------------------------------------------
(* Compaction *)

\* What is said of the history and the transactions alone.
LEMMA SameHistory ==
    ASSUME IInv, UNCHANGED <<lastSequence, txn, history>>
    PROVE  ReadsRecorded' /\ CommitsInv' /\ RepeatableReads' /\ Serializable' /\ FirstCommitterWins'
<1>1. ReadsRecorded' /\ RepeatableReads' /\ Serializable'
  BY DEF IInv, ReadsRecorded, RepeatableReads, Serializable
<1>2. CommitsInv'
  BY DEF IInv, CommitsInv, Numbered
<1>3. FirstCommitterWins'
  <2> SUFFICES ASSUME NEW y \in Txns, NEW z \in Txns, y # z,
                      txn'[y].pc = "committed", txn'[z].pc = "committed",
                      txn'[y].readSeq < txn'[z].commitSeq + Len(txn'[z].recs),
                      txn'[z].commitSeq + Len(txn'[z].recs) <= txn'[y].commitSeq
               PROVE  WriteKeys(txn'[y].recs) \cap WriteKeys(txn'[z].recs) = {}
    BY DEF FirstCommitterWins, WriteKeys
  <2> QED BY DEF IInv, FirstCommitterWins
<1> QED BY <1>1, <1>2, <1>3

\* Watermark::oldest is not above any live snapshot.
LEMMA WatermarkBelowSnapshots ==
    ASSUME IInv
    PROVE  /\ GcWatermark \in Nat /\ GcWatermark <= lastSequence
           /\ \A x \in Txns : Open(x) => GcWatermark <= txn[x].readSeq
<1>0. /\ lastSequence \in Nat
      /\ \A x \in Txns : txn[x].readSeq \in Nat /\ txn[x].readSeq <= lastSequence
  BY DEF IInv, TypeOK, Transaction
<1>1. /\ \A s \in ActiveSequences : s \in Nat /\ s <= lastSequence
      /\ \A x \in Txns : Open(x) => txn[x].readSeq \in ActiveSequences
  BY <1>0 DEF ActiveSequences
<1>2. CASE ActiveSequences = {}
  BY <1>0, <1>1, <1>2 DEF GcWatermark
<1>3. CASE ActiveSequences # {}
  <2>1. \E s \in ActiveSequences : \A u \in ActiveSequences : s <= u
    BY <1>1, <1>3, LeastElement
  <2>2. /\ GcWatermark \in ActiveSequences
        /\ \A u \in ActiveSequences : GcWatermark <= u
    BY <1>3, <2>1 DEF GcWatermark
  <2> QED BY <1>1, <2>2
<1> QED BY <1>2, <1>3

LEMMA StartCompactionStep ==
    ASSUME IInv, NEW flushed \in 1..lastSequence, StartCompaction(flushed)
    PROVE  IInv'
<1> DEFINE inputs == {e \in entries : e.seq <= flushed}
<1>0. /\ UNCHANGED <<entries, lastSequence, closed, txn, history, writes>>
      /\ gc' = {[inputs |-> inputs, watermark |-> GcWatermark]}
  BY DEF StartCompaction
<1>1. compactions' \in 0..MaxCompactions
  <2>1. compactions < MaxCompactions /\ compactions' = compactions + 1
    BY DEF StartCompaction
  <2>2. compactions \in 0..MaxCompactions
    BY DEF IInv, TypeOK
  <2> QED BY <2>1, <2>2, BoundsAssumption
<1>2. \A c \in gc' : c.inputs = inputs /\ c.watermark = GcWatermark
  BY <1>0
<1>3. entries \subseteq Entry /\ (\A e \in entries : e.seq \in Nat) /\ lastSequence \in Nat
  BY DEF IInv, TypeOK, Entry
<1>4. inputs \subseteq entries /\ \A e \in entries \ inputs, f \in inputs : f.seq < e.seq
  BY <1>3
<1> HIDE DEF inputs
<1>5. TypeOK'
  <2>1. \A c \in gc' : c.inputs \subseteq Entry /\ c.watermark \in Nat
    BY <1>2, <1>3, <1>4, WatermarkBelowSnapshots
  <2>2. closed' \in BOOLEAN
    BY <1>0 DEF IInv, TypeOK
  <2> QED BY <1>0, <1>1, <2>1, <2>2 DEF IInv, TypeOK
<1>6. GcInv'
  BY <1>0, <1>2, <1>4, WatermarkBelowSnapshots DEF GcInv, Open
<1>7. StoreInv'
  BY <1>0 DEF IInv, StoreInv, Faithful, Value, Open
<1>8. ReadsRecorded' /\ CommitsInv' /\ RepeatableReads' /\ Serializable' /\ FirstCommitterWins'
  BY <1>0, SameHistory
<1> QED BY <1>5, <1>6, <1>7, <1>8 DEF IInv

LEMMA FinishCompactionStep ==
    ASSUME IInv, NEW drop, FinishCompaction(drop)
    PROVE  IInv'
<1>0. /\ gc' = {} /\ UNCHANGED <<lastSequence, closed, txn, history, writes, compactions>>
      /\ TypeOK /\ StoreInv
  BY DEF FinishCompaction, IInv
<1>1. PICK c \in gc :
         entries' = (entries \ c.inputs) \cup CompactEntries(c.inputs, c.watermark, drop)
  BY DEF FinishCompaction
<1>2. /\ c.inputs \subseteq entries /\ c.watermark \in Nat /\ c.watermark <= lastSequence
      /\ \A e \in entries \ c.inputs, f \in c.inputs : f.seq < e.seq
      /\ \A x \in Txns : Open(x) => c.watermark <= txn[x].readSeq
  BY <1>0 DEF IInv, GcInv, TypeOK
<1>3. /\ entries \subseteq Entry /\ UniqueSeqs(entries) /\ lastSequence \in Nat
      /\ \A e \in history : e.seq \in Nat
      /\ \A x \in Txns : txn[x].readSeq \in Nat
  BY <1>0 DEF TypeOK, StoreInv, UniqueSeqs, Entry, Transaction
<1>4. entries' \subseteq entries
  BY <1>1, <1>2 DEF CompactEntries
<1>5. TypeOK'
  <2>1. closed' \in BOOLEAN
    BY <1>0 DEF TypeOK
  <2> QED BY <1>0, <1>4, <2>1 DEF TypeOK
<1>6. ASSUME NEW s \in Nat, c.watermark <= s, Faithful(s) PROVE Faithful(s)'
  <2>1. \A k \in Keys : Visible(Newest(entries', k, s)) = Visible(Newest(entries, k, s))
    <3>1. PICK rest, inputs, watermark :
             rest = entries \ c.inputs /\ inputs = c.inputs /\ watermark = c.watermark
      OBVIOUS
    <3>2. /\ rest \cup inputs = entries
          /\ entries' = rest \cup CompactEntries(inputs, watermark, drop)
      BY <1>1, <1>2, <3>1
    <3>3. Separate(rest, inputs, drop)
      BY <1>2, <3>1 DEF Separate
    <3> QED BY <1>2, <1>3, <1>6, <3>1, <3>2, <3>3, CompactionKeepsReads
  <2>2. ASSUME NEW e \in history, e.seq > s PROVE e \in entries'
    <3>1. e \in entries
      BY <1>6, <2>2 DEF Faithful
    <3>2. e.seq > c.watermark
      BY <1>2, <1>3, <1>6, <2>2
    <3> QED BY <1>1, <1>2, <3>1, <3>2, CompactionKeepsNewer
  <2> QED BY <1>0, <1>6, <2>1, <2>2 DEF Faithful, Value
<1>7. StoreInv'
  <2>1. Faithful(lastSequence)'
    <3>1. PICK s \in Nat : s = lastSequence
      BY <1>3
    <3>2. Faithful(s)'
      BY <1>0, <1>2, <1>6, <3>1 DEF StoreInv
    <3> QED BY <1>0, <3>1, <3>2 DEF Faithful, Value
  <2>2. ASSUME NEW x \in Txns, Open(x)' PROVE Faithful(txn[x].readSeq)'
    <3>1. PICK s \in Nat : s = txn[x].readSeq
      BY <1>3
    <3>2. Faithful(s)'
      BY <1>0, <1>2, <1>6, <2>2, <3>1 DEF StoreInv, Open
    <3> QED BY <1>0, <3>1, <3>2 DEF Faithful, Value
  <2> QED BY <1>0, <2>1, <2>2 DEF StoreInv
<1>8. GcInv'
  BY <1>0 DEF GcInv
<1>9. ReadsRecorded' /\ CommitsInv' /\ RepeatableReads' /\ Serializable' /\ FirstCommitterWins'
  BY <1>0, SameHistory
<1> QED BY <1>5, <1>7, <1>8, <1>9 DEF IInv

-----------------------------------------------------------------------------
\* Close and stuttering change nothing the invariant is about.
LEMMA QuietStep ==
    ASSUME IInv, closed' \in BOOLEAN,
           UNCHANGED <<entries, lastSequence, txn, gc, history, writes, compactions>>
    PROVE  IInv'
<1>1. TypeOK'
  BY DEF IInv, TypeOK
<1>2. StoreInv' /\ GcInv'
  BY DEF IInv, StoreInv, Faithful, Value, Open, GcInv
<1>3. ReadsRecorded' /\ CommitsInv' /\ RepeatableReads' /\ Serializable' /\ FirstCommitterWins'
  BY SameHistory
<1> QED BY <1>1, <1>2, <1>3 DEF IInv

LEMMA NextIInv == IInv /\ [Next]_vars => IInv'
<1> SUFFICES ASSUME IInv, [Next]_vars PROVE IInv'
  OBVIOUS
<1>1. ASSUME NEW x \in Txns, NEW readOnly \in BOOLEAN, Begin(x, readOnly) PROVE IInv'
  BY <1>1, BeginStep
<1>2. ASSUME NEW x \in Txns, NEW k \in Keys, Get(x, k) PROVE IInv'
  BY <1>2, GetStep
<1>3. ASSUME NEW x \in Txns, NEW range \in KeyRanges, Scan(x, range) PROVE IInv'
  BY <1>3, ScanStep
<1>4. ASSUME NEW x \in Txns, NEW rec \in Record, Write(x, rec) PROVE IInv'
  BY <1>4, WriteStep
<1>5. ASSUME NEW x \in Txns, Rollback(x) \/ CommitFails(x) PROVE IInv'
  BY <1>5, EndsStep DEF Rollback, CommitFails
<1>6. ASSUME NEW x \in Txns, Commit(x) PROVE IInv'
  BY <1>6, CommitStep
<1>7. ASSUME NEW rec \in Record, PlainWrite(rec) PROVE IInv'
  BY <1>7, PlainWriteStep
<1>8. CASE Close
  <2>1. closed' \in BOOLEAN
    BY <1>8 DEF Close
  <2> QED BY <1>8, <2>1, QuietStep DEF Close
<1>9. ASSUME NEW flushed \in 1..lastSequence, StartCompaction(flushed) PROVE IInv'
  BY <1>9, StartCompactionStep
<1>10. ASSUME NEW drop \in BOOLEAN, FinishCompaction(drop) PROVE IInv'
  BY <1>10, FinishCompactionStep
<1>11. CASE UNCHANGED vars
  <2>1. closed' \in BOOLEAN
    BY <1>11 DEF vars, IInv, TypeOK
  <2> QED BY <1>11, <2>1, QuietStep DEF vars
<1> QED BY <1>1, <1>2, <1>3, <1>4, <1>5, <1>6, <1>7, <1>8, <1>9, <1>10, <1>11 DEF Next

\* Whatever transactions, other writers and compactions do, the store keeps
\* what live snapshots need, and transactions remember what commit checks.
THEOREM Inductive == Spec => []IInv
BY InitIInv, NextIInv, PTL DEF Spec

\* The store holds only what was written, nothing newer than last_sequence, and
\* Transaction objects keep their types.
THEOREM TypeCorrect == Spec => []TypeOK
<1>1. IInv => TypeOK
  BY DEF IInv
<1> QED BY <1>1, Inductive, PTL

\* Transaction::get and scan read the store as it was at DB::transaction: no
\* write and no compaction, one started before the transaction included,
\* changes what they return.
THEOREM ReadsAreRepeatable == Spec => []RepeatableReads
<1>1. IInv => RepeatableReads
  BY DEF IInv
<1> QED BY <1>1, Inductive, PTL

\* ensure_no_transaction_conflicts admits only transactions whose reads are
\* still current when their batch gets its sequences: commits are serializable.
THEOREM CommitsAreSerializable == Spec => []Serializable
<1>1. IInv => Serializable
  BY DEF IInv
<1> QED BY <1>1, Inductive, PTL

\* Of two overlapping transactions that write one key commit_transaction lets
\* only the first through.
THEOREM NoLostUpdate == Spec => []FirstCommitterWins
<1>1. IInv => FirstCommitterWins
  BY DEF IInv
<1> QED BY <1>1, Inductive, PTL

-----------------------------------------------------------------------------
(* Read-your-own-writes *)

\* The row of k after the first n own records, said at once.
LaidOver(recs, n, k) ==
    LET mine == {i \in 1..n : recs[i].key = k}
    IN  IF mine = {} THEN {"store"}
        ELSE {recs[i] : i \in {j \in mine : (\A l \in mine : l <= j) /\ recs[j].type = "put"}}

\* The loop of Transaction::scan does to one row what its records say.
LEMMA LaidOverStep ==
    ASSUME NEW recs \in Seq(Record), NEW n \in 1..Len(recs), NEW k \in Keys
    PROVE  LaidOver(recs, n, k) =
             IF k # recs[n].key THEN LaidOver(recs, n - 1, k)
             ELSE IF recs[n].type = "put" THEN {recs[n]} ELSE {}
<1>1. n \in Nat /\ 1..n = 1..(n - 1) \cup {n} /\ n \notin 1..(n - 1)
  OBVIOUS
<1>2. CASE k # recs[n].key
  <2>1. {i \in 1..n : recs[i].key = k} = {i \in 1..(n - 1) : recs[i].key = k}
    BY <1>1, <1>2
  <2> QED BY <1>2, <2>1 DEF LaidOver
<1>3. CASE k = recs[n].key
  <2> DEFINE mine == {i \in 1..n : recs[i].key = k}
  <2>1. n \in mine /\ \A l \in mine : l <= n
    BY <1>1, <1>3
  <2>2. {j \in mine : (\A l \in mine : l <= j) /\ recs[j].type = "put"}
          = IF recs[n].type = "put" THEN {n} ELSE {}
    <3>1. ASSUME NEW j \in mine, \A l \in mine : l <= j PROVE j = n
      BY <2>1, <3>1
    <3> HIDE DEF mine
    <3> QED BY <2>1, <3>1
  <2>3. LaidOver(recs, n, k) = {recs[i] : i \in IF recs[n].type = "put" THEN {n} ELSE {}}
    BY <2>1, <2>2 DEF LaidOver
  <2> HIDE DEF mine
  <2> QED BY <1>3, <2>3
<1> QED BY <1>2, <1>3

\* Transaction::scan ends with the rows that its last record of each key leaves.
LEMMA OverlaidIs ==
    ASSUME NEW recs \in Seq(Record)
    PROVE  ScannedRows(recs) = [k \in Keys |-> LaidOver(recs, Len(recs), k)]
<1> DEFINE N == 0..Len(recs)
           Solves(g) == g = [n \in N |-> IF n = 0 THEN [k \in Keys |-> {"store"}]
                                         ELSE Overlay(g[n - 1], recs[n])]
           row(n) == [k \in Keys |-> LaidOver(recs, n, k)]
           all == [n \in N |-> row(n)]
<1>0. Len(recs) \in Nat
  OBVIOUS
<1>1. row(0) = [k \in Keys |-> {"store"}]
  <2>1. \A k \in Keys : LaidOver(recs, 0, k) = {"store"}
    BY DEF LaidOver
  <2> QED BY <2>1
<1>2. ASSUME NEW n \in 1..Len(recs) PROVE row(n) = Overlay(row(n - 1), recs[n])
  <2>1. recs[n] \in Record
    OBVIOUS
  <2>2. recs[n].key \in Keys
    BY <2>1 DEF Record
  <2>3. \A k \in Keys : LaidOver(recs, n, k) =
          IF k # recs[n].key THEN LaidOver(recs, n - 1, k)
          ELSE IF recs[n].type = "put" THEN {recs[n]} ELSE {}
    BY <1>2, LaidOverStep
  <2> QED BY <2>2, <2>3 DEF Overlay
<1> HIDE DEF row
<1>3. Solves(all)
  <2>1. \A n \in N : n # 0 => n \in 1..Len(recs) /\ n - 1 \in N
    BY <1>0
  <2>2. \A n \in N : all[n] = IF n = 0 THEN [k \in Keys |-> {"store"}]
                              ELSE Overlay(all[n - 1], recs[n])
    BY <1>1, <1>2, <2>1
  <2> HIDE DEF N
  <2> QED BY <2>2
<1>4. Overlaid(recs) = CHOOSE g : Solves(g)
  BY DEF Overlaid
<1> HIDE DEF Solves, all
<1>5. PICK g : g = Overlaid(recs) /\ Solves(g)
  BY <1>3, <1>4
<1> DEFINE T == {n \in N : g[n] # row(n)}
<1>6. T = {}
  <2> SUFFICES ASSUME T # {} PROVE FALSE
    OBVIOUS
  <2>1. PICK n \in T : \A m \in T : n <= m
    <3>1. T \subseteq Nat
      BY <1>0
    <3> HIDE DEF T
    <3> QED BY <3>1, LeastElement
  <2>2. n # 0
    BY <1>0, <1>1, <1>5 DEF Solves
  <2>3. n \in 1..Len(recs) /\ n - 1 \in N /\ ~(n <= n - 1)
    BY <1>0, <2>2
  <2>4. g[n - 1] = row(n - 1)
    BY <2>1, <2>3
  <2>5. g[n] = Overlay(g[n - 1], recs[n])
    BY <1>5, <2>2 DEF Solves
  <2> QED BY <1>2, <2>3, <2>4, <2>5
<1>7. g[Len(recs)] = row(Len(recs))
  BY <1>0, <1>6
<1> QED BY <1>5, <1>7 DEF ScannedRows, row

\* A transaction sees its own writes alike in both reads: local_value, which
\* searches its records from the last, and the overlay of scan, which replays
\* them from the first, have the same result for every key.
THEOREM OwnWritesAgree == Spec => []GetsAgreeWithScans
<1>1. ASSUME TypeOK PROVE GetsAgreeWithScans
  <2> SUFFICES ASSUME NEW x \in Txns, NEW k \in Keys, NEW recs, recs = txn[x].recs
               PROVE  ScannedRows(recs)[k] =
                        IF LocalValue(recs, k) = {} THEN {"store"}
                        ELSE {r \in LocalValue(recs, k) : r.type = "put"}
    BY DEF GetsAgreeWithScans
  <2>1. recs \in Seq(Record)
    BY <1>1 DEF TypeOK, Transaction
  <2>2. ScannedRows(recs)[k] = LaidOver(recs, Len(recs), k)
    BY <2>1, OverlaidIs
  <2> DEFINE mine == {i \in 1..Len(recs) : recs[i].key = k}
             last == {j \in mine : \A l \in mine : l <= j}
  <2>3. DOMAIN recs = 1..Len(recs) /\ Len(recs) \in Nat
    BY <2>1
  <2>4. LocalValue(recs, k) = {recs[i] : i \in last}
    BY <2>3 DEF LocalValue
  <2>5. last = {} <=> mine = {}
    <3>1. mine \subseteq Nat /\ \A i \in mine : i <= Len(recs)
      BY <2>3
    <3> HIDE DEF mine
    <3> QED BY <2>3, <3>1, GreatestElement
  <2>6. LaidOver(recs, Len(recs), k) =
          IF mine = {} THEN {"store"} ELSE {recs[i] : i \in {j \in last : recs[j].type = "put"}}
    <3>1. {j \in mine : (\A l \in mine : l <= j) /\ recs[j].type = "put"}
            = {j \in last : recs[j].type = "put"}
      OBVIOUS
    <3> QED BY <3>1 DEF LaidOver
  <2> HIDE DEF mine, last
  <2>7. {recs[i] : i \in {j \in last : recs[j].type = "put"}}
          = {r \in {recs[i] : i \in last} : r.type = "put"}
    OBVIOUS
  <2>8. {recs[i] : i \in last} = {} <=> last = {}
    OBVIOUS
  <2> QED BY <2>2, <2>4, <2>5, <2>6, <2>7, <2>8
<1> QED BY <1>1, TypeCorrect, PTL
=============================================================================
