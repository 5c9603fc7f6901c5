--------------------------- MODULE RaftLogProofs ---------------------------
(***************************************************************************)
(* Lemmas about the operators on logs that the handlers of RaftNode are    *)
(* built from: what Merge, Compact, AdvanceCommit and Peers return.        *)
(***************************************************************************)
EXTENDS RaftNode, FiniteSetTheorems, SequenceTheorems, WellFoundedInduction, TLAPS

\* Every nonempty set of naturals has a least member.
LEMMA LeastNat ==
  ASSUME NEW T \in SUBSET Nat, T # {}
  PROVE  \E x \in T : \A y \in T : x <= y
<1>1. PICK x \in T : \A y \in T : ~(<<y, x>> \in OpToRel(<, Nat))
  BY NatLessThanWellFounded, WFMin, Zenon
<1>2. ASSUME NEW y \in T PROVE ~(y < x)
  BY <1>1, Zenon DEF OpToRel
<1> QED
  BY <1>2

\* Min of a nonempty set of naturals is its least member.
LEMMA MinNat ==
  ASSUME NEW T \in SUBSET Nat, T # {}
  PROVE  Min(T) \in T /\ \A y \in T : Min(T) <= y
BY LeastNat, Zenon DEF Min

\* Max of a nonempty set of naturals with an upper bound is its largest member.
LEMMA MaxNat ==
  ASSUME NEW T \in SUBSET Nat, T # {}, NEW b \in Nat, \A x \in T : x <= b
  PROVE  Max(T) \in T /\ \A y \in T : y <= Max(T)
<1> DEFINE U == {u \in 0..b : b - u \in T}
<1>1. U \in SUBSET Nat /\ U # {}
  <2>1. PICK x \in T : TRUE
    BY Zenon
  <2>2. b - x \in 0..b /\ b - (b - x) = x
    OBVIOUS
  <2>3. b - x \in U
    BY <2>2
  <2>4. \A v \in U : v \in Nat
    OBVIOUS
  <2> HIDE DEF U
  <2> QED
    BY <2>3, <2>4
<1>2. PICK u \in U : \A v \in U : u <= v
  BY <1>1, LeastNat, Zenon
<1>3. ASSUME NEW y \in T PROVE b - u >= y
  <2>1. b - y \in U
    BY b - (b - y) = y
  <2>2. u <= b - y /\ u \in Nat
    BY <1>2, <2>1
  <2> HIDE DEF U
  <2> QED
    BY <2>2
<1>4. b - u \in T
  BY <1>2
<1> HIDE DEF U
<1> QED
  BY <1>3, <1>4, Zenon DEF Max

\* The larger and the smaller of two naturals.
LEMMA MaxOfTwo ==
  ASSUME NEW a \in Nat, NEW b \in Nat
  PROVE  Max({a, b}) = IF a >= b THEN a ELSE b
BY DEF Max

LEMMA MinOfTwo ==
  ASSUME NEW a \in Nat, NEW b \in Nat
  PROVE  Min({a, b}) = IF a <= b THEN a ELSE b
BY DEF Min

-----------------------------------------------------------------------------
(* Types.                                                                  *)

LEMMA LogType ==
  ASSUME NEW lg \in Log
  PROVE  /\ lg.base \in Base /\ lg.base.index \in Nat /\ lg.base.term \in Nat
         /\ lg.base.peers \in SUBSET Server /\ lg.base.data \in Seq(ApplyMsg)
         /\ lg.tail \in Seq(Entry) /\ Len(lg.tail) \in Nat
         /\ LastIndex(lg) \in Nat /\ LastIndex(lg) >= lg.base.index
BY LenProperties DEF Log, Base, LastIndex

LEMMA LogRecord ==
  ASSUME NEW lg \in Log, NEW t
  PROVE  /\ lg = [base |-> lg.base, tail |-> lg.tail]
         /\ [lg EXCEPT !.tail = t] = [base |-> lg.base, tail |-> t]
BY DEF Log

LEMMA LastTermType ==
  ASSUME NEW lg \in Log
  PROVE  LastTerm(lg) \in Nat
<1>1. CASE lg.tail = <<>>
  BY <1>1, LogType DEF LastTerm
<1>2. CASE lg.tail # <<>>
  <2>1. Len(lg.tail) \in 1..Len(lg.tail)
    BY <1>2, LogType, EmptySeq
  <2>2. lg.tail[Len(lg.tail)] \in Entry
    BY <2>1, LogType, ElementOfSeq
  <2> QED
    BY <1>2, <2>2 DEF LastTerm, Entry
<1> QED
  BY <1>1, <1>2

\* termAtLocked finds a term at every index the log holds.
LEMMA TermAtType ==
  ASSUME NEW lg \in Log, NEW i \in Nat, Has(lg, i)
  PROVE  TermAt(lg, i) \in Nat
<1>1. CASE i = lg.base.index
  BY <1>1, LogType DEF TermAt
<1>2. CASE i # lg.base.index
  <2>1. i - lg.base.index \in 1..Len(lg.tail)
    BY <1>2, LogType DEF Has, LastIndex
  <2>2. lg.tail[i - lg.base.index] \in Entry
    BY <2>1, LogType, ElementOfSeq
  <2> QED
    BY <1>2, <2>2 DEF TermAt, Entry
<1> QED
  BY <1>1, <1>2

LEMMA PeersType ==
  ASSUME NEW lg \in Log
  PROVE  Peers(lg) \in SUBSET Server
<1> DEFINE changes == {i \in 1..Len(lg.tail) : lg.tail[i].peers # {}}
<1>1. CASE changes = {}
  BY <1>1, LogType DEF Peers
<1>2. CASE changes # {}
  <2>1. Max(changes) \in changes
    <3>1. changes \in SUBSET Nat /\ \A x \in changes : x <= Len(lg.tail)
      BY LogType
    <3> HIDE DEF changes
    <3> QED
      BY <1>2, <3>1, MaxNat, LogType, Zenon
  <2>2. lg.tail[Max(changes)] \in Entry
    BY <2>1, LogType, ElementOfSeq, Zenon
  <2> QED
    BY <1>2, <2>2, Zenon DEF Peers, Entry
<1> QED
  BY <1>1, <1>2

LEMMA AdvanceCommitType ==
  ASSUME NEW lg \in Log, NEW match, NEW term, NEW commit \in Nat
  PROVE  AdvanceCommit(lg, match, term, commit) \in Nat
<1> DEFINE agreed == {i \in (commit + 1)..LastIndex(lg) :
                        /\ TermAt(lg, i) = term
                        /\ Cardinality({p \in Peers(lg) : match[p] >= i}) >= Majority(lg)}
<1>1. agreed \in SUBSET Nat /\ \A x \in agreed : x <= LastIndex(lg)
  BY LogType
<1>2. agreed # {} => Max(agreed) \in Nat
  <2> HIDE DEF agreed
  <2> QED
    BY <1>1, MaxNat, LogType, Zenon
<1> QED
  BY <1>2 DEF AdvanceCommit

\* The conflict repair of HandleAppendEntries only combines entries of the log
\* with entries of the request, and leaves the snapshot below them alone.
LEMMA MergeTail ==
  ASSUME NEW E, NEW lg \in Log, lg.tail \in Seq(E), NEW prev \in Nat,
         NEW entries \in Seq(E), Has(lg, prev)
  PROVE  \E t \in Seq(E) : Merge(lg, prev, entries) = [base |-> lg.base, tail |-> t]
<1> DEFINE differs == {i \in 1..Len(entries) :
                         \/ ~Has(lg, prev + i)
                         \/ TermAt(lg, prev + i) # entries[i].term}
           first == Min(differs)
           cut == prev + first - 1 - lg.base.index
           kept == SubSeq(lg.tail, 1, cut)
           new == SubSeq(entries, first, Len(entries))
<1>0. Len(entries) \in Nat /\ lg = [base |-> lg.base, tail |-> lg.tail]
  BY LenProperties DEF Log
<1>1. CASE differs = {}
  <2>1. Merge(lg, prev, entries) = lg
    BY <1>1 DEF Merge
  <2> QED
    BY <1>0, <2>1
<1>2. CASE differs # {}
  <2>1. first \in differs /\ \A i \in differs : first <= i
    <3>1. differs \in SUBSET Nat
      BY <1>0
    <3> HIDE DEF differs
    <3> QED
      BY <1>2, <3>1, MinNat
  <2>2. first \in 1..Len(entries) /\ first \in Nat
    BY <1>0, <2>1
  <2>3. cut \in 0..Len(lg.tail)
    <3>1. CASE first = 1
      <4> HIDE DEF first
      <4> QED
        BY <3>1, LogType DEF Has, LastIndex
    <3>2. CASE first # 1
      <4>1. first - 1 \in 1..Len(entries) /\ ~(first <= first - 1)
        BY <3>2, <2>2, <1>0
      <4>2. first - 1 \notin differs
        BY <4>1, <2>1, Zenon
      <4>3. Has(lg, prev + (first - 1))
        BY <4>1, <4>2
      <4> HIDE DEF first
      <4> QED
        BY <4>3, <2>2, LogType DEF Has, LastIndex
    <3> QED
      BY <3>1, <3>2
  <2> HIDE DEF first, differs
  <2>4. kept \in Seq(E)
    <3>1. \A i \in 1..cut : lg.tail[i] \in E
      BY <2>3, LogType, ElementOfSeq
    <3> HIDE DEF cut
    <3> QED
      BY <3>1, <2>3, SubSeqProperties, LogType
  <2>5. new \in Seq(E)
    <3>1. \A i \in first..Len(entries) : entries[i] \in E
      BY <2>2, <1>0, ElementOfSeq
    <3> QED
      BY <3>1, <2>2, <1>0, SubSeqProperties
  <2> HIDE DEF cut, kept, new
  <2>6. Merge(lg, prev, entries) = [lg EXCEPT !.tail = kept \o new]
    BY <1>2 DEF Merge, cut, kept, new, first, differs
  <2>7. kept \o new \in Seq(E)
    BY <2>4, <2>5, ConcatProperties
  <2>8. [lg EXCEPT !.tail = kept \o new] = [base |-> lg.base, tail |-> kept \o new]
    BY LogRecord, Zenon
  <2> QED
    BY <2>6, <2>7, <2>8, Zenon
<1> QED
  BY <1>1, <1>2

LEMMA MergeType ==
  ASSUME NEW lg \in Log, NEW prev \in Nat, NEW entries \in Seq(Entry), Has(lg, prev)
  PROVE  Merge(lg, prev, entries) \in Log /\ Merge(lg, prev, entries).base = lg.base
<1>1. PICK t \in Seq(Entry) : Merge(lg, prev, entries) = [base |-> lg.base, tail |-> t]
  BY LogType, MergeTail
<1> QED
  BY <1>1, LogType DEF Log

\* The log that is left after low, up to index, has become the snapshot.
Snapshotted(lg, index, data, low, high) ==
  [base |-> [index |-> index, term |-> TermAt(lg, index),
             peers |-> Peers([base |-> lg.base, tail |-> low]), data |-> data],
   tail |-> high]

\* compactLocked cuts the log in two at the index and keeps the upper part; the
\* snapshot gets the membership that the lower part ends with.
LEMMA CompactTail ==
  ASSUME NEW E, NEW lg \in Log, lg.tail \in Seq(E), NEW index \in Nat, NEW data,
         index >= lg.base.index, Compact(lg, index, data) # lg
  PROVE  /\ Has(lg, index)
         /\ \E low, high \in Seq(E) :
              Compact(lg, index, data) = Snapshotted(lg, index, data, low, high)
<1> DEFINE k == index - lg.base.index
           low == SubSeq(lg.tail, 1, k)
           high == SubSeq(lg.tail, k + 1, Len(lg.tail))
<1>1. Has(lg, index)
  BY DEF Compact
<1>2. k \in 0..Len(lg.tail)
  BY <1>1, LogType DEF Has, LastIndex
<1>3. low \in Seq(E)
  <2>1. \A i \in 1..k : lg.tail[i] \in E
    BY <1>2, LogType, ElementOfSeq
  <2> HIDE DEF k
  <2> QED
    BY <2>1, <1>2, SubSeqProperties, LogType
<1>4. high \in Seq(E)
  <2>1. \A i \in (k + 1)..Len(lg.tail) : lg.tail[i] \in E
    BY <1>2, LogType, ElementOfSeq
  <2> HIDE DEF k
  <2> QED
    BY <2>1, <1>2, SubSeqProperties, LogType
<1>5. [lg EXCEPT !.tail = low] = [base |-> lg.base, tail |-> low]
  BY LogRecord, Zenon
<1>6. Compact(lg, index, data) =
        [base |-> [index |-> index, term |-> TermAt(lg, index),
                   peers |-> Peers([lg EXCEPT !.tail = low]), data |-> data],
         tail |-> high]
  BY DEF Compact
<1> HIDE DEF k, low, high
<1> QED
  BY <1>1, <1>3, <1>4, <1>5, <1>6 DEF Snapshotted

\* compactLocked leaves a log whose snapshot reaches no further than the index
\* it was asked for.
LEMMA CompactType ==
  ASSUME NEW lg \in Log, NEW index \in Nat, NEW data \in Seq(ApplyMsg),
         index >= lg.base.index
  PROVE  /\ Compact(lg, index, data) \in Log
         /\ Compact(lg, index, data).base.index <= index
<1>1. CASE Compact(lg, index, data) # lg
  <2>1. lg.tail \in Seq(Entry)
    BY LogType
  <2>2. Has(lg, index)
    BY <1>1, <2>1, CompactTail
  <2>3. PICK low, high \in Seq(Entry) :
          Compact(lg, index, data) = Snapshotted(lg, index, data, low, high)
    BY <1>1, <2>1, CompactTail
  <2>4. Peers([base |-> lg.base, tail |-> low]) \in SUBSET Server
    <3>1. [base |-> lg.base, tail |-> low] \in Log
      BY LogType DEF Log
    <3> QED
      BY <3>1, PeersType
  <2>5. TermAt(lg, index) \in Nat
    BY <2>2, TermAtType
  <2> QED
    BY <2>3, <2>4, <2>5 DEF Snapshotted, Log, Base
<1>2. CASE Compact(lg, index, data) = lg
  BY <1>2
<1> QED
  BY <1>1, <1>2
=============================================================================
