---------------------------- MODULE QsoDbProofs ----------------------------
(* Facts about the operators of QsoDb: what they return, keep and bound.   *)
EXTENDS QsoDb, SequenceTheorems, FiniteSetTheorems, FunctionTheorems,
        WellFoundedInduction, TLAPS

\* The relation of the library's theorem is the order of the numbers.
LEMMA LessInNat ==
  \A x, y \in Nat : x < y => <<x, y>> \in OpToRel(<, Nat)
BY Zenon DEF OpToRel

\* A set of numbers has a least one: the first hit of a search exists.
LEMMA MinIsLeast ==
  ASSUME NEW S \in SUBSET Nat, S # {}
  PROVE  Min(S) \in S /\ \A y \in S : Min(S) <= y
<1>1. PICK x \in S : \A y \in S : ~(<<y, x>> \in OpToRel(<, Nat))
  BY WFMin, NatLessThanWellFounded, Zenon
<1>2. \A y \in S : x <= y
  <2>1. SUFFICES ASSUME NEW y \in S PROVE ~(y < x)
    BY SMT
  <2> QED
    BY <1>1, LessInNat, Zenon
<1> QED
  BY <1>2 DEF Min

\* A set of numbers with a bound has a greatest one: the last hit exists.
LEMMA MaxIsGreatest ==
  ASSUME NEW n \in Nat, NEW S \in SUBSET (0..n), S # {}
  PROVE  Max(S) \in S /\ \A y \in S : y <= Max(S)
<1> DEFINE T == {n - i : i \in S}
<1>0. \A i \in S : i \in Nat /\ n - i \in Nat
  OBVIOUS
<1>1. T \in SUBSET Nat /\ T # {}
  BY <1>0
<1>2. Min(T) \in T /\ \A y \in T : Min(T) <= y
  BY <1>1, MinIsLeast
<1>3. PICK x \in S : Min(T) = n - x
  BY <1>2
<1>4. ASSUME NEW y \in S PROVE y <= x
  <2>1. n - y \in T
    OBVIOUS
  <2>2. n - x <= n - y
    <3> HIDE DEF T
    <3> QED
      BY <1>2, <1>3, <2>1
  <2>3. x \in Nat /\ y \in Nat
    BY <1>0
  <2> QED
    BY <2>2, <2>3
<1> QED
  BY <1>4 DEF Max

\* A rearranged log has as many records, all of them records of the log.
LEMMA RearrangedType ==
  ASSUME NEW S, NEW s \in Seq(S), NEW t \in Rearranged(s)
  PROVE  t \in Seq(S) /\ Len(t) = Len(s) /\ DOMAIN t = DOMAIN s
<1>1. PICK p \in Permutation(DOMAIN s) : t = [i \in DOMAIN s |-> s[p[i]]]
  BY DEF Rearranged
<1>2. p \in [DOMAIN s -> DOMAIN s]
  BY DEF Permutation
<1>3. DOMAIN s = 1..Len(s) /\ Len(s) \in Nat
  BY LenProperties
<1>4. t \in [1..Len(s) -> S]
  BY <1>1, <1>2, <1>3
<1> QED
  BY <1>4, <1>3

\* Sorting loses no record.
LEMMA RearrangedKeeps ==
  ASSUME NEW S, NEW s \in Seq(S), NEW t \in Rearranged(s), NEW i \in DOMAIN s
  PROVE  \E j \in DOMAIN t : t[j] = s[i]
<1>1. PICK p \in Permutation(DOMAIN s) : t = [k \in DOMAIN s |-> s[p[k]]]
  BY DEF Rearranged
<1>2. PICK j \in DOMAIN s : p[j] = i
  BY DEF Permutation
<1> QED
  BY <1>1, <1>2

\* A sorted log is a rearrangement.
LEMMA SortedType ==
  ASSUME NEW S, NEW s \in Seq(S), NEW kind, NEW rev, NEW t \in Sorted(kind, rev, s)
  PROVE  /\ t \in Rearranged(s)
         /\ t \in Seq(S) /\ Len(t) = Len(s) /\ DOMAIN t = DOMAIN s
<1>1. t \in Rearranged(s)
  BY DEF Sorted
<1> QED
  BY <1>1, RearrangedType

-----------------------------------------------------------------------------
\* What the operations give are records and logs: the emptied record,
LEMMA EmptyRecType == EmptyRec \in Rec
BY RankAssumption DEF EmptyRec, Rec

\* the fields of a buffer,
LEMMA BufferType ==
  ASSUME NEW b \in AdifBuffer, NEW f \in DOMAIN b
  PROVE  b[f] \in Rank
<1>1. PICK S \in SUBSET Field : b \in [S -> Rank]
  BY DEF AdifBuffer
<1> QED
  BY <1>1

\* a record filled from it,
LEMMA fillfieldsType ==
  ASSUME NEW rec \in Rec, NEW b \in AdifBuffer
  PROVE  fillfields(rec, b) \in Rec
BY BufferType DEF fillfields, Rec

\* the record at an index, also at one past the end,
LEMMA getRecType ==
  ASSUME NEW s \in Seq(Rec), NEW n
  PROVE  getRec(s, n) \in Rec
<1>1. \A i \in DOMAIN s : s[i] \in Rec
  BY ElementOfSeq, LenProperties
<1> QED
  BY <1>1, EmptyRecType DEF getRec

\* one whose band or frequency has been filled in: nothing else is changed,
LEMMA checkBandType ==
  ASSUME NEW rec \in Rec
  PROVE  /\ checkBand(rec) \in Rec
         /\ \A f \in Field \ {"FREQ", "BAND"} : checkBand(rec)[f] = rec[f]
<1>1. band_freq[rec["BAND"]] \in Rank /\ band_name[rec["FREQ"]] \in Rank
  BY BandAssumption DEF Rec, Field
<1> QED
  BY <1>1 DEF checkBand, ifEmpty, Rec

\* and for a second time there is nothing to fill in;
LEMMA checkBandTwice ==
  ASSUME NEW rec \in Rec
  PROVE  checkBand(checkBand(rec)) = checkBand(rec)
<1> DEFINE once == checkBand(rec)
           twice == checkBand(once)
<1>1. /\ once["FREQ"] = IF rec["BAND"] # 0 THEN ifEmpty(rec["FREQ"], band_freq[rec["BAND"]])
                        ELSE rec["FREQ"]
      /\ once["BAND"] = IF rec["FREQ"] # 0 THEN ifEmpty(rec["BAND"], band_name[rec["FREQ"]])
                        ELSE rec["BAND"]
  BY DEF checkBand, Field
<1>2. /\ twice["FREQ"] = IF once["BAND"] # 0 THEN ifEmpty(once["FREQ"], band_freq[once["BAND"]])
                         ELSE once["FREQ"]
      /\ twice["BAND"] = IF once["FREQ"] # 0 THEN ifEmpty(once["BAND"], band_name[once["FREQ"]])
                         ELSE once["BAND"]
  BY DEF checkBand, Field
<1>3. once \in Rec /\ twice \in Rec /\ \A f \in Field \ {"FREQ", "BAND"} : twice[f] = once[f]
  BY checkBandType
<1> HIDE DEF once, twice
<1>4. twice["FREQ"] = once["FREQ"] /\ twice["BAND"] = once["BAND"]
  BY <1>1, <1>2 DEF ifEmpty
<1>5. \A f \in Field : twice[f] = once[f]
  BY <1>3, <1>4
<1>6. twice = [f \in Field |-> twice[f]] /\ once = [f \in Field |-> once[f]]
  BY <1>3 DEF Rec
<1>7. twice = once
  BY <1>5, <1>6
<1> QED
  BY <1>7 DEF once, twice

\* one with its dates and times filled in,
LEMMA completedType ==
  ASSUME NEW rec \in Rec
  PROVE  completed(rec) \in Rec
<1>1. checkBand(rec) \in Rec
  BY checkBandType
<1> QED
  BY <1>1 DEF completed, checkDateTimes, ifEmpty, Rec, Field

\* a log with one more record,
LEMMA qsoNewRecType ==
  ASSUME NEW s \in Seq(Rec), NEW rec \in Rec
  PROVE  qsoNewRec(s, rec) \in Seq(Rec)
BY completedType, AppendProperties DEF qsoNewRec

\* one whose records have gone through qsoUpdRec,
LEMMA checkBandsType ==
  ASSUME NEW s \in Seq(Rec)
  PROVE  /\ checkBands(s) \in Seq(Rec)
         /\ DOMAIN checkBands(s) = DOMAIN s /\ Len(checkBands(s)) = Len(s)
         /\ \A i \in DOMAIN s : checkBands(s)[i] = checkBand(s[i])
         /\ checkBands(s) = <<>> <=> s = <<>>
<1>1. Len(s) \in Nat /\ DOMAIN s = 1..Len(s) /\ \A i \in 1..Len(s) : s[i] \in Rec
  BY LenProperties, ElementOfSeq
<1>2. checkBands(s) \in [1..Len(s) -> Rec]
  BY <1>1, checkBandType DEF checkBands
<1>3. checkBands(s) \in Seq(Rec) /\ Len(checkBands(s)) = Len(s)
  BY <1>1, <1>2
<1>4. checkBands(s) = <<>> <=> s = <<>>
  BY <1>3, EmptySeq, LenProperties
<1> QED
  BY <1>1, <1>3, <1>4 DEF checkBands

\* (also a second time)
LEMMA checkBandsTwice ==
  ASSUME NEW s \in Seq(Rec)
  PROVE  checkBands(checkBands(s)) = checkBands(s)
<1>1. \A i \in DOMAIN s : s[i] \in Rec
  BY ElementOfSeq, LenProperties
<1>2. \A i \in DOMAIN s : checkBand(checkBands(s)[i]) = checkBands(s)[i]
  BY <1>1, checkBandTwice, checkBandsType
<1>3. checkBands(checkBands(s)) = [i \in DOMAIN s |-> checkBand(checkBands(s)[i])]
  BY checkBandsType DEF checkBands
<1>4. checkBands(s) = [i \in DOMAIN s |-> checkBands(s)[i]]
  BY DEF checkBands
<1> QED
  BY <1>2, <1>3, <1>4

\* a log with a record replaced
LEMMA qsoUpdRecType ==
  ASSUME NEW s \in Seq(Rec), NEW n, NEW rec \in Rec
  PROVE  qsoUpdRec(s, n, rec) \in Seq(Rec)
<1>1. CASE n \in DOMAIN s
  <2>1. n \in 1..Len(s)
    BY <1>1, LenProperties
  <2> QED
    BY <1>1, <2>1, ExceptSeq, checkBandType DEF qsoUpdRec
<1>2. CASE n \notin DOMAIN s
  BY <1>2 DEF qsoUpdRec
<1> QED
  BY <1>1, <1>2

\* and one with a record deleted.
LEMMA qsoDelRecType ==
  ASSUME NEW s \in Seq(Rec), NEW n
  PROVE  qsoDelRec(s, n) \in Seq(Rec)
<1>1. CASE n \in DOMAIN s
  <2>1. n \in 1..Len(s) /\ Len(s) \in Nat
    BY <1>1, LenProperties
  <2>2. \A i \in 1..Len(s) : s[i] \in Rec
    BY ElementOfSeq
  <2>3. SubSeq(s, 1, n - 1) \in Seq(Rec)
    BY <2>1, <2>2, SubSeqProperties
  <2>4. SubSeq(s, n + 1, Len(s)) \in Seq(Rec)
    BY <2>1, <2>2, SubSeqProperties
  <2> QED
    BY <1>1, <2>3, <2>4, ConcatProperties DEF qsoDelRec
<1>2. CASE n \notin DOMAIN s
  BY <1>2 DEF qsoDelRec
<1> QED
  BY <1>1, <1>2

\* The number duplicate() leaves is that of a record of the log, or 0.
LEMMA duplicateType ==
  ASSUME NEW s \in Seq(Rec), NEW rev, NEW call, NEW modes
  PROVE  /\ duplicate(s, rev, call, modes)
              \in [res : {"true", "possible", "false"}, nbr : Nat]
         /\ duplicate(s, rev, call, modes).nbr \in {0} \cup DOMAIN s
<1> DEFINE hits == {i \in DOMAIN s : s[i]["CALL"] = call}
           full == {i \in hits : s[i]["MODE"] \in modes}
<1>1. Len(s) \in Nat /\ DOMAIN s = 1..Len(s)
  BY LenProperties
<1>2. /\ hits \in SUBSET Nat /\ hits \in SUBSET (0..Len(s)) /\ hits \subseteq DOMAIN s
      /\ full \in SUBSET Nat /\ full \in SUBSET (0..Len(s)) /\ full \subseteq DOMAIN s
  BY <1>1
<1>3. hits # {} => Min(hits) \in hits /\ Max(hits) \in hits
  BY <1>1, <1>2, MinIsLeast, MaxIsGreatest
<1>4. full # {} => Min(full) \in full /\ Max(full) \in full
  BY <1>1, <1>2, MinIsLeast, MaxIsGreatest
<1>5. duplicate(s, rev, call, modes) =
        CASE full # {} ->
               [res |-> "true", nbr |-> IF rev THEN Max(full) ELSE Min(full)]
          [] full = {} /\ hits # {} ->
               [res |-> "possible", nbr |-> IF rev THEN Min(hits) ELSE Max(hits)]
          [] OTHER -> [res |-> "false", nbr |-> 0]
  BY DEF duplicate
<1> HIDE DEF hits, full
<1> QED
  BY <1>1, <1>2, <1>3, <1>4, <1>5

-----------------------------------------------------------------------------
(* The same records in another order *)

\* The records of s are those of t in another order.
Same(s, t) == \E p \in Bijection(DOMAIN s, DOMAIN t) : \A i \in DOMAIN s : s[i] = t[p[i]]

\* The indexes of a log can be counted.
LEMMA SeqDomain ==
  ASSUME NEW S, NEW s \in Seq(S)
  PROVE  /\ Len(s) \in Nat /\ DOMAIN s = 1..Len(s)
         /\ IsFiniteSet(DOMAIN s) /\ Cardinality(DOMAIN s) = Len(s)
<1>1. Len(s) \in Nat /\ DOMAIN s = 1..Len(s)
  BY LenProperties
<1> QED
  BY <1>1, FS_Interval

\* To have the same records is an equivalence.
LEMMA SameRefl == ASSUME NEW s PROVE Same(s, s)
<1> DEFINE id == [i \in DOMAIN s |-> i]
<1>1. id \in Bijection(DOMAIN s, DOMAIN s)
  BY Fun_IsBij
<1> QED
  BY <1>1 DEF Same

\* It goes in both directions,
LEMMA SameSym ==
  ASSUME NEW s, NEW t, Same(s, t)
  PROVE  Same(t, s)
<1>1. PICK p \in Bijection(DOMAIN s, DOMAIN t) : \A i \in DOMAIN s : s[i] = t[p[i]]
  BY DEF Same
<1> DEFINE q == Inverse(p, DOMAIN s, DOMAIN t)
<1>2. /\ q \in Bijection(DOMAIN t, DOMAIN s)
      /\ \A i \in DOMAIN s : q[p[i]] = i
  BY Fun_BijInverse
<1>3. ASSUME NEW j \in DOMAIN t PROVE t[j] = s[q[j]]
  <2>1. PICK i \in DOMAIN s : p[i] = j
    BY Fun_BijectionProperties
  <2> QED
    BY <1>1, <1>2, <2>1
<1> HIDE DEF q
<1> QED
  BY <1>2, <1>3 DEF Same

\* and on from log to log.
LEMMA SameTrans ==
  ASSUME NEW s, NEW t, NEW u, Same(s, t), Same(t, u)
  PROVE  Same(s, u)
<1>1. PICK p \in Bijection(DOMAIN s, DOMAIN t) : \A i \in DOMAIN s : s[i] = t[p[i]]
  BY DEF Same
<1>2. PICK q \in Bijection(DOMAIN t, DOMAIN u) : \A i \in DOMAIN t : t[i] = u[q[i]]
  BY DEF Same
<1> DEFINE r == [i \in DOMAIN s |-> q[p[i]]]
<1>3. r \in Bijection(DOMAIN s, DOMAIN u)
  BY Fun_BijTransitive
<1>4. p \in [DOMAIN s -> DOMAIN t]
  BY Fun_BijectionProperties
<1>5. \A i \in DOMAIN s : s[i] = u[r[i]]
  BY <1>1, <1>2, <1>4
<1> HIDE DEF r
<1> QED
  BY <1>3, <1>5 DEF Same

\* Logs with the same records are of one length.
LEMMA SameLen ==
  ASSUME NEW S, NEW s \in Seq(S), NEW t \in Seq(S), Same(s, t)
  PROVE  Len(s) = Len(t)
<1>1. ExistsBijection(DOMAIN s, DOMAIN t)
  BY Fun_ExistsBij DEF Same
<1> QED
  BY <1>1, SeqDomain, FS_Bijection

\* A sorted logbook has the records it had.
LEMMA SortedSame ==
  ASSUME NEW S, NEW s \in Seq(S), NEW kind, NEW rev, NEW t \in Sorted(kind, rev, s)
  PROVE  Same(t, s)
<1>1. t \in Rearranged(s) /\ DOMAIN t = DOMAIN s
  BY SortedType
<1>2. PICK p \in Permutation(DOMAIN s) : t = [i \in DOMAIN s |-> s[p[i]]]
  BY <1>1 DEF Rearranged
<1>3. p \in Surjection(DOMAIN s, DOMAIN s)
  <2>1. p \in [DOMAIN s -> DOMAIN s] /\ \A j \in DOMAIN s : \E i \in DOMAIN s : p[i] = j
    BY <1>2 DEF Permutation
  <2> QED
    BY <2>1, Fun_IsSurj
<1>4. p \in Injection(DOMAIN s, DOMAIN s)
  BY <1>3, SeqDomain, FS_SurjSameCardinalityImpliesInj
<1>5. p \in Bijection(DOMAIN s, DOMAIN s)
  BY <1>3, <1>4, Fun_IsBij
<1> QED
  BY <1>1, <1>2, <1>5 DEF Same

\* It stays so when the records have gone through qsoUpdRec.
LEMMA SameChecked ==
  ASSUME NEW s, NEW t, Same(s, t)
  PROVE  Same(checkBands(s), checkBands(t))
<1>1. PICK p \in Bijection(DOMAIN s, DOMAIN t) : \A i \in DOMAIN s : s[i] = t[p[i]]
  BY DEF Same
<1>2. p \in [DOMAIN s -> DOMAIN t]
  BY Fun_BijectionProperties
<1>3. DOMAIN checkBands(s) = DOMAIN s /\ DOMAIN checkBands(t) = DOMAIN t
  BY DEF checkBands
<1>4. \A i \in DOMAIN s : checkBands(s)[i] = checkBands(t)[p[i]]
  BY <1>1, <1>2 DEF checkBands
<1> QED
  BY <1>1, <1>3, <1>4 DEF Same

\* So a logbook with the records of another is a rearrangement of it.
LEMMA SameRearranged ==
  ASSUME NEW S, NEW s \in Seq(S), NEW t \in Seq(S), Same(s, t)
  PROVE  s \in Rearranged(t)
<1>1. PICK p \in Bijection(DOMAIN s, DOMAIN t) : \A i \in DOMAIN s : s[i] = t[p[i]]
  BY DEF Same
<1>2. Len(s) \in Nat /\ DOMAIN s = 1..Len(s) /\ DOMAIN s = DOMAIN t /\ s = [i \in DOMAIN s |-> s[i]]
  BY SameLen, SeqDomain, SeqDef
<1>3. /\ p \in [DOMAIN t -> DOMAIN t]
      /\ \A j \in DOMAIN t : \E i \in DOMAIN t : p[i] = j
  <2>1. /\ p \in [DOMAIN s -> DOMAIN t]
        /\ \A j \in DOMAIN t : \E i \in DOMAIN s : p[i] = j
    BY Fun_BijectionProperties
  <2> QED
    BY <1>2, <2>1
<1>4. s = [i \in DOMAIN t |-> t[p[i]]]
  BY <1>1, <1>2
<1> QED
  BY <1>3, <1>4 DEF Rearranged, Permutation
=============================================================================
