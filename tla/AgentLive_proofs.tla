-------------------------- MODULE AgentLive_proofs --------------------------
(***************************************************************************)
(* Theorems about the loops of the agent that send its error reports       *)
(* (ReportQueue), hold its tunnel (AgentTunnel) and announce it on its     *)
(* network (LanAdvert), for any servers, networks, lengths and limits; and *)
(* about the four of MCAgentLive side by side.                             *)
(***************************************************************************)
EXTENDS MCAgentLive, ShareRegistry_proofs, WellFoundedInduction, SequenceTheorems,
        FiniteSetTheorems, TLAPS

-----------------------------------------------------------------------------
(* ReportQueue *)

(* A set of numbers has a least one. *)
LEMMA Least == ASSUME NEW S \in SUBSET Nat, S # {} PROVE \E x \in S : \A y \in S : x <= y
<1> DEFINE R == OpToRel(<, Nat)
<1>1. IsWellFoundedOn(R, Nat)
  BY NatLessThanWellFounded
<1>2. \A x, y \in Nat : x < y => <<x, y>> \in R
  BY DEF OpToRel
<1> HIDE DEF R
<1>3. PICK x \in S : \A y \in S : ~(<<y, x>> \in R)
  BY <1>1, WFMin
<1>4. \A y \in S : ~(y < x)
  BY <1>2, <1>3
<1>5. \A y \in S : x <= y
  BY <1>4
<1> QED
  BY <1>5

(* The length of a line is a number. *)
LEMMA LenIsNat == ASSUME NEW lines \in Seq(Report) PROVE \A i \in 1..Len(lines) : lines[i].len \in Nat
<1>1. ASSUME NEW i \in 1..Len(lines) PROVE lines[i].len \in Nat
  <2>1. lines[i] \in Report
    BY ElementOfSeq
  <2>2. lines[i].len \in Lengths
    BY <2>1 DEF Report
  <2> QED
    BY <2>2, ReportAssumption
<1> QED
  BY <1>1

(* Lines are finitely many bytes. *)
LEMMA SizeType ==
  ASSUME NEW lines \in Seq(Report)
  PROVE  IsFiniteSet(Bytes(lines)) /\ Size(lines) \in Nat
<1> DEFINE Line(i) == {i} \X (0..lines[i].len)
           S == {Line(i) : i \in 1..Len(lines)}
           f == [i \in 1..Len(lines) |-> Line(i)]
<1>1. Len(lines) \in Nat /\ \A i \in 1..Len(lines) : lines[i].len \in Nat
  BY LenProperties, LenIsNat
<1>2. \A T \in S : IsFiniteSet(T)
  <2> SUFFICES ASSUME NEW i \in 1..Len(lines) PROVE IsFiniteSet(Line(i))
    OBVIOUS
  <2>1. IsFiniteSet({i})
    BY FS_Singleton
  <2>2. IsFiniteSet(0..lines[i].len)
    <3>1. 0 \in Int /\ lines[i].len \in Int
      BY <1>1
    <3> QED
      BY <3>1, FS_Interval
  <2> HIDE DEF S, f
  <2>3. IsFiniteSet({i} \X (0..lines[i].len))
    BY <2>1, <2>2, FS_Product
  <2> QED
    BY <2>3
<1>3. IsFiniteSet(S)
  <2>1. IsFiniteSet(1..Len(lines))
    BY <1>1, FS_Interval
  <2>2. f \in Surjection(1..Len(lines), S)
    BY DEF Surjection
  <2> HIDE DEF f, S
  <2> QED
    BY <2>1, <2>2, FS_Surjection
<1>4. Bytes(lines) = UNION S
  BY DEF Bytes
<1> HIDE DEF S
<1>5. IsFiniteSet(Bytes(lines))
  BY <1>2, <1>3, <1>4, FS_UNION
<1> QED
  BY <1>5, FS_CardinalityType DEF Size

(* No lines, no bytes. *)
LEMMA SizeOfNone == Size(<<>>) = 0
<1>1. Bytes(<<>>) = {}
  BY DEF Bytes
<1> QED
  BY <1>1, FS_EmptySet DEF Size

(* A line has one byte more than its length. *)
LEMMA SizeOfFirst ==
  ASSUME NEW lines \in Seq(Report), Len(lines) >= 1
  PROVE  Size(SubSeq(lines, 1, 1)) = lines[1].len + 1
<1> DEFINE one == SubSeq(lines, 1, 1)
           n == lines[1].len
<1>1. n \in Nat
  BY LenProperties, LenIsNat
<1>2. Len(one) = 1 /\ one[1] = lines[1]
  <2>1. \A i \in 1..1 : lines[i] \in Report
    BY LenProperties, ElementOfSeq
  <2>2. Len(one) = IF 1 <= 1 THEN 1 - 1 + 1 ELSE 0
    BY <2>1, SubSeqProperties
  <2>3. \A i \in 1..(1 - 1 + 1) : one[i] = lines[1 + i - 1]
    BY <2>1, SubSeqProperties
  <2> QED
    BY <2>2, <2>3
<1>3. 1..Len(one) = {1}
  BY <1>2
<1> HIDE DEF one
<1>4. Bytes(one) = {1} \X (0..n)
  BY <1>2, <1>3 DEF Bytes
<1>5. IsFiniteSet({1}) /\ Cardinality({1}) = 1
  BY FS_Singleton
<1>6. IsFiniteSet(0..n) /\ Cardinality(0..n) = n + 1
  <2> HIDE DEF n
  <2>1. ~(0 > n) /\ n - 0 + 1 = n + 1 /\ 0 \in Int /\ n \in Int
    BY <1>1
  <2> QED
    BY <2>1, FS_Interval
<1>7. Cardinality({1} \X (0..n)) = 1 * (n + 1)
  <2> HIDE DEF n
  <2>1. Cardinality({1} \X (0..n)) = Cardinality({1}) * Cardinality(0..n)
    BY <1>5, <1>6, FS_Product, Zenon
  <2> QED
    BY <1>5, <1>6, <2>1
<1>8. Size(one) = n + 1
  <2>1. Size(one) = 1 * (n + 1)
    BY <1>4, <1>7 DEF Size
  <2> HIDE DEF n
  <2> QED
    BY <1>1, <2>1
<1> QED
  BY <1>8 DEF one

(* The end of some lines is no longer than all of them. *)
LEMMA SizeOfEnd ==
  ASSUME NEW lines \in Seq(Report), NEW k \in 0..Len(lines)
  PROVE  Size(SubSeq(lines, k + 1, Len(lines))) <= Size(lines)
<1> DEFINE end == SubSeq(lines, k + 1, Len(lines))
           f == [b \in Bytes(end) |-> <<b[1] + k, b[2]>>]
<1>1. Len(lines) \in Nat /\ k \in Nat
  BY LenProperties
<1>2. /\ end \in Seq(Report) /\ Len(end) = Len(lines) - k
      /\ \A i \in 1..Len(end) : end[i] = lines[k + i]
  BY <1>1, SubSeqProperties
<1> HIDE DEF end
<1>3. ASSUME NEW b \in Bytes(end)
      PROVE  /\ b = <<b[1], b[2]>> /\ b[1] \in Nat /\ b[2] \in Nat
             /\ <<b[1] + k, b[2]>> \in Bytes(lines)
  <2>1. PICK i \in 1..Len(end) : b \in {i} \X (0..end[i].len)
    BY DEF Bytes
  <2>2. b = <<b[1], b[2]>> /\ b[1] = i /\ b[2] \in 0..lines[k + i].len
    BY <1>2, <2>1
  <2>3. i + k \in 1..Len(lines) /\ i + k = k + i
    BY <1>1, <1>2
  <2>4. <<i + k, b[2]>> \in {i + k} \X (0..lines[i + k].len)
    BY <2>2, <2>3
  <2> QED
    BY <2>2, <2>3, <2>4 DEF Bytes
<1>4. f \in Injection(Bytes(end), Bytes(lines))
  <2>1. f \in [Bytes(end) -> Bytes(lines)]
    BY <1>3
  <2>2. ASSUME NEW b \in Bytes(end), NEW c \in Bytes(end), f[b] = f[c] PROVE b = c
    <3>1. b[1] + k = c[1] + k /\ b[2] = c[2]
      <4>1. <<b[1] + k, b[2]>> = <<c[1] + k, c[2]>>
        BY <2>2
      <4> HIDE DEF f
      <4> QED
        BY <4>1
    <3>2. b[1] = c[1]
      <4> HIDE DEF f
      <4>1. b[1] \in Nat /\ c[1] \in Nat
        BY <1>3
      <4> QED
        BY <1>1, <3>1, <4>1
    <3> QED
      BY <1>3, <3>1, <3>2
  <2> HIDE DEF f
  <2> QED
    BY <2>1, <2>2 DEF Injection, IsInjective
<1>5. IsFiniteSet(Bytes(lines))
  BY SizeType
<1> HIDE DEF f
<1>6. Cardinality(Bytes(end)) <= Cardinality(Bytes(lines))
  BY <1>4, <1>5, FS_Injection
<1> QED
  BY <1>6 DEF Size, end

(* Every line of some is a line of others. *)
Among(some, lines) == \A i \in 1..Len(some) : \E j \in 1..Len(lines) : some[i] = lines[j]

LEMMA AllAmong == ASSUME NEW lines PROVE Among(lines, lines)
BY DEF Among

LEMMA PartIsAmong ==
  ASSUME NEW lines \in Seq(Report), NEW a \in 1..(Len(lines) + 1), NEW b \in 0..Len(lines)
  PROVE  SubSeq(lines, a, b) \in Seq(Report) /\ Among(SubSeq(lines, a, b), lines)
<1>1. Len(lines) \in Nat /\ a \in Int /\ b \in Int /\ a >= 1 /\ b <= Len(lines)
  BY LenProperties
<1>2. \A i \in a..b : lines[i] \in Report
  BY <1>1, ElementOfSeq
<1>3. /\ SubSeq(lines, a, b) \in Seq(Report)
      /\ Len(SubSeq(lines, a, b)) = IF a <= b THEN b - a + 1 ELSE 0
      /\ \A i \in 1..(b - a + 1) : SubSeq(lines, a, b)[i] = lines[a + i - 1]
  BY <1>1, <1>2, SubSeqProperties
<1>4. ASSUME NEW i \in 1..Len(SubSeq(lines, a, b))
      PROVE  \E j \in 1..Len(lines) : SubSeq(lines, a, b)[i] = lines[j]
  <2>1. a <= b /\ i \in 1..(b - a + 1) /\ a + i - 1 \in 1..Len(lines)
    BY <1>1, <1>3
  <2> QED
    BY <1>3, <2>1
<1> QED
  BY <1>3, <1>4 DEF Among

(* Lines among those of a queue were made when its were, and fit when its  *)
(* do.                                                                     *)
LEMMA AmongKeeps ==
  ASSUME NEW some, NEW lines, Among(some, lines)
  PROVE  /\ Ids(some) \subseteq Ids(lines)
         /\ (\A i \in 1..Len(lines) : ~tooLarge(lines[i].len))
              => \A i \in 1..Len(some) : ~tooLarge(some[i].len)
BY DEF Among, Ids

(* What trim keeps is the end of the queue, from some line on, and no      *)
(* longer than the cap.                                                    *)
LEMMA TrimKeepsEnd ==
  ASSUME NEW lines \in Seq(Report)
  PROVE  /\ trim(lines) \in Seq(Report)
         /\ \E k \in 0..Len(lines) : trim(lines) = SubSeq(lines, k + 1, Len(lines))
         /\ Among(trim(lines), lines)
         /\ Size(trim(lines)) <= MaxQueue
<1> DEFINE Fits(k) == \/ k = Len(lines)
                      \/ Size(SubSeq(lines, k + 1, Len(lines))) <= (MaxQueue * 3) \div 4
           S == {k \in 0..Len(lines) : Fits(k)}
           Drop == CHOOSE k \in 0..Len(lines) : Fits(k) /\ \A j \in 0..(k - 1) : ~Fits(j)
<1>1. Len(lines) \in Nat /\ Len(lines) \in S /\ S \in SUBSET Nat
  BY LenProperties
<1>2. PICK k \in S : \A j \in S : k <= j
  <2> HIDE DEF S
  <2> QED
    BY <1>1, Least
<1>3. k \in 0..Len(lines) /\ Fits(k) /\ \A j \in 0..(k - 1) : ~Fits(j)
  <2>1. k \in 0..Len(lines) /\ Fits(k)
    BY <1>2
  <2>2. \A j \in 0..(k - 1) : j \in 0..Len(lines) /\ ~(k <= j)
    BY <1>1, <2>1
  <2>3. \A j \in 0..(k - 1) : ~Fits(j)
    BY <1>2, <2>2
  <2> QED
    BY <2>1, <2>3
<1> HIDE DEF Fits
<1>4. Drop \in 0..Len(lines) /\ Fits(Drop)
  BY <1>3
<1>5. trim(lines) = SubSeq(lines, Drop + 1, Len(lines))
  BY DEF trim, Fits
<1> HIDE DEF Drop
<1>6. SubSeq(lines, Drop + 1, Len(lines)) \in Seq(Report)
      /\ Among(SubSeq(lines, Drop + 1, Len(lines)), lines)
  <2>1. Drop + 1 \in 1..(Len(lines) + 1) /\ Len(lines) \in 0..Len(lines)
    BY <1>1, <1>4
  <2> QED
    BY <2>1, PartIsAmong
<1>7. Size(trim(lines)) <= MaxQueue
  <2>1. MaxQueue \in Nat
    BY ReportAssumption
  <2>2. CASE Drop = Len(lines)
    <3>1. trim(lines) = <<>>
      BY <1>1, <1>5, <2>2, SubSeqEmpty
    <3> QED
      BY <2>1, <3>1, SizeOfNone
  <2>3. CASE Size(trim(lines)) <= (MaxQueue * 3) \div 4
    <3>1. (MaxQueue * 3) \div 4 \in Nat /\ (MaxQueue * 3) \div 4 <= MaxQueue
      BY <2>1
    <3>2. Size(trim(lines)) \in Nat
      BY <1>5, <1>6, SizeType
    <3> QED
      BY <2>1, <2>3, <3>1, <3>2
  <2> QED
    BY <1>4, <1>5, <2>2, <2>3 DEF Fits
<1> QED
  BY <1>4, <1>5, <1>6, <1>7

(* A batch is the start of the queue, and fits in an upload when every     *)
(* line of the queue does.                                                 *)
LEMMA BatchIsStart ==
  ASSUME NEW lines \in Seq(Report), \A i \in 1..Len(lines) : ~tooLarge(lines[i].len)
  PROVE  /\ FirstBatch(lines) \in Seq(Report) /\ Among(FirstBatch(lines), lines)
         /\ Size(FirstBatch(lines)) <= MaxBatch
<1> DEFINE whole == {k \in 1..Len(lines) : Size(SubSeq(lines, 1, k)) <= MaxBatch}
           last == CHOOSE k \in whole : \A j \in whole : j <= k
<1>1. whole \subseteq 1..Len(lines) /\ Len(lines) \in Nat
  BY LenProperties
<1>2. FirstBatch(lines) = IF Size(lines) <= MaxBatch \/ whole = {} THEN lines
                          ELSE SubSeq(lines, 1, last)
  BY DEF FirstBatch
<1> HIDE DEF whole
<1>3. ASSUME whole # {} PROVE last \in whole
  <2> DEFINE S == {Len(lines) - k : k \in whole}
  <2>1. S \in SUBSET Nat /\ S # {}
    <3>1. \A k \in whole : Len(lines) - k \in Nat
      BY <1>1
    <3>2. PICK k : k \in whole
      BY <1>3
    <3>3. Len(lines) - k \in S
      BY <3>2
    <3> QED
      BY <3>1, <3>3
  <2>2. PICK x \in S : \A y \in S : x <= y
    <3> HIDE DEF S
    <3> QED
      BY <2>1, Least
  <2>3. PICK k \in whole : x = Len(lines) - k
    BY <2>2
  <2>4. \A j \in whole : Len(lines) - k <= Len(lines) - j
    BY <2>2, <2>3
  <2>5. \A j \in whole : j <= k
    BY <1>1, <2>3, <2>4
  <2> QED
    BY <2>5
<1> HIDE DEF last
<1>4. ASSUME whole # {}
      PROVE  SubSeq(lines, 1, last) \in Seq(Report) /\ Among(SubSeq(lines, 1, last), lines)
  <2>1. last \in 1..Len(lines)
    BY <1>1, <1>3, <1>4, Zenon
  <2>2. last \in 0..Len(lines) /\ 1 \in 1..(Len(lines) + 1)
    BY <1>1, <2>1
  <2> QED
    BY <2>2, PartIsAmong
<1>5. whole # {} => Size(SubSeq(lines, 1, last)) <= MaxBatch
  BY <1>3 DEF whole
<1>6. Size(lines) <= MaxBatch \/ whole # {}
  <2>1. CASE Len(lines) = 0
    BY <2>1, SizeOfNone, EmptySeq, ReportAssumption
  <2>2. CASE Len(lines) # 0
    <3>1. Len(lines) >= 1 /\ 1 \in 1..Len(lines)
      BY <1>1, <2>2
    <3>2. lines[1].len \in Nat /\ MaxBatch \in Nat /\ ~(lines[1].len >= MaxBatch)
      BY <3>1, LenIsNat, ReportAssumption DEF tooLarge
    <3>3. Size(SubSeq(lines, 1, 1)) = lines[1].len + 1
      BY <3>1, SizeOfFirst
    <3>4. Size(SubSeq(lines, 1, 1)) <= MaxBatch
      BY <3>2, <3>3
    <3> QED
      BY <3>1, <3>4 DEF whole
  <2> QED
    BY <2>1, <2>2
<1>7. CASE Size(lines) <= MaxBatch
  BY <1>2, <1>7, AllAmong
<1>8. CASE ~(Size(lines) <= MaxBatch)
  <2>1. FirstBatch(lines) = SubSeq(lines, 1, last) /\ whole # {}
    BY <1>2, <1>6, <1>8
  <2> QED
    BY <1>4, <1>5, <2>1
<1> QED
  BY <1>7, <1>8

(* The lines of a queue that starts with a batch are the batch's and those *)
(* behind it.                                                              *)
LEMMA CutIds ==
  ASSUME NEW lines \in Seq(Report), NEW b \in Seq(Report), IsPrefix(b, lines)
  PROVE  /\ SubSeq(lines, Len(b) + 1, Len(lines)) \in Seq(Report)
         /\ Ids(lines) = Ids(b) \cup Ids(SubSeq(lines, Len(b) + 1, Len(lines)))
<1> DEFINE rest == SubSeq(lines, Len(b) + 1, Len(lines))
<1>1. Len(b) \in Nat /\ Len(lines) \in Nat /\ Len(b) <= Len(lines)
  BY LenProperties DEF IsPrefix
<1>2. /\ rest \in Seq(Report) /\ Len(rest) = Len(lines) - Len(b)
      /\ \A i \in 1..Len(rest) : rest[i] = lines[Len(b) + i]
  BY <1>1, SubSeqProperties
<1>3. \A i \in 1..Len(b) : b[i] = lines[i]
  <2>1. SubSeq(b, 1, Len(b)) = SubSeq(lines, 1, Len(b))
    BY DEF IsPrefix
  <2>2. \A i \in 1..Len(b) : SubSeq(b, 1, Len(b))[i] = b[i] /\ SubSeq(lines, 1, Len(b))[i] = lines[i]
    BY <1>1, SubSeqProperties
  <2> QED
    BY <2>1, <2>2
<1> HIDE DEF rest
<1>4. Ids(b) \subseteq Ids(lines) /\ Ids(rest) \subseteq Ids(lines)
  <2>1. \A i \in 1..Len(b) : i \in 1..Len(lines) /\ b[i].id = lines[i].id
    BY <1>1, <1>3
  <2>2. \A i \in 1..Len(rest) : Len(b) + i \in 1..Len(lines) /\ rest[i].id = lines[Len(b) + i].id
    BY <1>1, <1>2
  <2>3. Ids(b) \subseteq Ids(lines)
    BY <2>1 DEF Ids
  <2>4. Ids(rest) \subseteq Ids(lines)
    BY <2>2 DEF Ids
  <2> QED
    BY <2>3, <2>4
<1>5. Ids(lines) \subseteq Ids(b) \cup Ids(rest)
  <2>1. ASSUME NEW i \in 1..Len(lines) PROVE lines[i].id \in Ids(b) \cup Ids(rest)
    <3>1. CASE i <= Len(b)
      <4>1. i \in 1..Len(b) /\ b[i] = lines[i]
        BY <1>1, <1>3, <3>1
      <4> QED
        BY <4>1 DEF Ids
    <3>2. CASE i > Len(b)
      <4>1. i - Len(b) \in 1..Len(rest) /\ rest[i - Len(b)] = lines[i]
        BY <1>1, <1>2, <3>2
      <4> QED
        BY <4>1 DEF Ids
    <3> QED
      BY <1>1, <3>1, <3>2
  <2> QED
    BY <2>1 DEF Ids
<1> QED
  BY <1>2, <1>4, <1>5 DEF rest

(* The queue: lines that were made, each of a length that fits in an       *)
(* upload, within the cap, and a batch of some of them.                    *)
LinesOK(lines, n) ==
  /\ lines \in Seq(Report) /\ Ids(lines) \subseteq 1..n
  /\ \A i \in 1..Len(lines) : ~tooLarge(lines[i].len)

QueueInv ==
  /\ ReportsTypeOK /\ BatchFits
  /\ LinesOK(file, made) /\ LinesOK(batch, made)

LEMMA NoLinesOK == ASSUME NEW n \in Nat PROVE LinesOK(<<>>, n) /\ Size(<<>>) <= MaxQueue
<1>1. <<>> \in Seq(Report) /\ Len(<<>>) = 0
  BY EmptySeq
<1>2. Size(<<>>) <= MaxQueue
  BY SizeOfNone, ReportAssumption
<1> QED
  BY <1>1, <1>2 DEF LinesOK, Ids

LEMMA AmongOK ==
  ASSUME NEW lines, NEW n \in Nat, LinesOK(lines, n), NEW some \in Seq(Report), Among(some, lines)
  PROVE  LinesOK(some, n)
BY AmongKeeps DEF LinesOK

LEMMA LaterOK ==
  ASSUME NEW lines, NEW n \in Nat, NEW m \in Nat, n <= m, LinesOK(lines, n)
  PROVE  LinesOK(lines, m)
<1>1. 1..n \subseteq 1..m
  OBVIOUS
<1> QED
  BY <1>1 DEF LinesOK

(* What is left to show of a step, when the file and the batch are fine.   *)
LEMMA QueueStep ==
  ASSUME QueueInv, LinesOK(file, made)', LinesOK(batch, made)', Size(file)' <= MaxQueue,
         reporting' \in BOOLEAN, flushing' \in {"idle", "remove", "read", "taken", "cut"} \/ BatchFits',
         flushing' \in {"idle", "remove", "read", "post", "taken", "cut"},
         forwarded' \subseteq 1..made', given' \subseteq 1..made',
         made' \in 0..MaxReports, kills' \in 0..MaxKills
  PROVE  QueueInv'
<1>1. \A i \in 1..Len(file') : file'[i] \in Report
  BY ElementOfSeq DEF LinesOK
<1>2. BatchFits'
  BY DEF BatchFits
<1> QED
  BY <1>1, <1>2 DEF QueueInv, ReportsTypeOK

LEMMA QueueInitInv == ReportsInit => QueueInv
<1> SUFFICES ASSUME ReportsInit PROVE QueueInv
  OBVIOUS
<1>1. MaxQueue \in Nat /\ MaxReports \in Nat /\ MaxKills \in Nat /\ Len(<<>>) = 0
  BY ReportAssumption
<1>2. LinesOK(file, made) /\ LinesOK(batch, made) /\ Size(file) <= MaxQueue
  BY NoLinesOK DEF ReportsInit
<1>3. \A i \in 1..Len(file) : file[i] \in Report
  BY <1>2, ElementOfSeq DEF LinesOK
<1>4. ReportsTypeOK
  <2>1. made \in 0..MaxReports /\ kills \in 0..MaxKills
    BY <1>1 DEF ReportsInit
  <2>2. /\ reporting \in BOOLEAN /\ forwarded \subseteq 1..made /\ given \subseteq 1..made
        /\ flushing \in {"idle", "remove", "read", "post", "taken", "cut"}
    BY DEF ReportsInit
  <2> QED
    BY <1>2, <1>3, <2>1, <2>2 DEF ReportsTypeOK
<1> QED
  BY <1>2, <1>4 DEF QueueInv, BatchFits, ReportsInit

(* add: the file stays within its cap, and a line that is appended is one  *)
(* that fits.                                                              *)
LEMMA AddQueue ==
  ASSUME QueueInv, NEW len \in Lengths, add(len)
  PROVE  QueueInv'
<1> DEFINE r == [id |-> made + 1, len |-> len]
           lines == IF tooLarge(len) THEN file ELSE AppendTrimmed(r)
<1>1. /\ made < MaxReports /\ made' = made + 1 /\ file' = lines
      /\ given' = given \cup ((Ids(file) \cup {r.id}) \ Ids(lines))
      /\ UNCHANGED <<reporting, flushing, batch, forwarded, kills>>
  BY DEF add
<1>2. made \in Nat /\ made' \in Nat /\ made' \in 0..MaxReports /\ made <= made'
      /\ 1..made \subseteq 1..made' /\ made + 1 \in 1..made' /\ made + 1 \in 1..MaxReports
  BY <1>1, ReportAssumption DEF QueueInv, ReportsTypeOK
<1>3. r \in Report /\ r.id = made + 1 /\ r.len = len
  BY <1>2 DEF Report
<1> HIDE DEF r
<1>4. LinesOK(file, made') /\ LinesOK(batch, made') /\ Size(file) <= MaxQueue
  BY <1>2, LaterOK DEF QueueInv, ReportsTypeOK
<1>5. ASSUME ~tooLarge(len) PROVE LinesOK(AppendTrimmed(r), made') /\ Size(AppendTrimmed(r)) <= MaxQueue
  <2> DEFINE more == Append(file, r)
  <2>1. /\ more \in Seq(Report) /\ Len(more) = Len(file) + 1 /\ Len(file) \in Nat
        /\ \A i \in 1..Len(file) : more[i] = file[i]
        /\ more[Len(file) + 1] = r
    BY <1>3, <1>4, AppendProperties, LenProperties DEF LinesOK
  <2>2. LinesOK(more, made')
    <3> HIDE DEF more
    <3>1. ASSUME NEW i \in 1..Len(more) PROVE ~tooLarge(more[i].len) /\ more[i].id \in 1..made'
      <4>1. CASE i \in 1..Len(file)
        BY <1>4, <2>1, <4>1 DEF LinesOK, Ids
      <4>2. CASE i = Len(file) + 1
        BY <1>2, <1>3, <1>5, <2>1, <4>2
      <4> QED
        BY <2>1, <4>1, <4>2
    <3> QED
      BY <2>1, <3>1 DEF LinesOK, Ids
  <2>3. CASE Size(more) > MaxQueue
    <3>1. AppendTrimmed(r) = trim(more)
      BY <2>3 DEF AppendTrimmed
    <3> HIDE DEF more
    <3> QED
      BY <1>2, <2>1, <2>2, <3>1, TrimKeepsEnd, AmongOK
  <2>4. CASE ~(Size(more) > MaxQueue)
    <3>1. AppendTrimmed(r) = more
      BY <2>4 DEF AppendTrimmed
    <3> HIDE DEF more
    <3>2. Size(more) \in Nat /\ MaxQueue \in Nat
      BY <2>1, SizeType, ReportAssumption
    <3> QED
      BY <2>2, <2>4, <3>1, <3>2
  <2> QED
    BY <2>3, <2>4
<1>6. LinesOK(lines, made') /\ Size(lines) <= MaxQueue
  BY <1>4, <1>5
<1> HIDE DEF lines
<1>7. forwarded' \subseteq 1..made' /\ given' \subseteq 1..made'
  BY <1>1, <1>2, <1>3 DEF QueueInv, ReportsTypeOK, LinesOK
<1>8. reporting' \in BOOLEAN /\ kills' \in 0..MaxKills
      /\ flushing' \in {"idle", "remove", "read", "post", "taken", "cut"}
  BY <1>1 DEF QueueInv, ReportsTypeOK
<1>9. BatchFits'
  BY <1>1 DEF QueueInv, BatchFits
<1>10. LinesOK(file, made)' /\ LinesOK(batch, made)' /\ Size(file)' <= MaxQueue
  BY <1>1, <1>4, <1>6
<1> QED
  BY <1>2, <1>7, <1>8, <1>9, <1>10, QueueStep

(* A step that makes no report and takes some lines from the file, or      *)
(* none, and none into the batch but from the file.                        *)
LEMMA QueueKept ==
  ASSUME QueueInv, made' = made, reporting' \in BOOLEAN, kills' \in 0..MaxKills,
         file' = file \/ file' = <<>>, batch' = batch \/ batch' = <<>>,
         flushing' \in {"idle", "remove", "read", "taken", "cut"} \/ (flushing' = flushing /\ batch' = batch),
         forwarded' \subseteq 1..made, given' \subseteq 1..made
  PROVE  QueueInv'
<1>1. made \in Nat /\ made' \in 0..MaxReports /\ LinesOK(file, made) /\ LinesOK(batch, made)
      /\ Size(file) <= MaxQueue
  BY ReportAssumption DEF QueueInv, ReportsTypeOK
<1>2. LinesOK(file, made)' /\ Size(file)' <= MaxQueue
  <2>1. CASE file' = file
    BY <1>1, <2>1
  <2>2. CASE file' = <<>>
    BY <1>1, <2>2, NoLinesOK
  <2> QED
    BY <2>1, <2>2
<1>3. LinesOK(batch, made)'
  <2>1. CASE batch' = batch
    BY <1>1, <2>1
  <2>2. CASE batch' = <<>>
    BY <1>1, <2>2, NoLinesOK
  <2> QED
    BY <2>1, <2>2
<1>4. flushing' \in {"idle", "remove", "read", "taken", "cut"} \/ BatchFits'
  BY DEF QueueInv, BatchFits
<1>5. flushing' \in {"idle", "remove", "read", "post", "taken", "cut"}
  BY DEF QueueInv, ReportsTypeOK
<1> QED
  BY <1>1, <1>2, <1>3, <1>4, <1>5, QueueStep

(* addTrimBreaks: nothing is left of the file, and of the batch nothing or *)
(* what it was.                                                            *)
LEMMA TrimBreaksQueue ==
  ASSUME QueueInv, NEW len \in Lengths, addTrimBreaks(len)
  PROVE  QueueInv'
<1>1. /\ made < MaxReports /\ made' = made + 1 /\ kills < MaxKills /\ kills' = kills + 1
      /\ file' = <<>> /\ given' = given \cup Ids(file) \cup {made + 1}
      /\ (flushing' = flushing /\ batch' = batch) \/ (flushing' = "idle" /\ batch' = <<>>)
      /\ reporting' = reporting /\ forwarded' = forwarded
  BY DEF addTrimBreaks
<1>2. /\ made \in Nat /\ made' \in Nat /\ made' \in 0..MaxReports /\ made <= made'
      /\ kills' \in 0..MaxKills /\ 1..made \subseteq 1..made' /\ made + 1 \in 1..made'
  BY <1>1, ReportAssumption DEF QueueInv, ReportsTypeOK
<1>3. LinesOK(file, made)' /\ Size(file)' <= MaxQueue
  BY <1>1, <1>2, NoLinesOK
<1>4. LinesOK(batch, made)'
  BY <1>1, <1>2, LaterOK, NoLinesOK DEF QueueInv
<1>5. flushing' \in {"idle", "remove", "read", "taken", "cut"} \/ BatchFits'
  BY <1>1 DEF QueueInv, BatchFits
<1>6. reporting' \in BOOLEAN /\ flushing' \in {"idle", "remove", "read", "post", "taken", "cut"}
  BY <1>1 DEF QueueInv, ReportsTypeOK
<1>7. forwarded' \subseteq 1..made' /\ given' \subseteq 1..made'
  BY <1>1, <1>2 DEF QueueInv, ReportsTypeOK, LinesOK
<1> QED
  BY <1>2, <1>3, <1>4, <1>5, <1>6, <1>7, QueueStep

LEMMA QueueNextInv == QueueInv /\ [ReportsNext]_reportVars => QueueInv'
<1> SUFFICES ASSUME QueueInv, [ReportsNext]_reportVars PROVE QueueInv'
  OBVIOUS
<1>0. /\ made \in Nat /\ made \in 0..MaxReports /\ kills \in 0..MaxKills /\ reporting \in BOOLEAN
      /\ forwarded \subseteq 1..made /\ given \subseteq 1..made
      /\ Ids(file) \subseteq 1..made /\ Ids(batch) \subseteq 1..made
      /\ flushing \in {"idle", "remove", "read", "post", "taken", "cut"}
      /\ LinesOK(file, made) /\ LinesOK(batch, made) /\ Size(file) <= MaxQueue
  BY ReportAssumption DEF QueueInv, ReportsTypeOK, LinesOK
<1>1. CASE UNCHANGED reportVars
  BY <1>0, <1>1, QueueKept DEF reportVars
<1>2. CASE addFails
  <2>1. /\ made' = made + 1 /\ given' = given \cup {made + 1} /\ made < MaxReports
        /\ UNCHANGED <<file, reporting, flushing, batch, forwarded, kills>>
    BY <1>2 DEF addFails
  <2>2. made' \in 0..MaxReports /\ made' \in Nat /\ made <= made' /\ 1..made \subseteq 1..made'
        /\ made + 1 \in 1..made'
    <3>1. MaxReports \in Nat
      BY ReportAssumption
    <3> QED
      BY <1>0, <2>1, <3>1
  <2>3. LinesOK(file, made)' /\ LinesOK(batch, made)' /\ Size(file)' <= MaxQueue
    BY <1>0, <2>1, <2>2, LaterOK
  <2>4. BatchFits'
    BY <2>1 DEF QueueInv, BatchFits
  <2> QED
    BY <1>0, <2>1, <2>2, <2>3, <2>4, QueueStep
<1>3. CASE setErrorReports
  BY <1>0, <1>3, QueueKept DEF setErrorReports
<1>4. CASE flushStart
  BY <1>0, <1>4, QueueKept DEF flushStart
<1>5. CASE flushRead
  <2>1. /\ batch' = FirstBatch(file) /\ flushing' \in {"idle", "post"}
        /\ UNCHANGED <<file, reporting, forwarded, given, made, kills>>
    BY <1>5 DEF flushRead
  <2>2. LinesOK(FirstBatch(file), made) /\ Size(FirstBatch(file)) <= MaxBatch
    BY <1>0, BatchIsStart, AmongOK DEF LinesOK
  <2>3. Size(FirstBatch(file)) \in Nat /\ MaxBatch \in Nat /\ MaxBody \in Nat /\ MaxBatch <= MaxBody
    BY <2>2, SizeType, ReportAssumption DEF LinesOK
  <2>4. BatchFits'
    BY <2>1, <2>2, <2>3 DEF BatchFits
  <2>5. LinesOK(file, made)' /\ LinesOK(batch, made)' /\ Size(file)' <= MaxQueue
    BY <1>0, <2>1, <2>2
  <2> QED
    BY <1>0, <2>1, <2>4, <2>5, QueueStep
<1>6. CASE receiveReports
  BY <1>0, <1>6, QueueKept DEF receiveReports
<1>7. CASE flushPosted
  BY <1>0, <1>7, QueueKept DEF flushPosted
<1>8. CASE flushFails
  BY <1>0, <1>8, QueueKept DEF flushFails
<1>9. CASE agentKilled
  <2>1. kills' \in 0..MaxKills
    BY <1>0, <1>9, ReportAssumption DEF agentKilled
  <2> QED
    BY <1>0, <1>9, <2>1, QueueKept DEF agentKilled
<1>10. CASE \E len \in Lengths : add(len) \/ addTrimBreaks(len)
  BY <1>10, AddQueue, TrimBreaksQueue
<1>11. CASE flushCut
  <2>1. /\ file' = IF IsPrefix(batch, file) THEN SubSeq(file, Len(batch) + 1, Len(file)) ELSE file
        /\ flushing' = "read" /\ batch' = <<>>
        /\ UNCHANGED <<reporting, forwarded, given, made, kills>>
    BY <1>11 DEF flushCut
  <2>2. LinesOK(file', made) /\ Size(file') <= MaxQueue
    <3>1. CASE ~IsPrefix(batch, file)
      BY <1>0, <2>1, <3>1
    <3>2. CASE IsPrefix(batch, file)
      <4>1. file \in Seq(Report) /\ Len(file) \in Nat /\ Len(batch) \in 0..Len(file)
        BY <1>0, <3>2, LenProperties DEF LinesOK, IsPrefix
      <4>2. Len(batch) + 1 \in 1..(Len(file) + 1) /\ Len(file) \in 0..Len(file)
        BY <4>1
      <4>3. file' \in Seq(Report) /\ Among(file', file)
        BY <2>1, <3>2, <4>1, <4>2, PartIsAmong
      <4>4. Size(file') <= Size(file) /\ Size(file') \in Nat /\ Size(file) \in Nat /\ MaxQueue \in Nat
        BY <2>1, <3>2, <4>1, <4>3, SizeOfEnd, SizeType, ReportAssumption
      <4> QED
        BY <1>0, <4>3, <4>4, AmongOK
    <3> QED
      BY <3>1, <3>2
  <2>3. LinesOK(file, made)' /\ LinesOK(batch, made)' /\ Size(file)' <= MaxQueue
    BY <1>0, <2>1, <2>2, NoLinesOK
  <2> QED
    BY <1>0, <2>1, <2>3, QueueStep
<1>12. CASE flushRemove
  BY <1>0, <1>12, QueueKept DEF flushRemove
<1>13. CASE flushCutFails
  <2>1. kills' \in 0..MaxKills
    BY <1>0, <1>13, ReportAssumption DEF flushCutFails
  <2> QED
    BY <1>0, <1>13, <2>1, QueueKept DEF flushCutFails
<1> QED
  BY <1>1, <1>2, <1>3, <1>4, <1>5, <1>6, <1>7, <1>8, <1>9, <1>10, <1>11, <1>12, <1>13
  DEF ReportsNext

(* The queue keeps its types; in particular the file of reports never      *)
(* exceeds its cap, for every cap and every length of a line               *)
(* (reports.go:82-109).                                                    *)
THEOREM ReportsTyped == ReportsSpec => []ReportsTypeOK
<1>1. QueueInv => ReportsTypeOK
  BY DEF QueueInv
<1> QED
  BY <1>1, QueueInitInv, QueueNextInv, PTL DEF ReportsSpec

(* The server can read every batch that is sent to it, so that no line     *)
(* keeps the queue from draining (reports.go:76-80, 139-145).              *)
THEOREM BatchesFit == ReportsSpec => []BatchFits
<1>1. QueueInv => BatchFits
  BY DEF QueueInv
<1> QED
  BY <1>1, QueueInitInv, QueueNextInv, PTL DEF ReportsSpec

(* Why no report is lost: what is cut off the file is what the server has  *)
(* forwarded, as the batch is the one that it has answered for.            *)
ReportsInv ==
  /\ file \in Seq(Report) /\ batch \in Seq(Report)
  /\ made \in 0..MaxReports
  /\ flushing \in {"taken", "cut"} => Ids(batch) \subseteq forwarded
  /\ NoReportLost

LEMMA ReportsInitInv == ReportsInit => ReportsInv
<1> SUFFICES ASSUME ReportsInit PROVE ReportsInv
  OBVIOUS
<1>1. file \in Seq(Report) /\ batch \in Seq(Report)
  BY EmptySeq DEF ReportsInit
<1>2. made \in 0..MaxReports /\ 1..made = {} /\ flushing = "idle"
  BY ReportAssumption DEF ReportsInit
<1> QED
  BY <1>1, <1>2 DEF ReportsInv, NoReportLost

(* add: the report is in the file, or is counted among those given up. *)
LEMMA AddKeeps ==
  ASSUME ReportsInv, NEW len \in Lengths, add(len)
  PROVE  ReportsInv'
<1> DEFINE r == [id |-> made + 1, len |-> len]
           lines == IF tooLarge(len) THEN file ELSE AppendTrimmed(r)
<1>1. /\ made < MaxReports /\ made' = made + 1 /\ file' = lines
      /\ given' = given \cup ((Ids(file) \cup {r.id}) \ Ids(lines))
      /\ UNCHANGED <<flushing, batch, forwarded>>
  BY DEF add
<1>2. made \in Nat /\ made' \in 0..MaxReports /\ made' \in 1..MaxReports
      /\ 1..made' = (1..made) \cup {made + 1}
  BY <1>1, ReportAssumption DEF ReportsInv
<1>3. r \in Report /\ r.id = made + 1
  BY <1>1, <1>2 DEF Report
<1> HIDE DEF r
<1>4. lines \in Seq(Report)
  <2>1. Append(file, r) \in Seq(Report)
    BY <1>3, AppendProperties DEF ReportsInv
  <2>2. AppendTrimmed(r) \in Seq(Report)
    BY <2>1, TrimKeepsEnd DEF AppendTrimmed
  <2> QED
    BY <2>2 DEF ReportsInv
<1> HIDE DEF lines
<1>5. Ids(file') = Ids(lines) /\ Ids(batch') = Ids(batch)
  BY <1>1
<1>6. NoReportLost'
  BY <1>1, <1>2, <1>3, <1>5 DEF ReportsInv, NoReportLost
<1> QED
  BY <1>1, <1>2, <1>4, <1>5, <1>6 DEF ReportsInv

(* flushCut: a batch the file still starts with was forwarded. *)
LEMMA CutKeeps == ReportsInv /\ flushCut => ReportsInv'
<1> SUFFICES ASSUME ReportsInv, flushCut PROVE ReportsInv'
  OBVIOUS
<1>1. /\ file' = IF IsPrefix(batch, file) THEN SubSeq(file, Len(batch) + 1, Len(file)) ELSE file
      /\ flushing = "cut" /\ flushing' = "read" /\ batch' = <<>>
      /\ UNCHANGED <<forwarded, given, made>>
  BY DEF flushCut
<1>2. file' \in Seq(Report) /\ Ids(file) \subseteq Ids(file') \cup Ids(batch)
  <2>1. CASE IsPrefix(batch, file)
    BY <1>1, <2>1, CutIds DEF ReportsInv
  <2>2. CASE ~IsPrefix(batch, file)
    BY <1>1, <2>2 DEF ReportsInv
  <2> QED
    BY <2>1, <2>2
<1>3. Ids(batch) \subseteq forwarded
  BY <1>1 DEF ReportsInv
<1>4. NoReportLost'
  BY <1>1, <1>2, <1>3 DEF ReportsInv, NoReportLost
<1>5. batch' \in Seq(Report)
  BY <1>1, EmptySeq
<1> QED
  BY <1>1, <1>2, <1>4, <1>5 DEF ReportsInv

(* addTrimBreaks: all that was in the file is counted among those given up. *)
LEMMA TrimBreaksKeeps ==
  ASSUME ReportsInv, NEW len \in Lengths, addTrimBreaks(len)
  PROVE  ReportsInv'
<1>1. /\ made < MaxReports /\ made' = made + 1
      /\ file' = <<>> /\ given' = given \cup Ids(file) \cup {made + 1}
      /\ (flushing' = flushing /\ batch' = batch) \/ (flushing' = "idle" /\ batch' = <<>>)
      /\ forwarded' = forwarded
  BY DEF addTrimBreaks
<1>2. made' \in 0..MaxReports /\ 1..made' = (1..made) \cup {made + 1}
  BY <1>1, ReportAssumption DEF ReportsInv
<1>3. NoReportLost'
  BY <1>1, <1>2 DEF ReportsInv, NoReportLost
<1>4. file' \in Seq(Report) /\ batch' \in Seq(Report)
  BY <1>1, EmptySeq DEF ReportsInv
<1>5. flushing' \in {"taken", "cut"} => Ids(batch') \subseteq forwarded'
  BY <1>1 DEF ReportsInv
<1> QED
  BY <1>2, <1>3, <1>4, <1>5 DEF ReportsInv

LEMMA ReportsNextInv == QueueInv /\ ReportsInv /\ [ReportsNext]_reportVars => ReportsInv'
<1> SUFFICES ASSUME QueueInv, ReportsInv, [ReportsNext]_reportVars PROVE ReportsInv'
  OBVIOUS
<1>0. <<>> \in Seq(Report) /\ Ids(<<>>) = {}
  BY EmptySeq DEF Ids
<1>1. CASE UNCHANGED reportVars
  BY <1>1 DEF reportVars, ReportsInv, NoReportLost
<1>2. CASE addFails
  <2>1. made \in Nat /\ made' = made + 1 /\ made' \in 0..MaxReports
        /\ 1..made' = (1..made) \cup {made + 1}
    BY <1>2, ReportAssumption DEF addFails, ReportsInv
  <2> QED
    BY <1>2, <2>1 DEF addFails, ReportsInv, NoReportLost
<1>3. CASE setErrorReports
  BY <1>3 DEF setErrorReports, ReportsInv, NoReportLost
<1>4. CASE flushStart
  BY <1>4 DEF flushStart, ReportsInv, NoReportLost
<1>5. CASE flushRead
  <2>1. /\ batch' = FirstBatch(file) /\ flushing' \in {"idle", "post"}
        /\ UNCHANGED <<file, forwarded, given, made>>
    BY <1>5 DEF flushRead
  <2>2. batch' \in Seq(Report)
    BY <2>1, BatchIsStart DEF QueueInv, LinesOK
  <2> QED
    BY <2>1, <2>2 DEF ReportsInv, NoReportLost
<1>6. CASE receiveReports
  BY <1>6 DEF receiveReports, ReportsInv, NoReportLost
<1>7. CASE flushPosted
  BY <1>7 DEF flushPosted, ReportsInv, NoReportLost
<1>8. CASE flushFails
  BY <1>0, <1>8 DEF flushFails, ReportsInv, NoReportLost
<1>9. CASE agentKilled
  <2>1. flushing' = "idle" /\ batch' = <<>> /\ UNCHANGED <<forwarded, made>>
    BY <1>9 DEF agentKilled
  <2>2. CASE UNCHANGED <<file, given>>
    BY <1>0, <2>1, <2>2 DEF ReportsInv, NoReportLost
  <2>3. CASE file' = <<>> /\ given' = given \cup Ids(file)
    <3>1. NoReportLost'
      BY <2>1, <2>3 DEF ReportsInv, NoReportLost
    <3> QED
      BY <1>0, <2>1, <2>3, <3>1 DEF ReportsInv
  <2> QED
    BY <1>9, <2>2, <2>3 DEF agentKilled
<1>10. CASE \E len \in Lengths : add(len) \/ addTrimBreaks(len)
  BY <1>10, AddKeeps, TrimBreaksKeeps
<1>11. CASE flushCut
  BY <1>11, CutKeeps
<1>12. CASE flushRemove
  <2>1. /\ file' = <<>> /\ given' = given \cup Ids(file) /\ flushing' = "idle"
        /\ UNCHANGED <<batch, forwarded, made>>
    BY <1>12 DEF flushRemove
  <2>2. NoReportLost'
    BY <2>1 DEF ReportsInv, NoReportLost
  <2> QED
    BY <1>0, <2>1, <2>2 DEF ReportsInv
<1>13. CASE flushCutFails
  <2>1. flushing' = "read" /\ batch' = <<>> /\ UNCHANGED <<forwarded, made>>
    BY <1>13 DEF flushCutFails
  <2>2. CASE UNCHANGED <<file, given>>
    BY <1>0, <2>1, <2>2 DEF ReportsInv, NoReportLost
  <2>3. CASE file' = <<>> /\ given' = given \cup Ids(file)
    <3>1. NoReportLost'
      BY <2>1, <2>3 DEF ReportsInv, NoReportLost
    <3> QED
      BY <1>0, <2>1, <2>3, <3>1 DEF ReportsInv
  <2> QED
    BY <1>13, <2>2, <2>3 DEF flushCutFails
<1> QED
  BY <1>1, <1>2, <1>3, <1>4, <1>5, <1>6, <1>7, <1>8, <1>9, <1>10, <1>11, <1>12, <1>13
  DEF ReportsNext

(* No report is lost because the file changed while a batch was on its     *)
(* way, for every size of the queue and of a batch (reports.go:95-109,     *)
(* 167-174).                                                               *)
THEOREM ReportsKept == ReportsSpec => []NoReportLost
<1>1. ReportsInv => NoReportLost
  BY DEF ReportsInv
<1> QED
  BY <1>1, QueueInitInv, QueueNextInv, ReportsInitInv, ReportsNextInv, PTL DEF ReportsSpec

-----------------------------------------------------------------------------
(* AgentTunnel *)

(* A server the PC deals with has it bound or has taken a binding away: a  *)
(* sign in is accepted with a binding, and servers that took one away stay *)
(* known.                                                                  *)
Known(s) == bound[s] \/ s \in unbound

KnownInv ==
  /\ account # NoServer => Known(account)
  /\ leaving # NoServer => leaving \in unbound
  /\ \A s \in Servers : signing[s] = "accepted" => Known(s)
  /\ loop \notin {"ready", "wait"} => Known(of)
  /\ loop = "gone" => of \in unbound

TunnelInv ==
  /\ AgentTunnelTypeOK /\ KnownInv
  /\ loop = "answered" => conn # "none"

LEMMA TunnelInitInv == TunnelInit => TunnelInv
<1> SUFFICES ASSUME TunnelInit PROVE TunnelInv
  OBVIOUS
<1>1. backoff \in 1..BackoffMax /\ moves \in 0..MaxAccountMoves
  BY TunnelAssumption DEF TunnelInit
<1>2. bound \in [Servers -> BOOLEAN] /\ signing \in [Servers -> {"no", "asked", "accepted"}]
  BY DEF TunnelInit
<1>3. AgentTunnelTypeOK
  BY <1>1, <1>2 DEF TunnelInit, AgentTunnelTypeOK
<1> QED
  BY <1>3 DEF TunnelInit, TunnelInv, KnownInv

(* What the loop does leaves the accounts alone, but for a 410 answer. *)
LEMMA LoopKeepsTunnel ==
  ASSUME TunnelInv,
         \/ notEnrolled \/ tunnelOnce \/ openTunnelCheck \/ openTunnelRegister
         \/ handshakeUp \/ handshakeGone \/ handshakeFails \/ serveConn \/ runTunnel
         \/ \E how \in {"silent", "closed"} : pathDies(how)
  PROVE  TunnelInv'
<1> USE TunnelAssumption DEF TunnelInv, AgentTunnelTypeOK, KnownInv, Known, accountVars
<1>0. backoff \in Nat /\ BackoffMax \in Nat /\ backoff >= 1 /\ backoff <= BackoffMax
  OBVIOUS
<1>1. CASE notEnrolled
  BY <1>0, <1>1 DEF notEnrolled, tunnelDown
<1>2. CASE tunnelOnce
  BY <1>2 DEF tunnelOnce
<1>3. CASE openTunnelCheck
  BY <1>3 DEF openTunnelCheck
<1>4. CASE openTunnelRegister
  BY <1>4 DEF openTunnelRegister
<1>5. CASE handshakeUp
  BY <1>5 DEF handshakeUp
<1>6. CASE handshakeGone
  BY <1>0, <1>6 DEF handshakeGone, forgetAccount, tunnelDown
<1>7. CASE handshakeFails
  BY <1>0, <1>7 DEF handshakeFails, tunnelDown
<1>8. CASE serveConn
  BY <1>0, <1>8 DEF serveConn, tunnelDown
<1>9. CASE runTunnel
  <2>1. backoff' \in 1..BackoffMax
    BY <1>0, <1>9 DEF runTunnel
  <2> QED
    BY <1>9, <2>1 DEF runTunnel
<1>10. CASE \E how \in {"silent", "closed"} : pathDies(how)
  BY <1>10 DEF pathDies
<1> QED
  BY <1>1, <1>2, <1>3, <1>4, <1>5, <1>6, <1>7, <1>8, <1>9, <1>10

(* Sign ins, sign outs and removals. *)
LEMMA AccountKeepsTunnel ==
  ASSUME TunnelInv,
         \/ signOut \/ signOutForget
         \/ \E s \in Servers : \/ signInStart(s) \/ signInAccepted(s) \/ signInWritten(s)
                               \/ removeDevice(s)
  PROVE  TunnelInv'
<1> USE TunnelAssumption DEF TunnelInv, AgentTunnelTypeOK, KnownInv, Known, accountVars
<1>0. accountMoves => moves' \in 0..MaxAccountMoves
  BY DEF accountMoves
<1>1. CASE signOut
  BY <1>0, <1>1 DEF signOut, accountMoves, Unbind
<1>2. CASE signOutForget
  BY <1>2 DEF signOutForget, forgetAccount
<1>3. ASSUME NEW s \in Servers, signInStart(s) PROVE TunnelInv'
  BY <1>0, <1>3 DEF signInStart, accountMoves
<1>4. ASSUME NEW s \in Servers, signInAccepted(s) PROVE TunnelInv'
  BY <1>4 DEF signInAccepted
<1>5. ASSUME NEW s \in Servers, signInWritten(s) PROVE TunnelInv'
  BY <1>5 DEF signInWritten
<1>6. ASSUME NEW s \in Servers, removeDevice(s) PROVE TunnelInv'
  BY <1>0, <1>6 DEF removeDevice, accountMoves, Unbind
<1> QED
  BY <1>1, <1>2, <1>3, <1>4, <1>5, <1>6

LEMMA TunnelNextInv == TunnelInv /\ [TunnelNext]_tunnelVars => TunnelInv'
<1> SUFFICES ASSUME TunnelInv, [TunnelNext]_tunnelVars PROVE TunnelInv'
  OBVIOUS
<1>1. CASE UNCHANGED tunnelVars
  BY <1>1 DEF tunnelVars, TunnelInv, AgentTunnelTypeOK, KnownInv, Known
<1>2. CASE TunnelNext
  BY <1>2, LoopKeepsTunnel, AccountKeepsTunnel DEF TunnelNext
<1> QED
  BY <1>1, <1>2

(* The agent's end of the tunnel keeps its types; in particular a loop     *)
(* that serves has a connection (tunnel.go:60-100).                        *)
THEOREM TunnelTyped == TunnelSpec => []AgentTunnelTypeOK
<1>1. TunnelInv => AgentTunnelTypeOK
  BY DEF TunnelInv
<1> QED
  BY <1>1, TunnelInitInv, TunnelNextInv, PTL DEF TunnelSpec

(* forgetAccount (login.go:199-208): the account a PC is taken off is one  *)
(* whose server has taken a binding away, whatever the order in which sign *)
(* ins, sign outs, removals and answers meet.                              *)
THEOREM ForgetsOnlyLost == TunnelSpec => ForgetsWhatWasLost
<1>1. TunnelInv /\ [TunnelNext]_tunnelVars
        => [account # NoServer /\ account' = NoServer => account \in unbound]_tunnelVars
  <2> SUFFICES ASSUME TunnelInv, TunnelNext, account # NoServer, account' = NoServer
               PROVE  account \in unbound
    BY DEF tunnelVars
  <2>1. CASE handshakeGone
    BY <2>1 DEF handshakeGone, forgetAccount, TunnelInv, KnownInv
  <2>2. CASE signOutForget
    BY <2>2 DEF signOutForget, forgetAccount, TunnelInv, KnownInv
  <2>3. CASE \/ notEnrolled \/ tunnelOnce \/ openTunnelCheck \/ openTunnelRegister
             \/ handshakeUp \/ handshakeFails \/ serveConn \/ runTunnel
             \/ \E how \in {"silent", "closed"} : pathDies(how)
    BY <2>3 DEF notEnrolled, tunnelOnce, openTunnelCheck, openTunnelRegister, handshakeUp,
       handshakeFails, serveConn, runTunnel, pathDies, accountVars
  <2>4. CASE signOut \/ \E s \in Servers : signInStart(s) \/ signInAccepted(s) \/ removeDevice(s)
    BY <2>4 DEF signOut, signInStart, signInAccepted, removeDevice
  <2>5. CASE \E s \in Servers : signInWritten(s)
    BY <2>5, TunnelAssumption DEF signInWritten
  <2> QED
    BY <2>1, <2>2, <2>3, <2>4, <2>5 DEF TunnelNext
<1> QED
  BY <1>1, TunnelInitInv, TunnelNextInv, PTL DEF TunnelSpec, ForgetsWhatWasLost

-----------------------------------------------------------------------------
(* LanAdvert *)

(* The loop has a snapshot of the shares when it compares. *)
LanInv == LanTypeOK /\ (poll = "want" => state \in AppLists)

LEMMA LanInitInv == LanInit => LanInv
BY DEF LanInit, LanInv, LanTypeOK

LEMMA LanNextInv == LanInv /\ [LanNext]_lanVars => LanInv'
<1> SUFFICES ASSUME LanInv, [LanNext]_lanVars PROVE LanInv'
  OBVIOUS
<1> USE LanAssumption DEF LanInv, LanTypeOK, loopVars
<1>1. CASE UNCHANGED lanVars
  BY <1>1 DEF lanVars
<1>2. CASE \E n \in Networks : networkChanges(n)
  BY <1>2 DEF networkChanges
<1>3. CASE \E a \in AppLists : sharesChange(a)
  BY <1>3 DEF sharesChange
<1>4. CASE getCert
  BY <1>4 DEF getCert
<1>5. CASE serveStarts
  BY <1>5 DEF serveStarts
<1>6. CASE look
  BY <1>6 DEF look
<1>7. CASE upToDate
  BY <1>7 DEF upToDate
<1>8. CASE advertise
  <2>1. Want \in Record /\ record' \in Record /\ advertised' = Want /\ record' # NoRecord
    BY <1>8 DEF advertise, Want, Record
  <2> QED
    BY <1>8, <2>1 DEF advertise
<1>9. CASE advertiseFails
  BY <1>9 DEF advertiseFails
<1>10. CASE sleepEnds
  BY <1>10 DEF sleepEnds
<1>11. CASE retryDue
  BY <1>11 DEF retryDue
<1> QED
  BY <1>1, <1>2, <1>3, <1>4, <1>5, <1>6, <1>7, <1>8, <1>9, <1>10, <1>11
     DEF LanNext, keepAdvertised

(* What keepAdvertised works with keeps its types: a record that was       *)
(* registered stays until another takes its place (mdns.go:276-328).       *)
THEOREM LanTyped == LanSpec => []LanTypeOK
<1>1. LanInv => LanTypeOK
  BY DEF LanInv
<1> QED
  BY <1>1, LanInitInv, LanNextInv, PTL DEF LanSpec

-----------------------------------------------------------------------------
(* The four side by side *)

(* A step of one loop leaves the others alone, so it is a step of each. *)
LEMMA AgentMove ==
  [AgentNext]_agentVars =>
    /\ [RegistryNext]_registryVars /\ [TunnelNext]_tunnelVars
    /\ [ReportsNext]_reportVars /\ [LanNext]_lanVars
<1> SUFFICES ASSUME [AgentNext]_agentVars
             PROVE  /\ [RegistryNext]_registryVars /\ [TunnelNext]_tunnelVars
                    /\ [ReportsNext]_reportVars /\ [LanNext]_lanVars
  OBVIOUS
<1>1. CASE UNCHANGED agentVars
  BY <1>1 DEF agentVars
<1>2. CASE AgentNext
  BY <1>2 DEF AgentNext, In, Others
<1> QED
  BY <1>1, <1>2

(* Every variable of the four keeps its type: what the agent shares, its   *)
(* tunnel, its reports and what it announces.                              *)
THEOREM AgentTyped == AgentSpec => []AgentTypeOK
<1>1. AgentInit => RegistryInit /\ TunnelInv /\ QueueInv /\ LanInv
  BY TunnelInitInv, QueueInitInv, LanInitInv DEF AgentInit
<1>2. AgentSpec => []RegistryTypeOK
  BY <1>1, AgentMove, RegistryTyped, PTL DEF AgentSpec, RegistrySpec
<1>3. TunnelInv /\ [AgentNext]_agentVars => TunnelInv'
  BY AgentMove, TunnelNextInv
<1>4. QueueInv /\ [AgentNext]_agentVars => QueueInv'
  BY AgentMove, QueueNextInv
<1>5. LanInv /\ [AgentNext]_agentVars => LanInv'
  BY AgentMove, LanNextInv
<1>6. RegistryTypeOK /\ TunnelInv /\ QueueInv /\ LanInv => AgentTypeOK
  BY DEF TunnelInv, QueueInv, LanInv, AgentTypeOK
<1> QED
  BY <1>1, <1>2, <1>3, <1>4, <1>5, <1>6, PTL DEF AgentSpec
=============================================================================
