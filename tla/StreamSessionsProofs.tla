------------------------ MODULE StreamSessionsProofs ------------------------
(***************************************************************************)
(* StreamSessions: the order of files by serial_seq, the sequence a        *)
(* backfill is, and type correctness, for every value of the constants.    *)
(***************************************************************************)
EXTENDS StreamSessions, FiniteSetTheorems, FunctionTheorems, SequenceTheorems,
        WellFoundedInduction, TLAPS

LEMMA ConstantFacts ==
  /\ MaxSeq \in Nat /\ MaxEpoch \in Nat /\ MaxOffset \in Nat
  /\ MaxSessions \in Nat /\ MaxSessions \in Sessions
  /\ NoOffset = -1 /\ NoSerial = -1 /\ NoSession = 0
BY SeqAssumption, EpochAssumption, StreamAssumption, SessionsAssumption
   DEF SeqAssumption, EpochAssumption, StreamAssumption, SessionsAssumption, Sessions,
       NoOffset, NoSerial, NoSession

-----------------------------------------------------------------------------
(***************************************************************************)
(* A non-empty bounded set of integers has a greatest element, and Max is  *)
(* it: the least difference to the bound exists because Nat is well-       *)
(* founded.                                                                *)
(***************************************************************************)
LEMMA MaxOfBounded ==
  ASSUME NEW a \in Int, NEW b \in Int, NEW S, S \subseteq a..b, S # {}
  PROVE  Max(S) \in S /\ \A x \in S : x <= Max(S)
<1> DEFINE T == {b - x : x \in S}
<1>1. T \subseteq Nat /\ T # {}
  <2>1. PICK x \in S : TRUE
    OBVIOUS
  <2>2. b - x \in T
    OBVIOUS
  <2>3. \A y \in S : b - y \in Nat
    OBVIOUS
  <2> QED BY <2>2, <2>3
<1> DEFINE R == OpToRel(<, Nat)
<1>2. IsWellFoundedOn(R, Nat)
  BY NatLessThanWellFounded
<1> HIDE DEF T
<1>3. PICK m \in T : \A y \in T : ~ (<<y, m>> \in R)
  <2> HIDE DEF R
  <2> QED BY <1>1, <1>2, WFMin
<1>4. \A y \in T : m <= y
  <2> SUFFICES ASSUME NEW y \in T PROVE m <= y
    OBVIOUS
  <2>1. y \in Nat /\ m \in Nat
    BY <1>1, <1>3
  <2>2. ~ (y < m)
    BY <1>3, <2>1 DEF OpToRel
  <2> QED BY <2>1, <2>2
<1>5. PICK g \in S : m = b - g
  BY <1>3 DEF T
<1>6. \A x \in S : g >= x
  <2> TAKE x \in S
  <2>1. b - x \in T
    BY DEF T
  <2> QED BY <1>4, <1>5, <2>1
<1>7. Max(S) \in S /\ \A y \in S : Max(S) >= y
  BY <1>6 DEF Max
<1> QED BY <1>7

LEMMA MaxUpTo ==
  ASSUME NEW b \in Int, NEW S \in SUBSET (-1..b), S # {}
  PROVE  Max(S) \in S /\ \A x \in S : x <= Max(S)
<1>1. S \subseteq -1..b /\ -1 \in Int
  OBVIOUS
<1> QED BY <1>1, MaxOfBounded

-----------------------------------------------------------------------------
(***************************************************************************)
(* encode_serial_seq orders files by epoch, then by number.                *)
(***************************************************************************)
Top == Encode(MaxEpoch, MaxSeq)

LEMMA EncodeOrder ==
  ASSUME NEW d \in Nat, NEW e \in Nat, d < e, NEW q \in 0..MaxSeq, NEW r \in Nat
  PROVE  Encode(d, q) < Encode(e, r)
<1>1. MaxSeq \in Nat
  BY ConstantFacts
<1>2. e * (MaxSeq + 1) = d * (MaxSeq + 1) + (e - d) * (MaxSeq + 1)
  BY <1>1
<1>3. (e - d) * (MaxSeq + 1) >= MaxSeq + 1
  <2>1. (e - d) * (MaxSeq + 1) = (MaxSeq + 1) + (e - d - 1) * (MaxSeq + 1)
    BY <1>1
  <2>2. (e - d - 1) * (MaxSeq + 1) \in Nat
    BY <1>1
  <2> QED BY <1>1, <2>1, <2>2
<1>4. d * (MaxSeq + 1) \in Nat /\ e * (MaxSeq + 1) \in Nat
  BY <1>1
<1> QED BY <1>1, <1>2, <1>3, <1>4 DEF Encode

LEMMA EncodeBase == \A e \in Nat : e * (MaxSeq + 1) \in Nat
BY ConstantFacts

LEMMA SerialBounds ==
  ASSUME NEW f \in File
  PROVE  Serial(f) \in 0..Top
<1>1. f.epoch \in 0..MaxEpoch /\ f.seq \in 0..MaxSeq /\ MaxSeq \in Nat /\ MaxEpoch \in Nat
  BY ConstantFacts DEF File
<1>2. f.epoch * (MaxSeq + 1) \in Nat /\ MaxEpoch * (MaxSeq + 1) \in Nat
  BY <1>1, EncodeBase
<1>3. CASE f.epoch = MaxEpoch
  BY <1>1, <1>2, <1>3 DEF Serial, Encode, Top
<1>4. CASE f.epoch < MaxEpoch
  <2>1. Encode(f.epoch, f.seq) < Encode(MaxEpoch, MaxSeq)
    BY <1>1, <1>4, EncodeOrder
  <2> QED BY <1>1, <1>2, <2>1 DEF Serial, Encode, Top
<1> QED BY <1>1, <1>3, <1>4

LEMMA TopType == Top \in Nat
BY ConstantFacts, EncodeBase DEF Top, Encode

LEMMA SerialOrder ==
  ASSUME NEW f \in File, NEW g \in File, Serial(f) <= Serial(g)
  PROVE  f.epoch <= g.epoch
<1>1. f.epoch \in Nat /\ g.epoch \in Nat /\ g.seq \in 0..MaxSeq /\ f.seq \in Nat
  BY ConstantFacts DEF File
<1>2. Serial(f) \in Int /\ Serial(g) \in Int
  BY SerialBounds
<1>3. g.epoch < f.epoch => Serial(g) < Serial(f)
  BY <1>1, EncodeOrder DEF Serial
<1> QED BY <1>1, <1>2, <1>3

-----------------------------------------------------------------------------
LEMMA FileFinite == IsFiniteSet(File)
<1> DEFINE Name == ((0..MaxEpoch) \X (0..MaxSeq)) \X (Offset \X Offset)
           name == [f \in File |-> <<<<f.epoch, f.seq>>, <<f.start, f.end>>>>]
<1>1. IsFiniteSet(0..MaxEpoch) /\ IsFiniteSet(0..MaxSeq) /\ IsFiniteSet(Offset)
  BY FS_Interval, ConstantFacts DEF Offset
<1>2. IsFiniteSet((0..MaxEpoch) \X (0..MaxSeq)) /\ IsFiniteSet(Offset \X Offset)
  BY <1>1, FS_Product
<1>3. IsFiniteSet(Name)
  BY <1>2, FS_Product
<1>4. name \in [File -> Name]
  BY DEF File
<1>5. \A f, g \in File : name[f] = name[g] => f = g
  BY DEF File
<1>6. name \in Injection(File, Name)
  BY <1>4, <1>5, Zenon DEF Injection, IsInjective
<1> QED BY <1>3, <1>6, FS_Injection

(***************************************************************************)
(* OldestFirst is what its name says.  Ties between equal serials are      *)
(* broken by an arbitrary count of the set; the place of a file is the     *)
(* number of files up to it, so places are distinct and fill 1..n.         *)
(***************************************************************************)
LEMMA SortedExists ==
  ASSUME NEW S, S \subseteq File
  PROVE  \E q \in SetToSeqs(S) : \A i, j \in DOMAIN q : i < j => Serial(q[i]) <= Serial(q[j])
<1>1. IsFiniteSet(S)
  BY FileFinite, FS_Subset
<1> DEFINE n == Cardinality(S)
<1>2. n \in Nat /\ IsFiniteSet(1..n) /\ Cardinality(1..n) = n
  BY <1>1, FS_CardinalityType, FS_Interval
<1>3. PICK e \in Bijection(1..n, S) : TRUE
  BY <1>1, FS_CardinalityType DEF ExistsBijection
<1>4. \A x \in S : \E k \in 1..n : e[k] = x
  BY <1>3 DEF Bijection, Surjection
<1> DEFINE count == [x \in S |-> CHOOSE k \in 1..n : e[k] = x]
<1>5. \A x \in S : count[x] \in 1..n /\ e[count[x]] = x
  BY <1>4
<1> DEFINE Upto(x) == {y \in S : Serial(y) < Serial(x)
                                   \/ (Serial(y) = Serial(x) /\ count[y] <= count[x])}
           place == [x \in S |-> Cardinality(Upto(x))]
<1>6. \A x \in S : Serial(x) \in Int /\ count[x] \in Int
  BY <1>5, SerialBounds
<1> HIDE DEF count
<1>7. \A x \in S : x \in Upto(x) /\ Upto(x) \subseteq S
  BY <1>6
<1>8. ASSUME NEW x \in S, NEW y \in S, x # y, x \in Upto(y)
      PROVE  Upto(x) \subseteq Upto(y) /\ y \notin Upto(x)
  <2>1. count[x] # count[y]
    BY <1>5, <1>8
  <2>2. Upto(x) \subseteq Upto(y)
    BY <1>6, <1>8
  <2>3. y \notin Upto(x)
    BY <1>6, <1>8, <2>1
  <2> QED BY <2>2, <2>3
<1>9. \A x, y \in S : x # y => x \in Upto(y) \/ y \in Upto(x)
  <2> TAKE x, y \in S
  <2>1. Serial(x) \in Int /\ Serial(y) \in Int /\ count[x] \in Int /\ count[y] \in Int
    BY <1>6
  <2>2. Serial(x) < Serial(y) \/ (Serial(x) = Serial(y) /\ count[x] <= count[y]) => x \in Upto(y)
    OBVIOUS
  <2>3. Serial(y) < Serial(x) \/ (Serial(x) = Serial(y) /\ count[y] <= count[x]) => y \in Upto(x)
    OBVIOUS
  <2> HIDE DEF Upto
  <2> QED BY <2>1, <2>2, <2>3
<1> HIDE DEF Upto
<1>10. \A x \in S : IsFiniteSet(Upto(x)) /\ Cardinality(Upto(x)) \in 1..n
  <2> TAKE x \in S
  <2>1. IsFiniteSet(Upto(x)) /\ Cardinality(Upto(x)) <= n
    BY <1>1, <1>7, FS_Subset
  <2>2. Cardinality(Upto(x)) \in Nat /\ Cardinality(Upto(x)) # 0
    BY <1>7, <2>1, FS_CardinalityType, FS_EmptySet
  <2> QED BY <1>2, <2>1, <2>2
<1>11. ASSUME NEW x \in S, NEW y \in S, x # y, x \in Upto(y)
       PROVE  place[x] < place[y]
  <2>1. Upto(x) \subseteq Upto(y) /\ Upto(x) # Upto(y)
    BY <1>7, <1>8, <1>11
  <2>2. Cardinality(Upto(x)) <= Cardinality(Upto(y)) /\ Cardinality(Upto(x)) # Cardinality(Upto(y))
    BY <1>10, <2>1, FS_Subset
  <2> QED BY <1>10, <2>2
<1>12. place \in [S -> 1..n] /\ \A x, y \in S : place[x] = place[y] => x = y
  BY <1>9, <1>10, <1>11
<1> HIDE DEF place
<1>13. place \in Injection(S, 1..n)
  BY <1>12, Zenon DEF Injection, IsInjective
<1>14. place \in Surjection(S, 1..n)
  BY <1>2, <1>13, FS_Injection
<1>15. \A i \in 1..n : \E x \in S : place[x] = i
  BY <1>14 DEF Surjection
<1> DEFINE q == [i \in 1..n |-> CHOOSE x \in S : place[x] = i]
<1>16. q \in [1..n -> S] /\ \A i \in 1..n : place[q[i]] = i
  BY <1>15
<1> HIDE DEF q, n
<1>17. q \in SetToSeqs(S)
  BY <1>16 DEF SetToSeqs, n
<1>18. ASSUME NEW i \in DOMAIN q, NEW j \in DOMAIN q, i < j
       PROVE  Serial(q[i]) <= Serial(q[j])
  <2>1. q[i] \in S /\ q[j] \in S /\ q[i] # q[j] /\ place[q[i]] = i /\ place[q[j]] = j
        /\ i \in Int /\ j \in Int
    BY <1>2, <1>16, <1>18 DEF n
  <2>2. q[j] \notin Upto(q[i])
    BY <1>11, <1>18, <2>1
  <2>3. q[i] \in Upto(q[j])
    BY <1>9, <2>1, <2>2
  <2> QED BY <1>6, <2>1, <2>3 DEF Upto
<1> QED BY <1>17, <1>18

LEMMA OldestFirstSorts ==
  ASSUME NEW S, S \subseteq File
  PROVE  LET q == OldestFirst(S)
         IN  /\ q \in Seq(S) /\ q \in Seq(File)
             /\ \A x \in S : \E i \in 1..Len(q) : q[i] = x
             /\ \A i, j \in 1..Len(q) : i < j => Serial(q[i]) <= Serial(q[j])
             /\ \A i, j \in 1..Len(q) : q[i] = q[j] => i = j
<1> DEFINE q == OldestFirst(S)
           n == Cardinality(S)
<1>1. q \in SetToSeqs(S) /\ \A i, j \in DOMAIN q : i < j => Serial(q[i]) <= Serial(q[j])
  BY SortedExists DEF OldestFirst
<1>2. IsFiniteSet(S) /\ n \in Nat
  BY FileFinite, FS_Subset, FS_CardinalityType
<1> HIDE DEF q
<1>3. q \in [1..n -> S] /\ \A i, j \in 1..n : i # j => q[i] # q[j]
  BY <1>1 DEF SetToSeqs
<1>4. q \in Seq(S) /\ Len(q) = n /\ DOMAIN q = 1..n
  BY <1>2, <1>3
<1>5. q \in Seq(File)
  BY <1>4, SeqMonotonic
<1>6. q \in Injection(1..n, S)
  BY <1>3, Zenon DEF Injection, IsInjective
<1>7. IsFiniteSet(1..n) /\ Cardinality(1..n) = n
  BY <1>2, FS_Interval
<1>8. q \in Surjection(1..n, S)
  BY <1>2, <1>6, <1>7, FS_Injection
<1>9. \A x \in S : \E i \in 1..n : q[i] = x
  BY <1>8 DEF Surjection
<1> QED BY <1>1, <1>3, <1>4, <1>5, <1>9 DEF q

-----------------------------------------------------------------------------
(***************************************************************************)
(* Type correctness.  StreamTypeOK is not inductive as it stands: Max is   *)
(* only defined on bounded sets, so the watermark an open reads needs a    *)
(* bound, a live session needs its process, and a put or a state.json      *)
(* write in flight is at most one.                                         *)
(***************************************************************************)
Shape(x) ==
  /\ x.pc \in Opening \cup {"run"} => x.proc \in Sessions
  /\ Len(x.put) <= 1 /\ Len(x.writing) <= 1 /\ Len(x.seen.state) <= 1
  /\ x.landed => x.put # <<>>
  /\ x.seen.mark \in NoSerial..Top

ShapeInv == \A s \in Sessions : Shape(session[s])

TypeInv == StreamTypeOK /\ ShapeInv

\* The part of TypeInv that is about the storage and the server.
StoreType ==
  /\ holder \in 0..MaxSessions
  /\ stored \subseteq File /\ state \in Seq(StateFile) /\ Len(state) <= 1
  /\ accepted \subseteq File /\ loaded \subseteq accepted

NotifierOK == notifier \in [Sessions -> NotifierType]

LEMMA TypeParts ==
  TypeInv <=> /\ session \in [Sessions -> Session] /\ ShapeInv
              /\ NotifierOK /\ StoreType
BY DEF TypeInv, StreamTypeOK, NotifierOK, StoreType

LEMMA NewSessionType ==
  /\ NewSession \in Session /\ Shape(NewSession)
  /\ Gone \in Session /\ Shape(Gone)
<1>1. NothingSeen \in Seen
  BY DEF NothingSeen, Seen, NoSerial
<1>2. NewSession \in Session
  BY <1>1, ConstantFacts DEF NewSession, Session, SessionPcs, NoSession, NoOffset
<1>3. Shape(NewSession) /\ Shape(Gone)
  BY TopType, ConstantFacts
     DEF Shape, Gone, NewSession, NothingSeen, Opening, NoSerial
<1>4. Gone \in Session
  BY <1>2 DEF Gone, Session, SessionPcs
<1> QED BY <1>2, <1>3, <1>4

\* One session changes.
LEMMA SessionUpdate ==
  ASSUME TypeInv, NEW s \in Sessions, NEW rec \in Session, Shape(rec),
         session' = [session EXCEPT ![s] = rec]
  PROVE  session' \in [Sessions -> Session] /\ ShapeInv'
<1>1. session \in [Sessions -> Session] /\ ShapeInv
  BY TypeParts
<1>2. \A r \in Sessions : session'[r] = IF r = s THEN rec ELSE session[r]
  BY <1>1
<1> QED BY <1>1, <1>2 DEF ShapeInv

LEMMA FieldTypes ==
  ASSUME TypeInv, NEW s \in Sessions
  PROVE  /\ session[s] \in Session /\ Shape(session[s])
         /\ session[s].seen \in Seen /\ session[s].pc \in SessionPcs
         /\ session[s].epoch \in 0..MaxEpoch /\ session[s].nextSeq \in 0..MaxSeq + 1
         /\ session[s].from \in 0..MaxOffset + 1
         /\ session[s].flight \in Seq(File) /\ session[s].put \in Seq(File)
         /\ session[s].staged \in Offset \cup {NoOffset}
         /\ session[s].persisted \in Offset \cup {NoOffset}
         /\ session[s].writing \in Seq(StateFile) /\ session[s].landed \in BOOLEAN
         /\ session[s].fenced \in BOOLEAN
         /\ session[s].seen.state \in Seq(StateFile) /\ session[s].seen.staged \subseteq File
         /\ session[s].seen.mark \in NoSerial..Top
<1>1. session[s] \in Session /\ Shape(session[s])
  BY DEF TypeInv, StreamTypeOK, ShapeInv
<1>2. session[s].seen \in Seen
  BY <1>1 DEF Session
<1> QED BY <1>1, <1>2 DEF Session, Seen, Shape

LEMMA NotifierTypes ==
  ASSUME NotifierOK, NEW p \in Sessions
  PROVE  /\ notifier[p] \in NotifierType /\ notifier[p].queue \in Seq(File)
         /\ notifier[p].confirmed[1] \in Int
         /\ notifier[p].confirmed[2] \in Offset \cup {NoOffset}
         /\ notifier[p].confirmed = <<notifier[p].confirmed[1], notifier[p].confirmed[2]>>
BY DEF NotifierOK, NotifierType

LEMMA EnqueuedType ==
  ASSUME NotifierOK, NEW p \in Sessions, NEW files \in Seq(File), notifier' = Enqueued(p, files)
  PROVE  NotifierOK'
<1>1. notifier[p].queue \o files \in Seq(File)
  BY NotifierTypes, ConcatProperties
<1> QED BY <1>1 DEF NotifierOK, NotifierType, Enqueued

(***************************************************************************)
(* What the operators return.                                              *)
(***************************************************************************)
LEMMA OffsetRange == Offset \cup {NoOffset} = -1..MaxOffset
BY ConstantFacts DEF Offset, NoOffset

LEMMA MaxOfTwo ==
  ASSUME NEW a \in Int, NEW b \in Int
  PROVE  Max({a, b}) \in {a, b} /\ a <= Max({a, b}) /\ b <= Max({a, b})
<1> DEFINE lo == IF a <= b THEN a ELSE b
           hi == IF a <= b THEN b ELSE a
<1>1. {a, b} \subseteq lo..hi /\ lo \in Int /\ hi \in Int /\ {a, b} # {}
  OBVIOUS
<1> HIDE DEF lo, hi
<1> QED BY <1>1, MaxOfBounded

LEMMA WatermarkMax ==
  ASSUME StoreType
  PROVE  /\ Watermark \in NoSerial..Top
         /\ loaded = {} => Watermark = NoSerial
         /\ loaded # {} => /\ \E f \in loaded : Watermark = Serial(f)
                           /\ \A f \in loaded : Serial(f) <= Watermark
<1> DEFINE S == {Serial(f) : f \in loaded}
<1>1. S \subseteq 0..Top /\ Top \in Nat
  BY SerialBounds, TopType DEF StoreType
<1>2. CASE loaded = {}
  BY <1>1, <1>2 DEF Watermark, NoSerial
<1>3. CASE loaded # {}
  <2>1. S # {}
    BY <1>3
  <2>2. Max(S) \in S /\ \A x \in S : x <= Max(S)
    <3> HIDE DEF S
    <3>1. S \in SUBSET (-1..Top) /\ Top \in Int
      BY <1>1
    <3> QED BY <2>1, <3>1, MaxUpTo
  <2>3. Watermark = Max(S)
    BY <1>3 DEF Watermark
  <2> QED BY <1>1, <1>3, <2>2, <2>3 DEF NoSerial
<1> QED BY <1>2, <1>3

LEMMA EpochOfType == \A m \in 0..Top : EpochOf(m) \in 0..Top
<1> TAKE m \in 0..Top
<1>1. MaxSeq + 1 \in Nat /\ MaxSeq + 1 > 0 /\ Top \in Nat
  BY ConstantFacts, TopType
<1> DEFINE k == MaxSeq + 1
<1> HIDE DEF k
<1>2. k \in Nat /\ k > 0
  BY <1>1 DEF k
<1>3. m \div k \in Int /\ 0 <= m \div k /\ m \div k <= m
  BY <1>1, <1>2
<1> QED BY <1>1, <1>3 DEF EpochOf, k

\* What a recovery plans from a well-typed reading.
LEMMA PlanTypes ==
  ASSUME NEW seen \in Seen, Len(seen.state) <= 1, seen.mark \in NoSerial..Top
  PROVE  /\ PlanResume(seen) \in 0..MaxOffset + 1
         /\ \A f \in seen.staged : f.end < PlanResume(seen)
         /\ seen.state # <<>> => seen.state[1].resume_offset < PlanResume(seen)
         /\ PlanResume(seen) = 0 \/ (\E f \in seen.staged : PlanResume(seen) = f.end + 1)
              \/ (seen.state # <<>> /\ PlanResume(seen) = seen.state[1].resume_offset + 1)
<1> DEFINE ends == {f.end : f \in seen.staged}
           listed == IF seen.staged = {} THEN NoOffset ELSE Max(ends)
           recorded == IF seen.state = <<>> THEN NoOffset ELSE seen.state[1].resume_offset
<1>1. seen.staged \subseteq File /\ seen.state \in Seq(StateFile)
  BY DEF Seen
<1>2. ends \subseteq 0..MaxOffset /\ MaxOffset \in Nat
  BY <1>1, ConstantFacts DEF File, Offset
<1>3. listed \in -1..MaxOffset /\ (\A f \in seen.staged : f.end <= listed)
      /\ (listed = -1 \/ \E f \in seen.staged : listed = f.end)
  <2>1. CASE seen.staged = {}
    BY <1>2, <2>1 DEF NoOffset
  <2>2. CASE seen.staged # {}
    <3>1. ends # {}
      BY <2>2
    <3>2. Max(ends) \in ends /\ \A x \in ends : x <= Max(ends)
      <4> HIDE DEF ends
      <4>1. ends \in SUBSET (-1..MaxOffset) /\ MaxOffset \in Int
        BY <1>2
      <4> QED BY <3>1, <4>1, MaxUpTo
    <3>3. listed = Max(ends)
      BY <2>2
    <3>4. \A f \in seen.staged : f.end \in ends
      OBVIOUS
    <3>5. \A x \in ends : \E f \in seen.staged : x = f.end
      OBVIOUS
    <3> HIDE DEF ends, listed
    <3>6. listed \in 0..MaxOffset
      BY <1>2, <3>2, <3>3
    <3>7. \A f \in seen.staged : f.end <= listed
      BY <3>2, <3>3, <3>4
    <3>8. \E f \in seen.staged : listed = f.end
      BY <3>2, <3>3, <3>5
    <3> QED BY <1>2, <3>6, <3>7, <3>8
  <2> QED BY <2>1, <2>2
<1>4. recorded \in -1..MaxOffset /\ (recorded = -1 \/ seen.state # <<>>)
  <2>1. CASE seen.state = <<>>
    BY <1>2, <2>1 DEF NoOffset
  <2>2. CASE seen.state # <<>>
    <3>1. seen.state[1] \in StateFile
      BY <1>1, <2>2, EmptySeq, ElementOfSeq, LenProperties
    <3> QED BY <2>2, <3>1, OffsetRange DEF StateFile
  <2> QED BY <2>1, <2>2
<1> DEFINE m == Max({listed, recorded})
<1>5. PlanResume(seen) = m + 1
  BY DEF PlanResume
<1> HIDE DEF listed
<1>6. m \in {listed, recorded} /\ listed <= m /\ recorded <= m
  <2> HIDE DEF recorded
  <2>1. listed \in Int /\ recorded \in Int
    BY <1>2, <1>3, <1>4
  <2> QED BY <2>1, MaxOfTwo
<1>7. seen.state # <<>> => recorded = seen.state[1].resume_offset
  OBVIOUS
<1> HIDE DEF recorded, m
<1>8. PlanResume(seen) \in 0..MaxOffset + 1
  BY <1>2, <1>3, <1>4, <1>5, <1>6
<1>9. \A f \in seen.staged : f.end < PlanResume(seen)
  <2>1. \A f \in seen.staged : f.end \in 0..MaxOffset
    BY <1>2
  <2> QED BY <1>2, <1>3, <1>5, <1>6, <1>4, <2>1
<1>10. seen.state # <<>> => seen.state[1].resume_offset < PlanResume(seen)
  BY <1>2, <1>3, <1>4, <1>5, <1>6, <1>7
<1>11. m = -1 \/ (\E f \in seen.staged : m = f.end)
         \/ (seen.state # <<>> /\ m = recorded)
  BY <1>3, <1>4, <1>6
<1>12. m = -1 => PlanResume(seen) = 0
  BY <1>5
<1> QED BY <1>5, <1>7, <1>8, <1>9, <1>10, <1>11, <1>12

LEMMA PlanBackfillType ==
  ASSUME NEW seen \in Seen
  PROVE  PlanBackfill(seen) \in Seq(File)
<1>1. {f \in seen.staged : Serial(f) > seen.mark} \subseteq File
  BY DEF Seen
<1> QED BY <1>1, OldestFirstSorts DEF PlanBackfill

\* The epoch of a new session is above every one it knows of.
LEMMA NextEpochAbove ==
  ASSUME NEW seen \in Seen, Len(seen.state) <= 1, seen.mark \in NoSerial..Top, NEW now \in Nat
  PROVE  LET e == next_epoch(now, Anchors(seen))
         IN  e \in Nat /\ \A f \in seen.staged : f.epoch < e
<1> DEFINE anchors == Anchors(seen)
           bound == Top + MaxEpoch
<1>1. Top \in Nat /\ MaxEpoch \in Nat /\ bound \in Nat
  BY ConstantFacts, TopType
<1>2. seen.staged \subseteq File /\ seen.state \in Seq(StateFile)
  BY DEF Seen
<1>3. {f.epoch : f \in seen.staged} \subseteq 0..bound
  BY <1>1, <1>2 DEF File
<1>4. seen.mark # NoSerial => EpochOf(seen.mark) \in 0..bound
  <2> SUFFICES ASSUME seen.mark # NoSerial PROVE EpochOf(seen.mark) \in 0..bound
    OBVIOUS
  <2>1. seen.mark \in 0..Top
    BY <1>1 DEF NoSerial
  <2>2. EpochOf(seen.mark) \in 0..Top
    BY <2>1, EpochOfType
  <2> QED BY <1>1, <2>2
<1>5. {seen.state[i].max_epoch_used : i \in DOMAIN seen.state} \subseteq 0..bound
  <2>1. \A i \in DOMAIN seen.state : seen.state[i] \in StateFile
    BY <1>2
  <2> QED BY <1>1, <2>1 DEF StateFile
<1>6. anchors \subseteq 0..bound
  BY <1>3, <1>4, <1>5 DEF Anchors
<1>7. \A f \in seen.staged : f.epoch \in anchors
  BY DEF Anchors
<1> HIDE DEF anchors, bound
<1>8. anchors # {} => Max(anchors) \in anchors /\ \A x \in anchors : x <= Max(anchors)
  <2>1. anchors \in SUBSET (-1..bound) /\ bound \in Int
    BY <1>1, <1>6
  <2> QED BY <2>1, MaxUpTo
<1>9. CASE anchors # {} /\ now <= Max(anchors)
  <2>1. next_epoch(now, anchors) = Max(anchors) + 1
    BY <1>9 DEF next_epoch
  <2>2. \A x \in anchors : x \in Nat
    BY <1>1, <1>6
  <2> QED BY <1>1, <1>6, <1>7, <1>8, <1>9, <2>1, <2>2 DEF anchors
<1>10. CASE ~ (anchors # {} /\ now <= Max(anchors))
  <2>1. next_epoch(now, anchors) = now
    BY <1>10 DEF next_epoch
  <2>2. \A x \in anchors : x \in Nat
    BY <1>1, <1>6
  <2>3. \A x \in anchors : x < now
    BY <1>8, <1>10, <2>2
  <2> QED BY <1>7, <2>1, <2>3 DEF anchors
<1> QED BY <1>9, <1>10

-----------------------------------------------------------------------------
(***************************************************************************)
(* What each step makes of the session's record is a session again.        *)
(***************************************************************************)
LEMMA OpeningRecords ==
  ASSUME NEW x \in Session, Shape(x)
  PROVE  /\ \A p \in Sessions :
              LET r == [x EXCEPT !.pc = "locked", !.proc = p] IN r \in Session /\ Shape(r)
         /\ \A q \in Seq(StateFile) : x.pc = "locked" /\ Len(q) <= 1 =>
              LET r == [x EXCEPT !.pc = "state", !.seen.state = q] IN r \in Session /\ Shape(r)
         /\ \A m \in NoSerial..Top : x.pc = "state" =>
              LET r == [x EXCEPT !.pc = "mark", !.seen.mark = m] IN r \in Session /\ Shape(r)
         /\ \A S \in SUBSET File : x.pc = "mark" =>
              LET r == [x EXCEPT !.pc = "listed", !.seen.staged = S] IN r \in Session /\ Shape(r)
<1>1. ASSUME NEW p \in Sessions
      PROVE  LET r == [x EXCEPT !.pc = "locked", !.proc = p] IN r \in Session /\ Shape(r)
  <2>1. p \in 0..MaxSessions
    BY DEF Sessions
  <2>2. [x EXCEPT !.pc = "locked", !.proc = p] \in Session
    BY <2>1 DEF Session, SessionPcs, Opening
  <2> QED BY <2>2 DEF Session, Shape
<1>2. ASSUME NEW q \in Seq(StateFile), x.pc = "locked", Len(q) <= 1
      PROVE  LET r == [x EXCEPT !.pc = "state", !.seen.state = q] IN r \in Session /\ Shape(r)
  <2>1. [x.seen EXCEPT !.state = q] \in Seen
    BY DEF Session, Seen
  <2>2. [x EXCEPT !.pc = "state", !.seen.state = q] \in Session
    BY <2>1 DEF Session, SessionPcs, Opening
  <2> QED BY <1>2, <2>2 DEF Session, Seen, Shape, Opening
<1>3. ASSUME NEW m \in NoSerial..Top, x.pc = "state"
      PROVE  LET r == [x EXCEPT !.pc = "mark", !.seen.mark = m] IN r \in Session /\ Shape(r)
  <2>0. m \in Int
    BY TopType DEF NoSerial
  <2>1. [x.seen EXCEPT !.mark = m] \in Seen
    BY <2>0 DEF Session, Seen
  <2>2. [x EXCEPT !.pc = "mark", !.seen.mark = m] \in Session
    BY <2>1 DEF Session, SessionPcs, Opening
  <2> QED BY <1>3, <2>2 DEF Session, Seen, Shape, Opening
<1>4. ASSUME NEW S \in SUBSET File, x.pc = "mark"
      PROVE  LET r == [x EXCEPT !.pc = "listed", !.seen.staged = S] IN r \in Session /\ Shape(r)
  <2>1. [x.seen EXCEPT !.staged = S] \in Seen
    BY DEF Session, Seen
  <2>2. [x EXCEPT !.pc = "listed", !.seen.staged = S] \in Session
    BY <2>1 DEF Session, SessionPcs, Opening
  <2> QED BY <1>4, <2>2 DEF Session, Seen, Shape, Opening
<1> QED BY <1>1, <1>2, <1>3, <1>4

LEMMA PlanRecords ==
  ASSUME NEW x \in Session, Shape(x)
  PROVE  /\ \A e \in 0..MaxEpoch, o \in Offset \cup {NoOffset} : x.pc = "listed" =>
              LET r == [x EXCEPT !.pc = "written", !.epoch = e, !.persisted = o]
              IN  r \in Session /\ Shape(r)
         /\ \A o \in 0..MaxOffset + 1 : x.pc = "written" =>
              LET r == [x EXCEPT !.pc = "run", !.seen = NothingSeen, !.from = o, !.staged = o - 1]
              IN  r \in Session /\ Shape(r)
<1>1. ASSUME NEW e \in 0..MaxEpoch, NEW o \in Offset \cup {NoOffset}, x.pc = "listed"
      PROVE  LET r == [x EXCEPT !.pc = "written", !.epoch = e, !.persisted = o]
             IN  r \in Session /\ Shape(r)
  <2>1. [x EXCEPT !.pc = "written", !.epoch = e, !.persisted = o] \in Session
    BY DEF Session, SessionPcs, Opening
  <2> QED BY <1>1, <2>1 DEF Session, Shape, Opening
<1>2. ASSUME NEW o \in 0..MaxOffset + 1, x.pc = "written"
      PROVE  LET r == [x EXCEPT !.pc = "run", !.seen = NothingSeen, !.from = o, !.staged = o - 1]
             IN  r \in Session /\ Shape(r)
  <2>1. o - 1 \in Offset \cup {NoOffset}
    BY OffsetRange, ConstantFacts
  <2>2. NothingSeen \in Seen /\ NothingSeen.state = <<>> /\ NothingSeen.mark \in NoSerial..Top
    BY TopType DEF NothingSeen, Seen, NoSerial
  <2>3. [x EXCEPT !.pc = "run", !.seen = NothingSeen, !.from = o, !.staged = o - 1] \in Session
    BY <2>1, <2>2 DEF Session, SessionPcs
  <2> QED BY <1>2, <2>2, <2>3 DEF Session, Shape, Opening
<1> QED BY <1>1, <1>2

LEMMA HeadOf ==
  ASSUME NEW S, NEW q \in Seq(S), q # <<>>
  PROVE  q[1] \in S /\ Head(q) = q[1] /\ Tail(q) \in Seq(S) /\ <<Head(q)>> \in Seq(S)
BY EmptySeq, ElementOfSeq, LenProperties, HeadTailProperties

LEMMA EmptyFiles == <<>> \in Seq(File) /\ <<>> \in Seq(StateFile) /\ Len(<<>>) = 0
BY EmptySeq

LEMMA RunningRecords ==
  ASSUME NEW x \in Session, Shape(x), x.pc = "run"
  PROVE  /\ \A e \in 0..MaxEpoch, q \in 0..MaxSeq, o \in Offset, f \in File :
              LET r == [x EXCEPT !.epoch = e, !.nextSeq = q + 1, !.from = o + 1,
                                 !.flight = Append(@, f)]
              IN  r \in Session /\ Shape(r)
         /\ x.put = <<>> /\ x.flight # <<>> =>
              LET r == [x EXCEPT !.put = <<Head(x.flight)>>, !.flight = Tail(@)]
              IN  r \in Session /\ Shape(r)
         /\ \A o \in Offset \cup {NoOffset} :
              LET r == [x EXCEPT !.put = <<>>, !.landed = FALSE, !.staged = o]
              IN  r \in Session /\ Shape(r)
         /\ LET r == [x EXCEPT !.put = <<>>, !.landed = FALSE, !.flight = <<>>]
            IN  r \in Session /\ Shape(r)
         /\ LET r == [x EXCEPT !.fenced = TRUE] IN r \in Session /\ Shape(r)
         /\ \A w \in StateFile : LET r == [x EXCEPT !.writing = <<w>>] IN r \in Session /\ Shape(r)
<1>1. ASSUME NEW e \in 0..MaxEpoch, NEW q \in 0..MaxSeq, NEW o \in Offset, NEW f \in File
      PROVE  LET r == [x EXCEPT !.epoch = e, !.nextSeq = q + 1, !.from = o + 1,
                                !.flight = Append(@, f)]
             IN  r \in Session /\ Shape(r)
  <2>1. q + 1 \in 0..MaxSeq + 1 /\ o + 1 \in 0..MaxOffset + 1
    BY ConstantFacts DEF Offset
  <2>2. Append(x.flight, f) \in Seq(File)
    BY AppendProperties DEF Session
  <2>3. [x EXCEPT !.epoch = e, !.nextSeq = q + 1, !.from = o + 1, !.flight = Append(@, f)] \in Session
    BY <2>1, <2>2 DEF Session
  <2> QED BY <2>3 DEF Session, Shape
<1>2. ASSUME x.put = <<>>, x.flight # <<>>
      PROVE  LET r == [x EXCEPT !.put = <<Head(x.flight)>>, !.flight = Tail(@)]
             IN  r \in Session /\ Shape(r)
  <2>1. x.flight \in Seq(File)
    BY DEF Session
  <2>2. Tail(x.flight) \in Seq(File) /\ <<Head(x.flight)>> \in Seq(File)
    BY <1>2, <2>1, HeadOf
  <2>3. [x EXCEPT !.put = <<Head(x.flight)>>, !.flight = Tail(@)] \in Session
    BY <2>2 DEF Session
  <2> QED BY <1>2, <2>3 DEF Session, Shape
<1>3. ASSUME NEW o \in Offset \cup {NoOffset}
      PROVE  LET r == [x EXCEPT !.put = <<>>, !.landed = FALSE, !.staged = o]
             IN  r \in Session /\ Shape(r)
  <2>1. [x EXCEPT !.put = <<>>, !.landed = FALSE, !.staged = o] \in Session
    BY EmptyFiles DEF Session
  <2> QED BY <2>1 DEF Session, Shape
<1>4. LET r == [x EXCEPT !.put = <<>>, !.landed = FALSE, !.flight = <<>>]
      IN  r \in Session /\ Shape(r)
  <2>1. [x EXCEPT !.put = <<>>, !.landed = FALSE, !.flight = <<>>] \in Session
    BY EmptyFiles DEF Session
  <2> QED BY <2>1 DEF Session, Shape
<1>5. LET r == [x EXCEPT !.fenced = TRUE] IN r \in Session /\ Shape(r)
  BY DEF Session, Shape
<1>6. ASSUME NEW w \in StateFile
      PROVE  LET r == [x EXCEPT !.writing = <<w>>] IN r \in Session /\ Shape(r)
  <2>0. <<w>> \in Seq(StateFile) /\ Len(<<w>>) = 1
    OBVIOUS
  <2>1. [x EXCEPT !.writing = <<w>>] \in Session
    BY <2>0 DEF Session
  <2> QED BY <2>0, <2>1 DEF Session, Shape
<1> QED BY <1>1, <1>2, <1>3, <1>4, <1>5, <1>6

\* Steps of a session whatever its pc is.
LEMMA TravellingRecords ==
  ASSUME NEW x \in Session, Shape(x)
  PROVE  /\ x.put # <<>> => LET r == [x EXCEPT !.landed = TRUE] IN r \in Session /\ Shape(r)
         /\ \A o \in Offset \cup {NoOffset} :
              LET r == [x EXCEPT !.writing = <<>>, !.persisted = o] IN r \in Session /\ Shape(r)
         /\ LET r == [x EXCEPT !.writing = <<>>] IN r \in Session /\ Shape(r)
         /\ LET r == [Gone EXCEPT !.proc = x.proc, !.writing = x.writing]
            IN  r \in Session /\ Shape(r)
<1>1. x.put # <<>> => LET r == [x EXCEPT !.landed = TRUE] IN r \in Session /\ Shape(r)
  BY DEF Session, Shape
<1>2. ASSUME NEW o \in Offset \cup {NoOffset}
      PROVE  LET r == [x EXCEPT !.writing = <<>>, !.persisted = o] IN r \in Session /\ Shape(r)
  <2>1. [x EXCEPT !.writing = <<>>, !.persisted = o] \in Session
    BY EmptyFiles DEF Session
  <2> QED BY <2>1 DEF Session, Shape
<1>3. LET r == [x EXCEPT !.writing = <<>>] IN r \in Session /\ Shape(r)
  <2>1. [x EXCEPT !.writing = <<>>] \in Session
    BY EmptyFiles DEF Session
  <2> QED BY <2>1 DEF Session, Shape
<1>4. LET r == [Gone EXCEPT !.proc = x.proc, !.writing = x.writing] IN r \in Session /\ Shape(r)
  <2>0. Gone \in Session /\ Shape(Gone) /\ Gone.pc = "gone"
    BY NewSessionType DEF Gone, NewSession
  <2> DEFINE g == Gone
  <2> HIDE DEF g
  <2>1. [g EXCEPT !.proc = x.proc, !.writing = x.writing] \in Session
    BY <2>0 DEF Session, g
  <2>2. Shape([g EXCEPT !.proc = x.proc, !.writing = x.writing])
    BY <2>0, <2>1 DEF Session, Shape, Opening, g
  <2> QED BY <2>1, <2>2 DEF g
<1> QED BY <1>1, <1>2, <1>3, <1>4

\* The parts put together again after a step of session s.
LEMMA TypeAssembled ==
  ASSUME TypeInv, NEW s \in Sessions, NEW rec \in Session, Shape(rec),
         session' = [session EXCEPT ![s] = rec], NotifierOK', StoreType'
  PROVE  TypeInv'
<1>1. session' \in [Sessions -> Session] /\ ShapeInv'
  BY SessionUpdate
<1> QED BY <1>1 DEF TypeInv, StreamTypeOK, NotifierOK, StoreType

LEMMA RestUnchanged ==
  /\ NotifierOK /\ notifier' = notifier => NotifierOK'
  /\ StoreType /\ UNCHANGED <<holder, storage, server>> => StoreType'
BY DEF NotifierOK, StoreType, storage, server

(***************************************************************************)
(* Every step keeps TypeInv: open_table, then the running session, then    *)
(* its ends, then the notifier and the server.                             *)
(***************************************************************************)
LEMMA OpeningKeepsType ==
  ASSUME TypeInv, NEW s \in Sessions
  PROVE  /\ \A p \in Sessions : Open(s, p) => TypeInv'
         /\ ReadState(s) => TypeInv'
         /\ \A known \in BOOLEAN : ReadWatermark(s, known) => TypeInv'
         /\ List(s) => TypeInv'
         /\ OpenFails(s) => TypeInv'
<1>0. session \in [Sessions -> Session] /\ NotifierOK /\ StoreType
      /\ session[s] \in Session /\ Shape(session[s])
  BY TypeParts, FieldTypes
<1>1. ASSUME NEW p \in Sessions, Open(s, p) PROVE TypeInv'
  <2> DEFINE rec == [session[s] EXCEPT !.pc = "locked", !.proc = p]
  <2>1. rec \in Session /\ Shape(rec)
    BY <1>0, OpeningRecords
  <2>2. session' = [session EXCEPT ![s] = rec]
    BY <1>0, <1>1 DEF Open
  <2>3. NotifierOK'
    BY <1>0, <1>1 DEF Open, NotifierOK, NotifierType
  <2>4. holder' \in 0..MaxSessions /\ UNCHANGED <<storage, server>>
    BY <1>1, ConstantFacts DEF Open, Sessions
  <2>5. StoreType'
    BY <1>0, <2>4 DEF StoreType, storage, server
  <2> HIDE DEF rec
  <2> QED BY <2>1, <2>2, <2>3, <2>5, TypeAssembled
<1>2. ASSUME ReadState(s) PROVE TypeInv'
  <2> DEFINE rec == [session[s] EXCEPT !.pc = "state", !.seen.state = state]
  <2>1. rec \in Session /\ Shape(rec)
    BY <1>0, <1>2, OpeningRecords DEF ReadState, StoreType
  <2>2. session' = [session EXCEPT ![s] = rec]
    BY <1>0, <1>2 DEF ReadState
  <2>3. NotifierOK' /\ StoreType'
    BY <1>0, <1>2, RestUnchanged DEF ReadState
  <2> HIDE DEF rec
  <2> QED BY <2>1, <2>2, <2>3, TypeAssembled
<1>3. ASSUME NEW known \in BOOLEAN, ReadWatermark(s, known) PROVE TypeInv'
  <2> DEFINE mark == IF known THEN Watermark ELSE NoSerial
             rec == [session[s] EXCEPT !.pc = "mark", !.seen.mark = mark]
  <2>1. mark \in NoSerial..Top
    BY <1>0, WatermarkMax, TopType DEF NoSerial
  <2>2. session' = [session EXCEPT ![s] = rec]
    BY <1>0, <1>3 DEF ReadWatermark
  <2> HIDE DEF mark
  <2>3. rec \in Session /\ Shape(rec)
    BY <1>0, <1>3, <2>1, OpeningRecords DEF ReadWatermark
  <2>4. NotifierOK' /\ StoreType'
    BY <1>0, <1>3, RestUnchanged DEF ReadWatermark
  <2> HIDE DEF rec
  <2> QED BY <2>2, <2>3, <2>4, TypeAssembled
<1>4. ASSUME List(s) PROVE TypeInv'
  <2> DEFINE rec == [session[s] EXCEPT !.pc = "listed", !.seen.staged = stored]
  <2>1. rec \in Session /\ Shape(rec)
    BY <1>0, <1>4, OpeningRecords DEF List, StoreType
  <2>2. session' = [session EXCEPT ![s] = rec]
    BY <1>0, <1>4 DEF List
  <2>3. NotifierOK' /\ StoreType'
    BY <1>0, <1>4, RestUnchanged DEF List
  <2> HIDE DEF rec
  <2> QED BY <2>1, <2>2, <2>3, TypeAssembled
<1>5. ASSUME OpenFails(s) PROVE TypeInv'
  <2>1. session' = [session EXCEPT ![s] = Gone] /\ NotifierOK'
    BY <1>0, <1>5, RestUnchanged DEF OpenFails
  <2>2. StoreType'
    BY <1>0, <1>5, ConstantFacts DEF OpenFails, StoreType, storage, server, Released
  <2> QED BY <2>1, <2>2, NewSessionType, TypeAssembled
<1> QED BY <1>1, <1>2, <1>3, <1>4, <1>5

LEMMA RecordRead ==
  ASSUME NEW q \in Seq(StateFile)
  PROVE  (IF q = <<>> THEN NoOffset ELSE q[1].resume_offset) \in Offset \cup {NoOffset}
<1>1. q # <<>> => q[1] \in StateFile
  BY EmptySeq, ElementOfSeq, LenProperties
<1> QED BY <1>1 DEF StateFile

LEMMA PlanKeepsType ==
  ASSUME TypeInv, NEW s \in Sessions
  PROVE  /\ \A now \in Clock : WriteState(s, now) => TypeInv'
         /\ Start(s) => TypeInv'
<1>0. session \in [Sessions -> Session] /\ NotifierOK /\ StoreType
      /\ session[s] \in Session /\ Shape(session[s])
  BY TypeParts, FieldTypes
<1> DEFINE seen == session[s].seen
<1>1. seen \in Seen /\ Len(seen.state) <= 1 /\ seen.mark \in NoSerial..Top
      /\ seen.state \in Seq(StateFile)
  BY FieldTypes DEF Shape
<1>2. ASSUME NEW now \in Clock, WriteState(s, now) PROVE TypeInv'
  <2> DEFINE e == next_epoch(now, Anchors(seen))
             resume == IF seen.state = <<>> THEN NoOffset ELSE seen.state[1].resume_offset
             rec == [session[s] EXCEPT !.pc = "written", !.epoch = e, !.persisted = resume]
             written == [resume_offset |-> resume, max_epoch_used |-> e]
  <2>1. e \in Nat
    <3>1. now \in Nat
      BY ClockAssumption DEF ClockAssumption
    <3> HIDE DEF seen
    <3> QED BY <1>1, <3>1, NextEpochAbove
  <2>2. e <= MaxEpoch /\ session[s].pc = "listed"
    BY <1>2 DEF WriteState, Encodable
  <2>3. e \in 0..MaxEpoch
    <3> HIDE DEF e
    <3> QED BY <2>1, <2>2, ConstantFacts
  <2>4. resume \in Offset \cup {NoOffset}
    BY <1>1, RecordRead
  <2>5. session' = [session EXCEPT ![s] = rec] /\ state' = <<written>>
    BY <1>0, <1>2 DEF WriteState
  <2>6. notifier' = notifier /\ stored' = stored /\ UNCHANGED <<server, holder>>
    BY <1>2 DEF WriteState
  <2> HIDE DEF e, resume, seen
  <2>7. rec \in Session /\ Shape(rec)
    BY <1>0, <2>2, <2>3, <2>4, PlanRecords
  <2>8. written \in StateFile
    BY <2>3, <2>4 DEF StateFile
  <2> HIDE DEF rec, written
  <2>9. StoreType'
    BY <1>0, <2>5, <2>6, <2>8 DEF StoreType, server
  <2> QED BY <1>0, <2>5, <2>6, <2>7, <2>9, RestUnchanged, TypeAssembled
<1>3. ASSUME Start(s) PROVE TypeInv'
  <2> DEFINE resume == PlanResume(seen)
             rec == [session[s] EXCEPT !.pc = "run", !.seen = NothingSeen,
                                       !.from = resume, !.staged = resume - 1]
  <2>1. resume \in 0..MaxOffset + 1
    <3> HIDE DEF seen
    <3> QED BY <1>1, PlanTypes
  <2>2. session' = [session EXCEPT ![s] = rec]
    BY <1>0, <1>3 DEF Start
  <2>3. session[s].pc = "written" /\ session[s].proc \in Sessions
    BY <1>0, <1>3 DEF Start, Shape, Opening
  <2>4. NotifierOK'
    <3>1. notifier' = Enqueued(session[s].proc, PlanBackfill(seen))
      BY <1>3 DEF Start
    <3> HIDE DEF seen
    <3> QED BY <1>0, <1>1, <2>3, <3>1, PlanBackfillType, EnqueuedType
  <2>5. StoreType'
    BY <1>0, <1>3, RestUnchanged DEF Start
  <2> HIDE DEF resume, seen
  <2>6. rec \in Session /\ Shape(rec)
    BY <1>0, <2>1, <2>3, PlanRecords
  <2> HIDE DEF rec
  <2> QED BY <2>2, <2>4, <2>5, <2>6, TypeAssembled
<1> QED BY <1>2, <1>3

LEMMA FileStepsKeepType ==
  ASSUME TypeInv, NEW s \in Sessions
  PROVE  /\ \A e \in Offset : Seal(s, e) => TypeInv'
         /\ StartPut(s) => TypeInv'
         /\ Land(s) => TypeInv'
         /\ Record(s) => TypeInv'
         /\ Abandon(s) => TypeInv'
         /\ Fence(s) => TypeInv'
         /\ Collect(s) => TypeInv'
<1>0. session \in [Sessions -> Session] /\ NotifierOK /\ StoreType
      /\ session[s] \in Session /\ Shape(session[s])
  BY TypeParts, FieldTypes
<1>1. ASSUME NEW e \in Offset, Seal(s, e) PROVE TypeInv'
  <2> DEFINE slot == Rolled(session[s].epoch, session[s].nextSeq)
             f == [epoch |-> slot[1], seq |-> slot[2], start |-> session[s].from, end |-> e]
             rec == [session[s] EXCEPT !.epoch = slot[1], !.nextSeq = slot[2] + 1,
                                       !.from = e + 1, !.flight = Append(@, f)]
  <2>1. slot[1] \in Nat /\ slot[2] \in Nat
    BY <1>0, FieldTypes, ConstantFacts DEF Rolled
  <2>2. slot[1] <= MaxEpoch /\ slot[2] <= MaxSeq /\ session[s].from <= e
        /\ session[s].from \in Nat /\ Running(s)
    BY <1>1, FieldTypes DEF Seal, Encodable
  <2>3. session' = [session EXCEPT ![s] = rec]
    BY <1>0, <1>1 DEF Seal
  <2>4. notifier' = notifier /\ UNCHANGED <<holder, storage, server>>
    BY <1>1 DEF Seal
  <2> HIDE DEF slot
  <2>5. slot[1] \in 0..MaxEpoch /\ slot[2] \in 0..MaxSeq /\ session[s].from \in Offset
    BY <2>1, <2>2, ConstantFacts DEF Offset
  <2>6. f \in File
    BY <2>5 DEF File
  <2> HIDE DEF f
  <2>7. rec \in Session /\ Shape(rec)
    BY <1>0, <2>2, <2>5, <2>6, RunningRecords DEF Running
  <2> HIDE DEF rec
  <2> QED BY <1>0, <2>3, <2>4, <2>7, RestUnchanged, TypeAssembled
<1>2. ASSUME StartPut(s) PROVE TypeInv'
  <2> DEFINE rec == [session[s] EXCEPT !.put = <<Head(session[s].flight)>>, !.flight = Tail(@)]
  <2>1. rec \in Session /\ Shape(rec)
    BY <1>0, <1>2, RunningRecords DEF StartPut, Running
  <2>2. session' = [session EXCEPT ![s] = rec]
    BY <1>0, <1>2 DEF StartPut
  <2>3. NotifierOK' /\ StoreType'
    BY <1>0, <1>2, RestUnchanged DEF StartPut
  <2> HIDE DEF rec
  <2> QED BY <2>1, <2>2, <2>3, TypeAssembled
<1>3. ASSUME Land(s) PROVE TypeInv'
  <2> DEFINE rec == [session[s] EXCEPT !.landed = TRUE]
  <2>1. rec \in Session /\ Shape(rec)
    BY <1>0, <1>3, TravellingRecords DEF Land
  <2>2. session' = [session EXCEPT ![s] = rec]
    BY <1>0, <1>3 DEF Land
  <2>3. session[s].put[1] \in File
    BY <1>3, FieldTypes, HeadOf DEF Land
  <2>4. NotifierOK'
    BY <1>0, <1>3, RestUnchanged DEF Land
  <2>5. StoreType'
    BY <1>0, <1>3, <2>3 DEF Land, StoreType, server
  <2> HIDE DEF rec
  <2> QED BY <2>1, <2>2, <2>4, <2>5, TypeAssembled
<1>4. ASSUME Record(s) PROVE TypeInv'
  <2> DEFINE f == session[s].put[1]
             o == Max({session[s].staged, f.end})
             rec == [session[s] EXCEPT !.put = <<>>, !.landed = FALSE, !.staged = o]
  <2>1. f \in File /\ session[s].staged \in -1..MaxOffset
    BY <1>4, FieldTypes, HeadOf, OffsetRange DEF Record
  <2>2. f.end \in 0..MaxOffset /\ MaxOffset \in Nat
    BY <2>1, ConstantFacts DEF File, Offset
  <2>3. session' = [session EXCEPT ![s] = rec]
    BY <1>0, <1>4 DEF Record
  <2>4. notifier' = Enqueued(session[s].proc, <<f>>) /\ UNCHANGED <<holder, storage, server>>
        /\ Running(s)
    BY <1>4 DEF Record
  <2> HIDE DEF f
  <2>5. o \in Offset \cup {NoOffset}
    <3>1. session[s].staged \in Int /\ f.end \in Int
      BY <2>1, <2>2
    <3>2. o \in {session[s].staged, f.end}
      BY <3>1, MaxOfTwo
    <3> QED BY <2>1, <2>2, <3>2, OffsetRange
  <2>6. session[s].proc \in Sessions /\ <<f>> \in Seq(File)
    BY <1>0, <2>1, <2>4 DEF Shape, Running
  <2> HIDE DEF o
  <2>7. rec \in Session /\ Shape(rec)
    BY <1>0, <2>4, <2>5, RunningRecords DEF Running
  <2> HIDE DEF rec
  <2>8. NotifierOK' /\ StoreType'
    BY <1>0, <2>4, <2>6, EnqueuedType, RestUnchanged
  <2> QED BY <2>3, <2>7, <2>8, TypeAssembled
<1>5. ASSUME Abandon(s) PROVE TypeInv'
  <2> DEFINE rec == [session[s] EXCEPT !.put = <<>>, !.landed = FALSE, !.flight = <<>>]
  <2>1. rec \in Session /\ Shape(rec)
    BY <1>0, <1>5, RunningRecords DEF Abandon, Running
  <2>2. session' = [session EXCEPT ![s] = rec]
    BY <1>0, <1>5 DEF Abandon
  <2>3. NotifierOK' /\ StoreType'
    BY <1>0, <1>5, RestUnchanged DEF Abandon
  <2> HIDE DEF rec
  <2> QED BY <2>1, <2>2, <2>3, TypeAssembled
<1>6. ASSUME Fence(s) PROVE TypeInv'
  <2> DEFINE rec == [session[s] EXCEPT !.fenced = TRUE]
  <2>1. rec \in Session /\ Shape(rec)
    BY <1>0, <1>6, RunningRecords DEF Fence, Running
  <2>2. session' = [session EXCEPT ![s] = rec]
    BY <1>0, <1>6 DEF Fence
  <2>3. NotifierOK' /\ StoreType'
    BY <1>0, <1>6, RestUnchanged DEF Fence
  <2> HIDE DEF rec
  <2> QED BY <2>1, <2>2, <2>3, TypeAssembled
<1>7. ASSUME Collect(s) PROVE TypeInv'
  <2>1. UNCHANGED <<session, notifier, holder, state, server>> /\ stored' \subseteq stored
    BY <1>7 DEF Collect
  <2> QED BY <2>1 DEF TypeInv, StreamTypeOK, ShapeInv, server
<1> QED BY <1>1, <1>2, <1>3, <1>4, <1>5, <1>6, <1>7

LEMMA StateOfType ==
  ASSUME TypeInv, NEW s \in Sessions, session[s].proc \in Sessions
  PROVE  StateOf(s) \in StateFile
<1>1. Proc(s).confirmed[2] \in -1..MaxOffset /\ session[s].persisted \in -1..MaxOffset
  BY TypeParts, FieldTypes, NotifierTypes, OffsetRange DEF Proc
<1> DEFINE c == Proc(s).confirmed[2]
           d == session[s].persisted
<1>2. StateOf(s) = [resume_offset |-> Max({c, d}), max_epoch_used |-> session[s].epoch]
  BY DEF StateOf
<1> HIDE DEF c, d
<1>3. c \in -1..MaxOffset /\ d \in -1..MaxOffset /\ c \in Int /\ d \in Int
  BY <1>1, ConstantFacts DEF c, d
<1>4. Max({c, d}) \in Offset \cup {NoOffset}
  BY <1>3, MaxOfTwo, OffsetRange
<1> QED BY <1>2, <1>4, FieldTypes DEF StateFile

LEMMA StateStepsKeepType ==
  ASSUME TypeInv, NEW s \in Sessions
  PROVE  /\ PersistState(s) => TypeInv'
         /\ StateWritten(s) => TypeInv'
         /\ StateWriteFails(s) => TypeInv'
         /\ \A written, released \in BOOLEAN : Close(s, written, released) => TypeInv'
         /\ Drop(s) => TypeInv'
<1>0. session \in [Sessions -> Session] /\ NotifierOK /\ StoreType
      /\ session[s] \in Session /\ Shape(session[s])
  BY TypeParts, FieldTypes
<1>1. ASSUME PersistState(s) PROVE TypeInv'
  <2> DEFINE w == StateOf(s)
             rec == [session[s] EXCEPT !.writing = <<w>>]
  <2>1. session' = [session EXCEPT ![s] = rec]
    BY <1>0, <1>1 DEF PersistState
  <2>2. session[s].proc \in Sessions /\ session[s].pc = "run"
    BY <1>0, <1>1 DEF PersistState, Running, Shape
  <2>3. w \in StateFile
    BY <2>2, StateOfType
  <2> HIDE DEF w
  <2>4. rec \in Session /\ Shape(rec)
    BY <1>0, <2>2, <2>3, RunningRecords
  <2>5. NotifierOK' /\ StoreType'
    BY <1>0, <1>1, RestUnchanged DEF PersistState
  <2> HIDE DEF rec
  <2> QED BY <2>1, <2>4, <2>5, TypeAssembled
<1>2. ASSUME StateWritten(s) PROVE TypeInv'
  <2> DEFINE o == session[s].writing[1].resume_offset
             rec == [session[s] EXCEPT !.writing = <<>>, !.persisted = o]
  <2>1. session[s].writing[1] \in StateFile /\ session[s].writing \in Seq(StateFile)
        /\ Len(session[s].writing) <= 1
    BY <1>0, <1>2, FieldTypes, HeadOf DEF StateWritten, Shape
  <2>2. o \in Offset \cup {NoOffset}
    BY <2>1 DEF StateFile
  <2>3. session' = [session EXCEPT ![s] = rec] /\ state' = session[s].writing
        /\ UNCHANGED <<notifier, holder, stored, server>>
    BY <1>0, <1>2 DEF StateWritten
  <2> HIDE DEF o
  <2>4. rec \in Session /\ Shape(rec)
    BY <1>0, <2>2, TravellingRecords
  <2>5. NotifierOK' /\ StoreType'
    BY <1>0, <2>1, <2>3, RestUnchanged DEF StoreType, server
  <2> HIDE DEF rec
  <2> QED BY <2>3, <2>4, <2>5, TypeAssembled
<1>3. ASSUME StateWriteFails(s) PROVE TypeInv'
  <2> DEFINE rec == [session[s] EXCEPT !.writing = <<>>]
  <2>1. rec \in Session /\ Shape(rec)
    BY <1>0, TravellingRecords
  <2>2. session' = [session EXCEPT ![s] = rec]
    BY <1>0, <1>3 DEF StateWriteFails
  <2>3. NotifierOK' /\ StoreType'
    BY <1>0, <1>3, RestUnchanged DEF StateWriteFails
  <2> HIDE DEF rec
  <2> QED BY <2>1, <2>2, <2>3, TypeAssembled
<1>4. ASSUME NEW written \in BOOLEAN, NEW released \in BOOLEAN, Close(s, written, released)
      PROVE  TypeInv'
  <2> DEFINE rec == [Gone EXCEPT !.proc = session[s].proc, !.writing = session[s].writing]
  <2>1. rec \in Session /\ Shape(rec)
    BY <1>0, TravellingRecords
  <2>2. session' = [session EXCEPT ![s] = rec]
    BY <1>4 DEF Close
  <2>3. StateOf(s) \in StateFile
    BY <1>0, <1>4, StateOfType DEF Close, Running, Shape
  <2>4. state' \in {state, <<StateOf(s)>>} /\ holder' \in {holder, NoSession}
        /\ UNCHANGED <<notifier, stored, server>>
    BY <1>4 DEF Close, Released
  <2>5. <<StateOf(s)>> \in Seq(StateFile) /\ Len(<<StateOf(s)>>) = 1
    BY <2>3
  <2>6. NotifierOK'
    BY <1>0, <2>4, RestUnchanged
  <2>7. StoreType'
    <3>1. holder' \in 0..MaxSessions
      BY <1>0, <2>4, ConstantFacts DEF StoreType
    <3>2. state' \in Seq(StateFile) /\ Len(state') <= 1
      <4>1. CASE state' = state
        BY <1>0, <4>1 DEF StoreType
      <4>2. CASE state' = <<StateOf(s)>>
        BY <2>5, <4>2
      <4> QED BY <2>4, <4>1, <4>2
    <3> QED BY <1>0, <2>4, <3>1, <3>2 DEF StoreType, server
  <2> HIDE DEF rec
  <2> QED BY <2>1, <2>2, <2>6, <2>7, TypeAssembled
<1>5. ASSUME Drop(s) PROVE TypeInv'
  <2>1. session' = [session EXCEPT ![s] = Gone] /\ NotifierOK'
    BY <1>0, <1>5, RestUnchanged DEF Drop
  <2>2. holder' \in {holder, NoSession} /\ UNCHANGED <<storage, server>>
    BY <1>5 DEF Drop, Released
  <2>3. StoreType'
    BY <1>0, <2>2, ConstantFacts DEF StoreType, storage, server
  <2> QED BY <2>1, <2>3, NewSessionType, TypeAssembled
<1> QED BY <1>1, <1>2, <1>3, <1>4, <1>5

LEMMA RestKeepsType ==
  ASSUME TypeInv, NEW p \in Sessions
  PROVE  /\ Crash(p) => TypeInv'
         /\ \A answered \in BOOLEAN : Submit(p, answered) => TypeInv'
         /\ Load => TypeInv'
<1>0. session \in [Sessions -> Session] /\ ShapeInv /\ NotifierOK /\ StoreType
  BY TypeParts
<1>1. ASSUME Crash(p) PROVE TypeInv'
  <2>1. \A s \in Sessions : session'[s] \in Session /\ Shape(session'[s])
    BY <1>0, <1>1, NewSessionType DEF Crash, ShapeInv
  <2>2. session' \in [Sessions -> Session]
    BY <1>1, <2>1 DEF Crash
  <2>3. NewNotifier \in NotifierType
    BY EmptyFiles DEF NewNotifier, NotifierType, NoSerial
  <2>4. NotifierOK'
    BY <1>0, <1>1, <2>3 DEF Crash, NotifierOK
  <2>5. StoreType'
    BY <1>0, <1>1, RestUnchanged DEF Crash
  <2> QED BY <2>1, <2>2, <2>4, <2>5 DEF TypeInv, StreamTypeOK, NotifierOK, StoreType, ShapeInv
<1>2. ASSUME NEW answered \in BOOLEAN, Submit(p, answered) PROVE TypeInv'
  <2> DEFINE f == Head(notifier[p].queue)
             rest == Tail(notifier[p].queue)
             c == Confirmed(notifier[p].confirmed, f)
  <2>1. f \in File /\ rest \in Seq(File)
    BY <1>0, <1>2, NotifierTypes, HeadOf DEF Submit
  <2>2. c \in Int \X (Offset \cup {NoOffset})
    <3>1. Serial(f) \in Int /\ f.end \in Offset
      BY <2>1, SerialBounds DEF File
    <3> QED BY <1>0, <3>1, NotifierTypes DEF Confirmed, NotifierType
  <2>3. accepted' \in {accepted, accepted \cup {f}}
    BY <1>2 DEF Submit, Gate
  <2>4. UNCHANGED <<session, holder, storage, loaded>>
        /\ (notifier' = notifier
              \/ notifier' = [notifier EXCEPT ![p].queue = rest, ![p].confirmed = c])
    BY <1>2 DEF Submit
  <2> HIDE DEF f, rest, c
  <2> DEFINE rec == [notifier[p] EXCEPT !.queue = rest, !.confirmed = c]
  <2>5. NotifierOK'
    <3>1. rec \in NotifierType
      BY <1>0, <2>1, <2>2, NotifierTypes DEF NotifierType
    <3>2. notifier' = notifier \/ notifier' = [notifier EXCEPT ![p] = rec]
      BY <1>0, <2>4 DEF NotifierOK
    <3> HIDE DEF rec
    <3> QED BY <1>0, <3>1, <3>2 DEF NotifierOK
  <2>6. StoreType'
    BY <1>0, <2>1, <2>3, <2>4 DEF StoreType, storage
  <2> QED BY <1>0, <2>4, <2>5, <2>6 DEF TypeInv, StreamTypeOK, NotifierOK, StoreType, ShapeInv
<1>3. ASSUME Load PROVE TypeInv'
  <2>1. UNCHANGED <<session, notifier, holder, storage, accepted>> /\ loaded' \subseteq accepted
    BY <1>0, <1>3 DEF Load, StoreType
  <2> QED BY <2>1 DEF TypeInv, StreamTypeOK, ShapeInv, storage
<1> QED BY <1>1, <1>2, <1>3

LEMMA TypeInit == Init => TypeInv
<1> SUFFICES ASSUME Init PROVE TypeInv
  OBVIOUS
<1>1. session \in [Sessions -> Session] /\ ShapeInv
  BY NewSessionType DEF Init, ShapeInv
<1>2. NewNotifier \in NotifierType
  BY EmptyFiles DEF NewNotifier, NotifierType, NoSerial
<1>3. NotifierOK
  BY <1>2 DEF Init, NotifierOK
<1>4. StoreType
  BY EmptyFiles, ConstantFacts DEF Init, StoreType
<1> QED BY <1>1, <1>3, <1>4, TypeParts

(***************************************************************************)
(* The steps of the stream, one alternative each: what every proof about   *)
(* Next goes through.                                                      *)
(***************************************************************************)
Step ==
  \/ \E s \in Sessions :
       \/ \E p \in Sessions : Open(s, p)
       \/ ReadState(s) \/ (\E known \in BOOLEAN : ReadWatermark(s, known)) \/ List(s)
       \/ (\E now \in Clock : WriteState(s, now)) \/ Start(s) \/ OpenFails(s)
       \/ (\E e \in Offset : Seal(s, e))
       \/ StartPut(s) \/ Land(s) \/ Record(s) \/ Abandon(s) \/ Fence(s) \/ Collect(s)
       \/ PersistState(s) \/ StateWritten(s) \/ StateWriteFails(s)
       \/ (\E written, released \in BOOLEAN : Close(s, written, released))
       \/ Drop(s) \/ Crash(s)
  \/ \E p \in Sessions, answered \in BOOLEAN : Submit(p, answered)
  \/ Load

LEMMA NextIsStep == Next => Step
BY Zenon DEF Next, SessionStep, OpenStep, PutStep, StateStep, Stop, Step

LEMMA TypeStep == TypeInv /\ [Next]_vars => TypeInv'
<1> SUFFICES ASSUME TypeInv, [Next]_vars PROVE TypeInv'
  OBVIOUS
<1>1. CASE Next
  <2>1. MaxSessions \in Sessions
    BY ConstantFacts
  <2> QED
    BY <1>1, <2>1, NextIsStep, OpeningKeepsType, PlanKeepsType, FileStepsKeepType,
       StateStepsKeepType, RestKeepsType, Zenon DEF Step
<1>2. CASE UNCHANGED vars
  BY <1>2 DEF vars, TypeInv, StreamTypeOK, ShapeInv
<1> QED BY <1>1, <1>2

(***************************************************************************)
(* Every reachable state is well-typed, whatever may happen to the stream: *)
(* no session's offsets or epoch leave their range, and the server loads   *)
(* only what it accepted.                                                  *)
(***************************************************************************)
THEOREM StreamTypeCorrect == Spec => []StreamTypeOK
<1>1. TypeInv => StreamTypeOK
  BY DEF TypeInv
<1> QED BY <1>1, TypeInit, TypeStep, PTL DEF Spec

=============================================================================
