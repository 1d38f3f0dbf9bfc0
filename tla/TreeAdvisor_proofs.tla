-------------------------- MODULE TreeAdvisor_proofs --------------------------
(***************************************************************************)
(* Proofs about TreeAdvisor, for every length of a bar, every tolerance of    *)
(* at least half of it, every horizon and every number of candles.           *)
(***************************************************************************)
EXTENDS TreeAdvisor, FiniteSetTheorems, WellFoundedInduction, TLAPS

(* A set of natural numbers that is not empty has a least one. *)
LEMMA Least ==
    ASSUME NEW T \in SUBSET Nat, T # {}
    PROVE  \E m \in T : \A n \in T : m <= n
<1>1. PICK m \in T : \A n \in T : ~(<<n, m>> \in OpToRel(<, Nat))
  BY NatLessThanWellFounded, WFMin
<1>2. \A n \in T : ~(n < m)
  BY <1>1 DEF OpToRel
<1>3. QED
  BY <1>2

(* The bar a moment falls into. *)
LEMMA BarOf ==
    ASSUME NEW t \in Nat
    PROVE  /\ t \div Bar \in Nat
           /\ Bar * (t \div Bar) <= t
           /\ t < CloseTime(t \div Bar)
BY AdvisorAssumption DEF CloseTime

LEMMA CloseTimes ==
    /\ \A k \in Nat : CloseTime(k) \in Nat /\ CloseTime(k + 1) = CloseTime(k) + Bar
    /\ \A k, n \in Nat : k < n => CloseTime(k) <= Bar * n
BY AdvisorAssumption DEF CloseTime

(* What _fetch_candles returns when it is asked at t. *)
CandlesAt(t) ==
    [k \in {n \in 0..(t \div Bar) : n > t \div Bar - Candles} |->
        IF k = t \div Bar THEN t ELSE CloseTime(k)]

LEMMA CandleFacts ==
    ASSUME NEW t \in Nat, NEW k \in DOMAIN CandlesAt(t)
    PROVE  /\ k \in Nat /\ k <= t \div Bar
           /\ CandlesAt(t)[k] \in 0..t
           /\ CandlesAt(t)[k] # CloseTime(k) => CandlesAt(t)[k] = t /\ t < CloseTime(k)
<1>1. k \in Nat /\ k <= t \div Bar
  BY BarOf DEF CandlesAt
<1>2. CASE k = t \div Bar
  <2>1. CandlesAt(t)[k] = t
    BY <1>2 DEF CandlesAt
  <2>2. QED
    BY <1>1, <1>2, <2>1, BarOf
<1>3. CASE k # t \div Bar
  <2>1. CandlesAt(t)[k] = CloseTime(k)
    BY <1>3 DEF CandlesAt
  <2>2. k < t \div Bar
    BY <1>1, <1>3, BarOf
  <2>3. CloseTime(k) <= Bar * (t \div Bar) /\ CloseTime(k) \in Nat
    BY <1>1, <2>2, BarOf, CloseTimes
  <2>4. Bar * (t \div Bar) <= t /\ Bar * (t \div Bar) \in Nat
    BY BarOf, AdvisorAssumption
  <2>5. QED
    BY <1>1, <2>1, <2>3, <2>4
<1>4. QED
  BY <1>2, <1>3

-------------------------------------------------------------------------------
(* The price of the candle that is chosen is near the target, even if the     *)
(* candle is the one still forming: it was asked for at most Step before the   *)
(* snapshot was complete, and the target is not later than that.              *)
LEMMA ChosenIsNear ==
    ASSUME NEW asked \in Nat, NEW at \in Nat, asked <= at, at <= asked + Step,
           NEW target \in Nat, target <= at,
           NEW k \in RealizedCandle(CandlesAt(asked), target)
    PROVE  /\ CandlesAt(asked)[k] \in 0..asked
           /\ Gap(CandlesAt(asked)[k], target) <= CloseMatchTol
<1> DEFINE price == CandlesAt(asked)[k]
<1>1. k \in DOMAIN CandlesAt(asked) /\ Gap(CloseTime(k), target) <= CloseMatchTol
  BY DEF RealizedCandle
<1>2. k \in Nat /\ price \in 0..asked /\ (price # CloseTime(k) => price = asked /\ asked < CloseTime(k))
  BY <1>1, CandleFacts
<1>3. Step \in Nat /\ CloseMatchTol \in Nat /\ Step <= CloseMatchTol
  BY AdvisorAssumption
<1>4. CloseTime(k) \in Nat
  BY <1>2, CloseTimes
<1> HIDE DEF price
<1>5. Gap(price, target) <= CloseMatchTol
  BY <1>1, <1>2, <1>3, <1>4 DEF Gap
<1>6. QED
  BY <1>2, <1>5 DEF price

(* A target that the candles reach back to, and that is not later than the    *)
(* snapshot, has a candle whose close is within half a bar.                   *)
LEMMA SomeIsNear ==
    ASSUME NEW asked \in Nat, NEW target \in Nat, target <= asked + Step,
           NEW k \in DOMAIN CandlesAt(asked), CloseTime(k) <= target
    PROVE  \E n \in DOMAIN CandlesAt(asked) : Gap(CloseTime(n), target) <= CloseMatchTol
<1> DEFINE last == asked \div Bar
<1>1. /\ Step \in Nat /\ CloseMatchTol \in Nat /\ Step <= CloseMatchTol
      /\ Bar \in Nat /\ 2 * CloseMatchTol >= Bar /\ Candles \in Nat \ {0}
  BY AdvisorAssumption
<1>2. last \in Nat /\ asked < CloseTime(last) /\ CloseTime(last) \in Nat
  BY BarOf, CloseTimes
<1>3. k \in Nat /\ k <= last /\ k > last - Candles
  BY CandleFacts DEF CandlesAt
<1>4. CASE CloseTime(last) <= target
  <2>1. Gap(CloseTime(last), target) <= CloseMatchTol
    BY <1>1, <1>2, <1>4 DEF Gap
  <2>2. last \in DOMAIN CandlesAt(asked)
    BY <1>1, <1>2 DEF CandlesAt
  <2>3. QED
    BY <2>1, <2>2
<1>5. CASE target < CloseTime(last)
  <2> DEFINE after == {n \in 0..last : target < CloseTime(n)}
  <2>1. PICK m \in after : \A n \in after : m <= n
    <3>1. last \in after /\ after \in SUBSET Nat
      BY <1>2, <1>5
    <3>2. QED
      BY <3>1, Least
  <2>2. m \in Nat /\ m <= last /\ target < CloseTime(m)
    BY <1>2, <2>1
  <2>3. k < m
    <3>1. CASE m <= k
      <4>1. m < k \/ m = k
        BY <1>3, <2>2, <3>1
      <4>2. m < k => CloseTime(m) <= Bar * k
        BY <1>3, <2>2, CloseTimes
      <4>3. Bar * k <= CloseTime(k)
        BY <1>1, <1>3 DEF CloseTime
      <4>4. CloseTime(m) \in Nat /\ CloseTime(k) \in Nat /\ Bar * k \in Nat
        BY <1>1, <1>3, <2>2, CloseTimes
      <4>5. QED
        BY <2>2, <4>1, <4>2, <4>3, <4>4
    <3>2. QED
      BY <1>3, <2>2, <3>1
  <2>4. m - 1 \in 0..last /\ m - 1 \in Nat /\ m - 1 < m
    BY <1>2, <1>3, <2>2, <2>3
  <2>5. m - 1 \notin after /\ CloseTime(m - 1) \in Nat /\ CloseTime(m) \in Nat
    <3>1. m - 1 \notin after
      BY <2>1, <2>2, <2>4
    <3>2. QED
      BY <2>2, <2>4, <3>1, CloseTimes
  <2>6. CloseTime(m - 1) <= target
    BY <2>4, <2>5
  <2>7. CloseTime(m) = CloseTime(m - 1) + Bar
    <3>1. CloseTime((m - 1) + 1) = CloseTime(m - 1) + Bar
      BY <2>4, CloseTimes
    <3>2. (m - 1) + 1 = m
      BY <2>2
    <3>3. QED
      BY <3>1, <3>2
  <2>8. \/ Gap(CloseTime(m - 1), target) <= CloseMatchTol
        \/ Gap(CloseTime(m), target) <= CloseMatchTol
    BY <1>1, <2>2, <2>5, <2>6, <2>7 DEF Gap
  <2>9. m - 1 \in DOMAIN CandlesAt(asked) /\ m \in DOMAIN CandlesAt(asked)
    BY <1>1, <1>2, <1>3, <2>2, <2>3, <2>5 DEF CandlesAt
  <2>10. QED
    BY <2>8, <2>9
<1>6. QED
  BY <1>2, <1>4, <1>5

LEMMA ClosestExists ==
    ASSUME NEW asked \in Nat, NEW target \in Nat, target <= asked + Step,
           NEW k \in DOMAIN CandlesAt(asked), CloseTime(k) <= target
    PROVE  RealizedCandle(CandlesAt(asked), target) # {}
<1> DEFINE gaps == {Gap(CloseTime(n), target) : n \in DOMAIN CandlesAt(asked)}
<1>1. PICK near \in DOMAIN CandlesAt(asked) : Gap(CloseTime(near), target) <= CloseMatchTol
  BY SomeIsNear
<1>2. \A n \in DOMAIN CandlesAt(asked) : Gap(CloseTime(n), target) \in Nat
  <2> TAKE n \in DOMAIN CandlesAt(asked)
  <2>1. CloseTime(n) \in Nat
    BY CandleFacts, CloseTimes
  <2>2. QED
    BY <2>1 DEF Gap
<1>3. PICK g \in gaps : \A h \in gaps : g <= h
  BY <1>1, <1>2, Least
<1>4. PICK c \in DOMAIN CandlesAt(asked) : g = Gap(CloseTime(c), target)
  BY <1>3
<1>5. \A n \in DOMAIN CandlesAt(asked) : Gap(CloseTime(c), target) <= Gap(CloseTime(n), target)
  BY <1>3, <1>4
<1>6. Gap(CloseTime(c), target) <= CloseMatchTol
  BY <1>1, <1>2, <1>5, AdvisorAssumption
<1>7. c \in RealizedCandle(CandlesAt(asked), target)
  BY <1>5, <1>6 DEF RealizedCandle
<1>8. QED
  BY <1>7

-------------------------------------------------------------------------------
StoredRow == [ts : Nat, realized : Int \cup {None}, correct : BOOLEAN]

Shape ==
    /\ now \in 0..MaxTime
    /\ pc \in {"idle", "stamp", "pending", "score", "predict"}
    /\ snap = [candles |-> snap.candles, asked |-> snap.asked, at |-> snap.at,
               whole |-> snap.whole]
    /\ snap.asked \in Nat /\ snap.at \in Nat /\ snap.whole \in BOOLEAN
    /\ oi \subseteq 0..now /\ predicted \subseteq 0..now
    /\ funding \in 0..FundingKeep /\ foundOi \in BOOLEAN

(* The clock of a cycle: the snapshot has the candles of the moment it was    *)
(* asked for, and no more than Step passes until the rows are scored.         *)
Moments ==
    pc # "idle" =>
        /\ snap.candles = CandlesAt(snap.asked)
        /\ snap.asked <= now /\ now <= snap.asked + Step
        /\ pc # "stamp" => snap.asked <= snap.at /\ snap.at <= now

Table ==
    /\ rows \in Seq(StoredRow)
    /\ \A i \in DOMAIN rows :
          /\ rows[i].ts <= now
          /\ rows[i].realized # None => rows[i].realized \in 0..now
    /\ todo \subseteq DOMAIN rows
    /\ \A i \in todo : rows[i].realized = None

(* What a backfill owes: a row that it can score is scored or still to come.  *)
Due(i) ==
    /\ rows[i].ts >= now - MaxAge
    /\ Target(rows[i]) <= snap.at
    /\ \E k \in DOMAIN snap.candles : CloseTime(k) <= Target(rows[i])

Loop ==
    /\ pc \in {"score", "predict"} /\ snap.whole =>
          \A i \in DOMAIN rows : Due(i) => rows[i].realized # None \/ i \in todo
    /\ pc = "predict" /\ snap.whole => todo = {}

AdvisorInv == Shape /\ Moments /\ Table /\ Loop /\ ScoredNearTarget

LEMMA AdvisorStart == Init => AdvisorInv
<1> SUFFICES ASSUME Init PROVE AdvisorInv
  OBVIOUS
<1>1. Shape
  BY AdvisorAssumption DEF Init, NoSnap, Shape
<1>2. Moments /\ Table /\ Loop /\ ScoredNearTarget
  BY DEF Init, Moments, Table, Loop, ScoredNearTarget
<1>3. QED
  BY <1>1, <1>2 DEF AdvisorInv

(* The target of a prediction. *)
LEMMA TargetType == \A r : r.ts \in Nat => Target(r) \in Nat /\ Target(r) >= r.ts
BY AdvisorAssumption DEF Target

LEMMA RowFacts ==
    ASSUME Table, NEW i \in DOMAIN rows
    PROVE  /\ i \in Nat /\ rows[i] \in StoredRow /\ Target(rows[i]) \in Nat
           /\ rows[i] = [ts |-> rows[i].ts, realized |-> rows[i].realized,
                         correct |-> rows[i].correct]
<1>1. i \in Nat /\ rows[i] \in StoredRow
  BY DEF Table
<1>2. rows[i].ts \in Nat
  BY <1>1 DEF StoredRow
<1>3. Target(rows[i]) \in Nat
  BY <1>2, TargetType
<1>4. QED
  BY <1>1, <1>3 DEF StoredRow

(* A step that leaves the table alone, on which no time passes. *)
LEMMA TableKept ==
    ASSUME AdvisorInv, rows' = rows, now' \in Nat, now <= now', todo' \subseteq todo
    PROVE  Table' /\ ScoredNearTarget'
<1>1. \A i \in DOMAIN rows : rows[i].ts \in Nat
  BY RowFacts DEF AdvisorInv, StoredRow
<1>2. QED
  BY <1>1 DEF AdvisorInv, Shape, Table, ScoredNearTarget, Target

LEMMA IdleKept == pc' = "idle" => Moments' /\ Loop'
BY DEF Moments, Loop

-------------------------------------------------------------------------------
LEMMA TickStep == AdvisorInv /\ Tick => AdvisorInv'
<1> SUFFICES ASSUME AdvisorInv, Tick PROVE AdvisorInv'
  OBVIOUS
<1> USE DEF locals, buffers
<1>1. now \in Nat /\ now' = now + Step /\ Step \in Nat /\ now' \in 0..MaxTime
  BY AdvisorAssumption DEF AdvisorInv, Shape, Tick
<1>2. Shape'
  BY <1>1 DEF AdvisorInv, Shape, Tick
<1>3. Moments'
  BY <1>1 DEF AdvisorInv, Shape, Moments, Tick
<1>4. Table' /\ ScoredNearTarget'
  BY <1>1, TableKept DEF Tick
<1>5. Loop'
  BY DEF AdvisorInv, Loop, Tick
<1>6. QED
  BY <1>2, <1>3, <1>4, <1>5 DEF AdvisorInv

LEMMA SnapshotStep == AdvisorInv /\ (GetSnapshot \/ Stamp) => AdvisorInv'
<1> SUFFICES ASSUME AdvisorInv, GetSnapshot \/ Stamp PROVE AdvisorInv'
  OBVIOUS
<1> USE DEF buffers
<1>1. now \in Nat /\ Step \in Nat
  BY AdvisorAssumption DEF AdvisorInv, Shape
<1>2. Table' /\ ScoredNearTarget'
  BY <1>1, TableKept DEF GetSnapshot, Stamp
<1>3. CASE GetSnapshot
  <2>1. FetchCandles = CandlesAt(now)
    BY DEF FetchCandles, CandlesAt
  <2>2. Shape' /\ Moments' /\ Loop'
    BY <1>1, <1>3, <2>1 DEF AdvisorInv, Shape, Moments, Loop, GetSnapshot
  <2>3. QED
    BY <1>2, <2>2 DEF AdvisorInv
<1>4. CASE Stamp
  <2>1. Shape' /\ Moments' /\ Loop'
    BY <1>1, <1>4 DEF AdvisorInv, Shape, Moments, Loop, Stamp
  <2>2. QED
    BY <1>2, <2>1 DEF AdvisorInv
<1>5. QED
  BY <1>3, <1>4

LEMMA ReadPendingStep == AdvisorInv /\ ReadPending => AdvisorInv'
<1> SUFFICES ASSUME AdvisorInv, ReadPending PROVE AdvisorInv'
  OBVIOUS
<1> USE DEF buffers
<1>1. Shape' /\ Moments'
  BY DEF AdvisorInv, Shape, Moments, ReadPending
<1>2. Table' /\ ScoredNearTarget'
  BY DEF AdvisorInv, Table, ScoredNearTarget, Target, ReadPending, NeedingBackfill
<1>3. Loop'
  BY DEF Loop, Due, ReadPending, NeedingBackfill, Target
<1>4. QED
  BY <1>1, <1>2, <1>3 DEF AdvisorInv

(* A row that is due when the loop comes to it has a candle.                 *)
LEMMA DueHasCandle ==
    ASSUME AdvisorInv, pc = "score", NEW i \in DOMAIN rows, Due(i)
    PROVE  Elapsed(rows[i]) /\ RealizedCandle(snap.candles, Target(rows[i])) # {}
<1>1. snap.candles = CandlesAt(snap.asked) /\ snap.at <= snap.asked + Step
      /\ snap.asked \in Nat /\ snap.at \in Nat
  BY AdvisorAssumption DEF AdvisorInv, Shape, Moments
<1>2. Target(rows[i]) \in Nat /\ Target(rows[i]) <= snap.at
  BY RowFacts DEF AdvisorInv, Due
<1>3. Target(rows[i]) <= snap.asked + Step
  BY <1>1, <1>2, AdvisorAssumption
<1>4. PICK k \in DOMAIN CandlesAt(snap.asked) : CloseTime(k) <= Target(rows[i])
  BY <1>1 DEF Due
<1>5. RealizedCandle(CandlesAt(snap.asked), Target(rows[i])) # {}
  BY <1>1, <1>2, <1>3, <1>4, ClosestExists
<1>6. QED
  BY <1>1, <1>2, <1>5 DEF Elapsed

(* What a row becomes when it is scored.                                      *)
LEMMA ScoreIsNear ==
    ASSUME AdvisorInv, pc = "score", NEW i \in DOMAIN rows, Elapsed(rows[i]),
           NEW k \in RealizedCandle(snap.candles, Target(rows[i])), NEW correct \in BOOLEAN
    PROVE  LET r == Scored(rows[i], k, correct)
           IN  /\ r \in StoredRow /\ r.ts = rows[i].ts /\ r.realized \in 0..now
               /\ r.realized # None
               /\ Gap(r.realized, Target(r)) <= CloseMatchTol
<1>1. /\ snap.candles = CandlesAt(snap.asked) /\ snap.asked \in Nat /\ snap.at \in Nat
      /\ snap.asked <= snap.at /\ snap.at <= snap.asked + Step /\ snap.asked <= now
      /\ now \in Nat
  BY AdvisorAssumption DEF AdvisorInv, Shape, Moments
<1>2. Target(rows[i]) \in Nat /\ Target(rows[i]) <= snap.at
  BY RowFacts DEF AdvisorInv, Elapsed
<1>3. /\ snap.candles[k] \in 0..snap.asked
      /\ Gap(snap.candles[k], Target(rows[i])) <= CloseMatchTol
  BY <1>1, <1>2, ChosenIsNear
<1>4. rows[i] = [ts |-> rows[i].ts, realized |-> rows[i].realized, correct |-> rows[i].correct]
      /\ rows[i].ts \in Nat
  BY RowFacts DEF AdvisorInv, StoredRow
<1>5. /\ Scored(rows[i], k, correct) \in StoredRow
      /\ Scored(rows[i], k, correct).ts = rows[i].ts
      /\ Scored(rows[i], k, correct).realized = snap.candles[k]
  <2>1. rows[i] \in StoredRow /\ snap.candles[k] \in Int
    BY <1>1, <1>3, RowFacts DEF AdvisorInv
  <2>2. QED
    BY <2>1 DEF StoredRow, Scored
<1>6. snap.candles[k] # None /\ snap.candles[k] \in 0..now
  BY <1>1, <1>3, AdvisorAssumption
<1>7. QED
  BY <1>3, <1>4, <1>5, <1>6 DEF StoredRow, Target

LEMMA FirstOfTodo ==
    ASSUME AdvisorInv, todo # {}
    PROVE  LET i == CHOOSE n \in todo : \A m \in todo : n <= m
           IN  i \in todo /\ i \in DOMAIN rows /\ rows[i].realized = None
<1>1. todo \in SUBSET Nat
  BY RowFacts DEF AdvisorInv, Table
<1>2. \E n \in todo : \A m \in todo : n <= m
  BY <1>1, Least
<1>3. QED
  BY <1>2 DEF AdvisorInv, Table

LEMMA ScoreRowStep == AdvisorInv /\ ScoreRow => AdvisorInv'
<1> SUFFICES ASSUME AdvisorInv, ScoreRow PROVE AdvisorInv'
  OBVIOUS
<1> DEFINE i  == CHOOSE n \in todo : \A m \in todo : n <= m
           ks == RealizedCandle(snap.candles, Target(rows[i]))
<1>1. i \in todo /\ i \in DOMAIN rows /\ rows[i].realized = None
  BY FirstOfTodo DEF ScoreRow
<1>2. /\ pc = "score" /\ pc' = pc /\ snap' = snap /\ now' = now /\ now \in Nat
      /\ todo' = todo \ {i}
      /\ UNCHANGED buffers
  BY DEF ScoreRow, AdvisorInv, Shape
<1>3. Shape' /\ Moments'
  BY <1>2 DEF AdvisorInv, Shape, Moments, buffers
<1>4. CASE Elapsed(rows[i]) /\ ks # {}
  <2>1. PICK k \in ks, correct \in BOOLEAN :
            rows' = [rows EXCEPT ![i] = Scored(rows[i], k, correct)]
    BY <1>4 DEF ScoreRow
  <2> DEFINE r == Scored(rows[i], k, correct)
  <2>2. /\ r \in StoredRow /\ r.ts = rows[i].ts /\ r.realized \in 0..now
        /\ r.realized # None /\ Gap(r.realized, Target(r)) <= CloseMatchTol
    BY <1>1, <1>2, <1>4, ScoreIsNear
  <2> HIDE DEF r, ks, i
  <2>3. rows' = [rows EXCEPT ![i] = r]
    BY <2>1 DEF r
  <2>4. /\ DOMAIN rows' = DOMAIN rows /\ rows'[i] = r
        /\ \A j \in DOMAIN rows : j # i => rows'[j] = rows[j]
    BY <1>1, <2>3
  <2>5. rows' \in Seq(StoredRow)
    BY <1>1, <2>2, <2>3 DEF AdvisorInv, Table
  <2>6. Table'
    BY <1>1, <1>2, <2>2, <2>4, <2>5 DEF AdvisorInv, Table
  <2>7. ScoredNearTarget'
    BY <2>2, <2>4 DEF AdvisorInv, ScoredNearTarget, Target
  <2>8. Loop'
    BY <1>1, <1>2, <2>2, <2>4 DEF AdvisorInv, Loop, Due, Target
  <2>9. QED
    BY <1>3, <2>6, <2>7, <2>8 DEF AdvisorInv
<1>5. CASE ~(Elapsed(rows[i]) /\ ks # {})
  <2>1. rows' = rows
    BY <1>5 DEF ScoreRow
  <2>2. ~Due(i)
    BY <1>1, <1>2, <1>5, DueHasCandle
  <2> HIDE DEF ks, i
  <2>3. Table' /\ ScoredNearTarget'
    BY <1>2, <2>1, TableKept
  <2>4. Loop'
    BY <1>2, <2>1, <2>2 DEF AdvisorInv, Loop, Due
  <2>5. QED
    BY <1>3, <2>3, <2>4 DEF AdvisorInv
<1>6. QED
  BY <1>4, <1>5

LEMMA BackfillEnds == AdvisorInv /\ (BackfillDone \/ BackfillFails) => AdvisorInv'
<1> SUFFICES ASSUME AdvisorInv, BackfillDone \/ BackfillFails PROVE AdvisorInv'
  OBVIOUS
<1> USE DEF locals, buffers
<1>1. now \in Nat
  BY DEF AdvisorInv, Shape
<1>2. Table' /\ ScoredNearTarget'
  BY <1>1, TableKept DEF BackfillDone, BackfillFails
<1>3. CASE BackfillDone
  <2>1. Shape' /\ Moments' /\ Loop'
    BY <1>3 DEF AdvisorInv, Shape, Moments, Loop, Due, BackfillDone
  <2>2. QED
    BY <1>2, <2>1 DEF AdvisorInv
<1>4. CASE BackfillFails
  <2>1. snap' = [snap EXCEPT !.whole = FALSE] /\ UNCHANGED <<now, buffers>>
    BY <1>4 DEF BackfillFails
  <2>2. Shape' /\ Moments'
    BY <1>4, <2>1 DEF AdvisorInv, Shape, Moments, BackfillFails
  <2>3. ~snap.whole'
    BY <2>1 DEF AdvisorInv, Shape
  <2>4. Loop'
    BY <2>3 DEF Loop
  <2>5. QED
    BY <1>2, <2>2, <2>4 DEF AdvisorInv
<1>5. QED
  BY <1>3, <1>4

LEMMA BufferTypes ==
    ASSUME AdvisorInv, pc = "predict"
    PROVE  OiAfter(snap.at) \subseteq 0..now /\ FundingAfter \in 0..FundingKeep
<1>1. snap.at \in 0..now
  BY DEF AdvisorInv, Shape, Moments
<1>2. QED
  BY <1>1, AdvisorAssumption DEF AdvisorInv, Shape, OiAfter, FundingAfter

LEMMA PredictStep == AdvisorInv /\ Predict => AdvisorInv'
<1> SUFFICES ASSUME AdvisorInv, Predict PROVE AdvisorInv'
  OBVIOUS
<1>1. now \in Nat /\ now' = now /\ pc' = "idle" /\ todo' = todo /\ snap.at \in 0..now
  BY DEF AdvisorInv, Shape, Moments, Predict
<1>2. Shape'
  BY <1>1, BufferTypes DEF AdvisorInv, Shape, Predict, NoSnap
<1>3. Moments' /\ Loop'
  BY <1>1, IdleKept
<1>4. Table' /\ ScoredNearTarget'
  <2>1. CASE rows' = rows
    BY <1>1, <2>1, TableKept
  <2> DEFINE r == [ts |-> now, realized |-> None, correct |-> FALSE]
  <2>2. CASE rows' = Append(rows, r)
    <3>1. r \in StoredRow
      BY <1>1 DEF StoredRow
    <3>2. rows \in Seq(StoredRow)
      BY DEF AdvisorInv, Table
    <3> HIDE DEF r
    <3>3. /\ rows' \in Seq(StoredRow) /\ DOMAIN rows' = DOMAIN rows \cup {Len(rows) + 1}
          /\ rows'[Len(rows) + 1] = r
          /\ \A j \in DOMAIN rows : rows'[j] = rows[j]
      BY <2>2, <3>1, <3>2
    <3>4. r.ts <= now /\ r.realized = None
      BY <1>1 DEF r
    <3>5. QED
      BY <1>1, <3>3, <3>4 DEF AdvisorInv, Table, ScoredNearTarget, Target
  <2>3. QED
    BY <2>1, <2>2 DEF Predict
<1>5. QED
  BY <1>2, <1>3, <1>4 DEF AdvisorInv

LEMMA ProcessEnds == AdvisorInv /\ (Abort \/ Restart) => AdvisorInv'
<1> SUFFICES ASSUME AdvisorInv, Abort \/ Restart PROVE AdvisorInv'
  OBVIOUS
<1> USE DEF buffers
<1>1. now \in Nat
  BY DEF AdvisorInv, Shape
<1>2. Shape'
  <2>1. CASE Abort
    BY <2>1 DEF AdvisorInv, Shape, NoSnap, Abort
  <2>2. CASE Restart
    <3>1. oi' = {} /\ predicted' = {} /\ funding' = 0 /\ foundOi' = TRUE
      BY <2>2 DEF Restart
    <3>2. pc' = "idle" /\ snap' = NoSnap /\ now' = now
      BY <2>2 DEF Restart
    <3>3. now \in 0..MaxTime /\ FundingKeep \in Nat
      BY AdvisorAssumption DEF AdvisorInv, Shape
    <3>4. QED
      BY <3>1, <3>2, <3>3 DEF Shape, NoSnap
  <2>3. QED
    BY <2>1, <2>2
<1>3. Moments' /\ Loop' /\ Table' /\ ScoredNearTarget'
  BY <1>1, IdleKept, TableKept DEF Abort, Restart
<1>4. QED
  BY <1>2, <1>3 DEF AdvisorInv

LEMMA AdvisorStutters == AdvisorInv /\ UNCHANGED vars => AdvisorInv'
BY DEF AdvisorInv, Shape, Moments, Table, Loop, Due, ScoredNearTarget, Target, vars, locals,
       buffers

THEOREM AdvisorCorrect == Spec => []AdvisorInv
<1>1. AdvisorInv /\ [Next]_vars => AdvisorInv'
  BY TickStep, SnapshotStep, ReadPendingStep, ScoreRowStep, BackfillEnds, PredictStep,
     ProcessEnds, AdvisorStutters DEF Next
<1>2. QED
  BY <1>1, AdvisorStart, PTL DEF Spec

-------------------------------------------------------------------------------
(* TypeOK: the times of the buffers and of the rows are past, and the funding *)
(* readings never outgrow the day they stand for (tree_model.py:139).         *)
THEOREM AdvisorTyped == Spec => []TypeOK
<1>1. AdvisorInv => TypeOK
  <2> SUFFICES ASSUME AdvisorInv PROVE TypeOK
    OBVIOUS
  <2>1. \A i \in DOMAIN rows : rows[i] \in RowType
    <3> TAKE i \in DOMAIN rows
    <3>1. rows[i] \in StoredRow /\ rows[i].ts <= now /\ now \in Nat
          /\ (rows[i].realized # None => rows[i].realized \in 0..now)
      BY DEF AdvisorInv, Shape, Table
    <3>2. QED
      BY <3>1 DEF StoredRow, RowType
  <2>2. rows \in Seq(RowType)
    BY <2>1 DEF AdvisorInv, Table
  <2>3. QED
    BY <2>2 DEF AdvisorInv, Shape, Table, TypeOK
<1>2. QED
  BY <1>1, AdvisorCorrect, PTL

(* ScoredNearTarget: a row is scored with a price the asset had within the    *)
(* tolerance of the target, whatever candle find_realized_close chose.        *)
THEOREM ScoresAreNear == Spec => []ScoredNearTarget
<1>1. AdvisorInv => ScoredNearTarget
  BY DEF AdvisorInv
<1>2. QED
  BY <1>1, AdvisorCorrect, PTL

(* NoneFallsBetweenCandles: with half a bar of tolerance no target falls      *)
(* between two candles, so a backfill that did not fail leaves no row behind   *)
(* that it could have scored.                                                *)
THEOREM NoneLeftOut == Spec => []NoneFallsBetweenCandles
<1>1. AdvisorInv => NoneFallsBetweenCandles
  BY DEF AdvisorInv, Loop, Due, NoneFallsBetweenCandles
<1>2. QED
  BY <1>1, AdvisorCorrect, PTL

(* ScoredOnceAfterHorizon: no later cycle scores a row again, and none before *)
(* its horizon has elapsed.                                                  *)
THEOREM ScoredOnce == Spec => ScoredOnceAfterHorizon
<1> DEFINE Once == \A i \in DOMAIN rows :
          rows'[i] # rows[i] => rows[i].realized = None /\ Target(rows[i]) <= now
<1>1. AdvisorInv /\ [Next]_vars => Once
  <2> SUFFICES ASSUME AdvisorInv, [Next]_vars PROVE Once
    OBVIOUS
  <2>1. CASE ScoreRow
    <3> DEFINE i == CHOOSE n \in todo : \A m \in todo : n <= m
    <3>1. i \in DOMAIN rows /\ rows[i].realized = None
      BY <2>1, FirstOfTodo DEF ScoreRow
    <3>2. \A j \in DOMAIN rows : j # i => rows'[j] = rows[j]
      BY <2>1 DEF ScoreRow
    <3>3. rows' # rows => Elapsed(rows[i])
      BY <2>1 DEF ScoreRow
    <3> HIDE DEF i
    <3>4. Elapsed(rows[i]) => Target(rows[i]) <= now
      <4>1. snap.at \in Nat /\ snap.at <= now /\ now \in Nat
        BY <2>1 DEF AdvisorInv, Shape, Moments, ScoreRow
      <4>2. Target(rows[i]) \in Nat
        BY <3>1, RowFacts DEF AdvisorInv
      <4>3. QED
        BY <4>1, <4>2 DEF Elapsed
    <3>5. QED
      BY <3>1, <3>2, <3>3, <3>4
  <2>2. CASE Predict
    <3>1. rows \in Seq(StoredRow)
      BY DEF AdvisorInv, Table
    <3>2. \A j \in DOMAIN rows : rows'[j] = rows[j]
      BY <2>2, <3>1 DEF Predict
    <3>3. QED
      BY <3>2
  <2>3. CASE UNCHANGED rows
    BY <2>3
  <2>4. QED
    BY <2>1, <2>2, <2>3 DEF Next, vars, Tick, GetSnapshot, Stamp, ReadPending, BackfillDone,
       BackfillFails, Abort, Restart
<1>2. Spec => [][Once]_vars
  BY <1>1, AdvisorCorrect, PTL DEF Spec
<1>3. QED
  BY <1>2 DEF ScoredOnceAfterHorizon

-------------------------------------------------------------------------------
(* The verdict of drift_check.                                               *)

(* Products keep an order, and an order of products with a common positive   *)
(* factor is one of the other factors.                                       *)
LEMMA TimesKeeps ==
    ASSUME NEW a \in Nat, NEW b \in Int, NEW c \in Int, b <= c
    PROVE  a * b <= a * c
<1>1. a * (c - b) >= 0
  <2>1. c - b \in Nat
    OBVIOUS
  <2>. QED  BY <2>1
<1>2. a * (c - b) = a * c - a * b
  OBVIOUS
<1>3. a * b \in Int /\ a * c \in Int
  OBVIOUS
<1>. QED  BY <1>1, <1>2, <1>3

LEMMA TimesCancels ==
    ASSUME NEW a \in Nat, NEW b \in Int, NEW c \in Int, a * b < a * c
    PROVE  b < c
<1>1. c <= b => a * c <= a * b
  BY TimesKeeps
<1>2. a * b \in Int /\ a * c \in Int
  OBVIOUS
<1>. QED  BY <1>1, <1>2

(* d is the distance to the mean, h the hits, e the misses: moving one hit   *)
(* to the misses moves the squared distance up by more than the variance, as *)
(* long as the accuracy is below the mean (d > 0).                           *)
LEMMA FartherThanWider ==
    ASSUME NEW d \in Nat \ {0}, NEW e \in Nat, NEW h \in Nat, d <= 100 * e,
           NEW W \in Nat
    PROVE  (d * d) * (W + 10000 * ((h - 1) * (e + 1)))
              <= ((d + 100) * (d + 100)) * (W + 10000 * (h * e))
<1> DEFINE sq == d * d
           he == h * e
           sqh == sq * h
           P == d * he
<1>1. sq \in Nat /\ he \in Nat /\ sqh \in Nat /\ P \in Nat
  OBVIOUS
<1>2. sqh <= 100 * P
  <2>1. (h * d) * d <= (h * d) * (100 * e)
    BY TimesKeeps
  <2>2. (h * d) * d = sqh
    OBVIOUS
  <2>3. (h * d) * (100 * e) = 100 * P
    OBVIOUS
  <2>. QED  BY <2>1, <2>2, <2>3
<1>3. (d * d) * (W + 10000 * ((h - 1) * (e + 1)))
        = sq * W + 10000 * (sq * he) + 10000 * sqh - 10000 * (sq * e) - 10000 * sq
  <2>1. (h - 1) * (e + 1) = he + h - e - 1
    OBVIOUS
  <2>2. sq * (W + 10000 * (he + h - e - 1))
          = sq * W + 10000 * (sq * he) + 10000 * (sq * h) - 10000 * (sq * e) - 10000 * sq
    <3> HIDE DEF sq, he
    <3>. QED  BY <1>1
  <2>. QED  BY <2>1, <2>2
<1>4. ((d + 100) * (d + 100)) * (W + 10000 * (h * e))
        = sq * W + 10000 * (sq * he) + 200 * (d * W) + 2000000 * P + 10000 * W + 100000000 * he
  <2>1. (d + 100) * (d + 100) = sq + 200 * d + 10000
    OBVIOUS
  <2>2. (sq + 200 * d + 10000) * (W + 10000 * he)
          = sq * W + 10000 * (sq * he) + 200 * (d * W) + 2000000 * (d * he) + 10000 * W
             + 100000000 * he
    <3> HIDE DEF sq, he
    <3>. QED  BY <1>1
  <2>. QED  BY <2>1, <2>2
<1>5. /\ sq * W \in Nat /\ sq * he \in Nat /\ sq * e \in Nat /\ d * W \in Nat
  BY <1>1
<1> DEFINE x == sq * W
           y == sq * he
           z == sq * e
           u == d * W
<1>6. x \in Nat /\ y \in Nat /\ z \in Nat /\ u \in Nat
  BY <1>5
<1>7. x + 10000 * y + 10000 * sqh - 10000 * z - 10000 * sq
        <= x + 10000 * y + 200 * u + 2000000 * P + 10000 * W + 100000000 * he
  <2> HIDE DEF x, y, z, u, sqh, sq, P, he
  <2>. QED  BY <1>1, <1>2, <1>6
<1>. QED  BY <1>3, <1>4, <1>7

(* What is below the mean by t half deviations stays so with one hit fewer.  *)
LEMMA BelowStays ==
    ASSUME NEW n \in Nat \ {0}, NEW hits \in 1..n, NEW t \in Nat, Below(n, hits, t)
    PROVE  Below(n, hits - 1, t)
<1> DEFINE d == BacktestMean * n - 100 * hits
           e == n - hits
           W == BacktestVar * n * n * n
           k == t * t
           far == d * d
           farther == (d + 100) * (d + 100)
           v == W + 10000 * (hits * e)
           w == W + 10000 * ((hits - 1) * (e + 1))
<1>1. /\ BacktestMean \in 0..100 /\ BacktestVar \in Nat /\ hits \in Nat \ {0} /\ e \in Nat
      /\ hits - 1 \in Nat
  BY DriftAssumption
<1>2. BacktestMean * n \in Nat /\ BacktestMean * n <= 100 * n
  <2>1. n * BacktestMean <= n * 100
    BY <1>1, TimesKeeps
  <2>. QED  BY <1>1, <2>1
<1>3. W \in Nat
  BY <1>1
<1>4. d \in Nat \ {0} /\ d <= 100 * e
  BY <1>1, <1>2 DEF Below
<1>5. /\ Variance(n, hits) = v /\ Distance(n, hits) = far * n
      /\ Variance(n, hits - 1) = w /\ Distance(n, hits - 1) = farther * n
  <2>1. Variance(n, hits) = v
    <3>1. 10000 * hits * (n - hits) = 10000 * (hits * e)
      BY <1>1
    <3>. QED  BY <3>1 DEF Variance
  <2>2. Variance(n, hits - 1) = w
    <3>1. n - (hits - 1) = e + 1
      BY <1>1
    <3>2. 10000 * (hits - 1) * (n - (hits - 1)) = 10000 * ((hits - 1) * (e + 1))
      BY <1>1, <3>1
    <3>. QED  BY <3>2 DEF Variance
  <2>3. BacktestMean * n - 100 * (hits - 1) = d + 100
    BY <1>1, <1>2
  <2>. QED  BY <2>1, <2>2, <2>3 DEF Distance
<1>6. k * v < 4 * (far * n) /\ 100 * (hits - 1) < BacktestMean * n
  BY <1>1, <1>2, <1>5 DEF Below
<1>7. far * w <= farther * v
  BY <1>1, <1>3, <1>4, FartherThanWider
<1>8. /\ far \in Nat \ {0} /\ farther \in Nat \ {0} /\ k \in Nat /\ v \in Nat /\ w \in Nat
  <2>1. far \in Nat \ {0} /\ farther \in Nat \ {0}
    BY <1>4
  <2>2. hits * e \in Nat /\ (hits - 1) * (e + 1) \in Nat
    BY <1>1
  <2>. QED  BY <1>3, <2>1, <2>2
<1> HIDE DEF d, e, W, k, far, farther, v, w
<1>9. far * (k * w) < far * (4 * (farther * n))
  <2>1. k * (far * w) <= k * (farther * v)
    BY <1>7, <1>8, TimesKeeps
  <2>2. k * (far * w) = far * (k * w) /\ k * (farther * v) = farther * (k * v)
    BY <1>8
  <2>3. farther * (k * v) < farther * (4 * (far * n))
    <3>1. k * v \in Nat /\ 4 * (far * n) \in Nat /\ k * v + 1 <= 4 * (far * n)
      BY <1>6, <1>8
    <3>2. farther * (k * v + 1) <= farther * (4 * (far * n))
      BY <1>8, <3>1, TimesKeeps
    <3>3. farther * (k * v + 1) = farther * (k * v) + farther
      BY <1>8, <3>1
    <3>4. farther * (k * v) \in Nat /\ farther * (4 * (far * n)) \in Nat
      BY <1>8, <3>1
    <3>. QED  BY <1>8, <3>2, <3>3, <3>4
  <2>4. farther * (4 * (far * n)) = far * (4 * (farther * n))
    BY <1>8
  <2>5. far * (k * w) \in Nat /\ farther * (k * v) \in Nat /\ far * (4 * (farther * n)) \in Nat
    BY <1>8
  <2>. QED  BY <2>1, <2>2, <2>3, <2>4, <2>5
<1>10. k * w < 4 * (farther * n)
  BY <1>8, <1>9, TimesCancels
<1>. QED  BY <1>5, <1>6, <1>10 DEF Below, k

LEMMA VerdictFollowsHits ==
    ASSUME NEW n \in Nat, NEW hits \in 1..n, Variance(n, hits - 1) # 0
    PROVE  ComputeVerdict(n, hits) <= ComputeVerdict(n, hits - 1)
<1>1. n \in Nat \ {0}
  OBVIOUS
<1>2. /\ Below(n, hits, 5) => Below(n, hits - 1, 5)
      /\ Below(n, hits, 3) => Below(n, hits - 1, 3)
  BY <1>1, BelowStays
<1>. QED  BY <1>2 DEF ComputeVerdict

(* A prediction counts as correct only once it is scored.                    *)
CorrectIsScored == \A i \in DOMAIN rows : rows[i].correct => rows[i].realized # None

LEMMA CorrectIsScoredKept ==
    ASSUME AdvisorInv, CorrectIsScored, [Next]_vars
    PROVE  CorrectIsScored'
<1>1. CASE ScoreRow
  <2> DEFINE i == CHOOSE n \in todo : \A m \in todo : n <= m
  <2>1. i \in DOMAIN rows
    BY <1>1, FirstOfTodo DEF ScoreRow
  <2>2. CASE rows' = rows
    BY <2>2 DEF CorrectIsScored
  <2>3. CASE rows' # rows
    <3>1. pc = "score" /\ Elapsed(rows[i])
      BY <1>1, <2>3 DEF ScoreRow
    <3>2. PICK k \in RealizedCandle(snap.candles, Target(rows[i])), correct \in BOOLEAN :
              rows' = [rows EXCEPT ![i] = Scored(rows[i], k, correct)]
      BY <1>1, <2>3 DEF ScoreRow
    <3>3. Scored(rows[i], k, correct).realized # None
      BY <2>1, <3>1, ScoreIsNear
    <3> HIDE DEF i
    <3>. QED  BY <2>1, <3>2, <3>3 DEF CorrectIsScored
  <2>. QED  BY <2>2, <2>3
<1>2. CASE Predict
  <2> DEFINE r == [ts |-> now, realized |-> None, correct |-> FALSE]
  <2>1. CASE rows' = rows
    BY <2>1 DEF CorrectIsScored
  <2>2. CASE rows' = Append(rows, r)
    <3>1. r \in StoredRow /\ ~r.correct
      BY DEF StoredRow, AdvisorInv, Shape
    <3>2. rows \in Seq(StoredRow)
      BY DEF AdvisorInv, Table
    <3> HIDE DEF r
    <3>. QED  BY <2>2, <3>1, <3>2 DEF CorrectIsScored
  <2>. QED  BY <1>2, <2>1, <2>2 DEF Predict
<1>3. CASE UNCHANGED rows
  BY <1>3 DEF CorrectIsScored
<1>. QED  BY <1>1, <1>2, <1>3 DEF Next, vars, Tick, GetSnapshot, Stamp, ReadPending,
              BackfillDone, BackfillFails, Abort, Restart

(* MoreHitsNeverWorse: whatever the backtest and however many predictions    *)
(* were scored, one more that came true never turns the exit code of         *)
(* drift_check for the worse, its branch without variance apart.             *)
THEOREM MoreHitsHelp == Spec => []MoreHitsNeverWorse
<1>1. Init => CorrectIsScored
  BY DEF Init, CorrectIsScored
<1>2. AdvisorInv /\ CorrectIsScored /\ [Next]_vars => CorrectIsScored'
  BY CorrectIsScoredKept
<1>3. AdvisorInv /\ CorrectIsScored => MoreHitsNeverWorse
  <2> SUFFICES ASSUME AdvisorInv, CorrectIsScored PROVE MoreHitsNeverWorse
    OBVIOUS
  <2> DEFINE scored  == {i \in Recent(MaxAge) : rows[i].realized # None}
             correct == {i \in Recent(MaxAge) : rows[i].correct}
  <2>1. IsFiniteSet(scored) /\ correct \subseteq scored
    <3>1. DOMAIN rows = 1..Len(rows) /\ Len(rows) \in Nat
      BY DEF AdvisorInv, Table
    <3>2. IsFiniteSet(1..Len(rows)) /\ scored \subseteq 1..Len(rows)
      BY <3>1, FS_Interval DEF Recent
    <3>3. IsFiniteSet(scored)
      BY <3>2, FS_Subset
    <3>4. correct \subseteq scored
      BY DEF CorrectIsScored, Recent
    <3>. QED  BY <3>3, <3>4
  <2>2. Cardinality(scored) \in Nat /\ Cardinality(correct) <= Cardinality(scored)
    BY <2>1, FS_CardinalityType, FS_Subset
  <2>3. ScoredCount(MaxAge) \in Nat /\ CorrectCount(MaxAge) <= ScoredCount(MaxAge)
    BY <2>2 DEF ScoredCount, CorrectCount
  <2>4. \A n \in ScoredCount(MaxAge)..(ScoredCount(MaxAge) + 3) : \A hits \in 1..n :
            Variance(n, hits - 1) # 0 => ComputeVerdict(n, hits) <= ComputeVerdict(n, hits - 1)
    BY <2>3, VerdictFollowsHits
  <2>. QED  BY <2>3, <2>4 DEF MoreHitsNeverWorse
<1>. QED  BY <1>1, <1>2, <1>3, AdvisorCorrect, PTL DEF Spec

-------------------------------------------------------------------------------
(* The open interest of the day before.                                      *)

IsLast(t) == t \in predicted /\ \A s \in predicted : s <= t

(* The buffer holds the predictions of this process that are within OiBuffer  *)
(* of its last one, and the last one looked for its reading among them.       *)
Readings ==
    /\ predicted = {} => oi = {} /\ foundOi
    /\ pc # "idle" => \A s \in predicted : s <= snap.asked
    /\ \A t \in predicted : IsLast(t) =>
          /\ oi = {s \in predicted : s >= t - OiBuffer}
          /\ foundOi = (Oi24hAgo(oi, t) # {})

(* A set of moments up to a bound that is not empty has a latest one.         *)
LEMMA Latest ==
    ASSUME NEW b \in Nat, NEW T \in SUBSET (0..b), T # {}
    PROVE  \E m \in T : \A n \in T : n <= m
<1> DEFINE back == {b - n : n \in T}
<1>1. back \in SUBSET Nat /\ back # {}
  <2>1. \A n \in T : b - n \in Nat
    <3> TAKE n \in T
    <3>1. n \in 0..b
      OBVIOUS
    <3>. QED  BY <3>1
  <2>. QED  BY <2>1
<1>2. PICK g \in back : \A h \in back : g <= h
  BY <1>1, Least
<1>3. PICK m \in T : g = b - m
  BY <1>2
<1>4. \A n \in T : n <= m
  <2> TAKE n \in T
  <2>1. n \in 0..b /\ m \in 0..b /\ b - m <= b - n
    BY <1>2, <1>3
  <2>. QED  BY <2>1
<1>. QED  BY <1>4

LEMMA LastIsLatest ==
    ASSUME AdvisorInv, predicted # {}
    PROVE  /\ \E t \in predicted : IsLast(t)
           /\ \A s, t : IsLast(s) /\ IsLast(t) => s = t
<1>1. now \in Nat /\ predicted \in SUBSET (0..now)
  BY DEF AdvisorInv, Shape
<1>2. \E t \in predicted : \A s \in predicted : s <= t
  BY <1>1, Latest
<1>3. \A s, t : IsLast(s) /\ IsLast(t) => s = t
  <2> TAKE s, t
  <2> HAVE IsLast(s) /\ IsLast(t)
  <2>1. s \in 0..now /\ t \in 0..now /\ s <= t /\ t <= s
    BY <1>1 DEF IsLast
  <2>. QED  BY <2>1
<1>. QED  BY <1>2, <1>3 DEF IsLast

LEMMA ReadingsKept ==
    ASSUME AdvisorInv, Readings, [Next]_vars
    PROVE  Readings'
<1>1. now \in Nat /\ oi \subseteq 0..now /\ predicted \subseteq 0..now
      /\ OiBuffer \in Nat
  BY AdvisorAssumption DEF AdvisorInv, Shape
<1>2. CASE Predict
  <2> DEFINE t == snap.at
  <2>1. t \in Nat /\ \A s \in predicted : s <= t
    <3>1. /\ snap.asked \in Nat /\ snap.at \in Nat /\ snap.asked <= snap.at
          /\ \A s \in predicted : s <= snap.asked
      BY <1>2 DEF AdvisorInv, Shape, Moments, Readings, Predict
    <3>. QED  BY <1>1, <3>1
  <2>2. /\ predicted' = predicted \cup {t} /\ oi' = {s \in oi \cup {t} : s >= t - OiBuffer}
        /\ foundOi' = (Oi24hAgo(oi', t) # {}) /\ pc' = "idle"
    BY <1>2 DEF Predict, OiAfter
  <2> HIDE DEF t
  <2>3. \A s \in predicted' : IsLast(s)' => s = t
    BY <1>1, <2>1, <2>2 DEF IsLast
  <2>4. oi' = {s \in predicted' : s >= t - OiBuffer}
    <3>1. CASE predicted = {}
      BY <2>2, <3>1 DEF Readings
    <3>2. CASE predicted # {}
      <4>1. PICK m \in predicted : IsLast(m)
        BY <3>2, LastIsLatest
      <4>2. oi = {s \in predicted : s >= m - OiBuffer}
        BY <4>1 DEF Readings
      <4>3. m \in Nat /\ m <= t
        BY <1>1, <2>1
      <4>4. \A s \in predicted : s \in Nat /\ (s >= t - OiBuffer => s >= m - OiBuffer)
        BY <1>1, <2>1, <4>3
      <4>. QED  BY <2>2, <4>2, <4>4
    <3>. QED  BY <3>1, <3>2
  <2>. QED  BY <2>2, <2>3, <2>4 DEF Readings
<1>3. CASE Restart
  <2>1. predicted' = {} /\ oi' = {} /\ foundOi' = TRUE
    BY <1>3 DEF Restart
  <2>. QED  BY <2>1 DEF Readings
<1>4. CASE GetSnapshot
  <2>1. snap'.asked = now /\ oi' = oi /\ predicted' = predicted /\ foundOi' = foundOi
    BY <1>4 DEF GetSnapshot, buffers
  <2>2. \A s \in predicted' : s <= snap'.asked
    BY <1>1, <2>1
  <2>. QED  BY <2>1, <2>2 DEF Readings, IsLast, Oi24hAgo, Gap
<1>5. CASE Abort
  BY <1>5 DEF Abort, buffers, Readings, IsLast, Oi24hAgo, Gap
<1>6. CASE /\ UNCHANGED buffers
           /\ pc' # "idle" => pc # "idle" /\ snap'.asked = snap.asked
  BY <1>6 DEF buffers, Readings, IsLast, Oi24hAgo, Gap
<1>7. CASE Stamp \/ BackfillFails
  <2>1. pc # "idle" /\ snap'.asked = snap.asked /\ UNCHANGED buffers
    BY <1>7 DEF Stamp, BackfillFails, AdvisorInv, Shape
  <2>. QED  BY <1>6, <2>1
<1>8. CASE Tick \/ ReadPending \/ ScoreRow \/ BackfillDone \/ UNCHANGED vars
  <2>1. UNCHANGED buffers /\ snap' = snap /\ (pc' # "idle" => pc # "idle")
    BY <1>8 DEF Tick, ReadPending, ScoreRow, BackfillDone, vars, locals
  <2>. QED  BY <1>6, <2>1
<1>. QED  BY <1>2, <1>3, <1>4, <1>5, <1>7, <1>8 DEF Next

(* Of the readings within tolerance one is closest to the target.            *)
LEMMA ClosestReading ==
    ASSUME NEW R \in SUBSET Nat, NEW t \in Nat, NEW s \in R, Gap(s, t - OiLag) <= OiTol
    PROVE  Oi24hAgo(R, t) # {}
<1> DEFINE near == {r \in R : Gap(r, t - OiLag) <= OiTol}
           gaps == {Gap(r, t - OiLag) : r \in near}
<1>1. t - OiLag \in Int
  BY AdvisorAssumption
<1>2. \A r \in near : Gap(r, t - OiLag) \in Nat
  BY <1>1 DEF Gap
<1>3. PICK g \in gaps : \A h \in gaps : g <= h
  <2>1. gaps \in SUBSET Nat
    BY <1>2
  <2>2. Gap(s, t - OiLag) \in gaps
    OBVIOUS
  <2> HIDE DEF gaps, near
  <2>. QED  BY <2>1, <2>2, Least
<1>4. PICK c \in near : g = Gap(c, t - OiLag)
  BY <1>3
<1>5. \A r \in near : Gap(c, t - OiLag) <= Gap(r, t - OiLag)
  BY <1>3, <1>4
<1>6. c \in Oi24hAgo(R, t)
  BY <1>4, <1>5 DEF Oi24hAgo
<1>. QED  BY <1>6

(* The latest prediction before the end of the window around the target is    *)
(* in it and still in the buffer: its successor comes after the window and   *)
(* not much later.                                                           *)
LEMMA SteadyFinds ==
    ASSUME AdvisorInv, Readings, predicted # {}, Steady
    PROVE  foundOi
<1> DEFINE far  == OiBuffer - OiLag + OiTol
           last == CHOOSE t \in predicted : \A s \in predicted : s <= t
           early == {s \in predicted : s <= last - OiLag + OiTol}
<1>1. /\ OiBuffer \in Nat /\ OiLag \in Nat /\ OiTol \in Nat
      /\ OiLag <= OiBuffer /\ OiBuffer <= OiLag + OiTol
  BY AdvisorAssumption
<1>2. now \in Nat /\ predicted \in SUBSET (0..now)
  BY DEF AdvisorInv, Shape
<1>3. last \in predicted /\ IsLast(last)
  BY LastIsLatest DEF IsLast
<1>4. /\ \E s \in predicted : s <= last - OiLag + OiTol
      /\ \A s \in predicted \ {last} : \E t \in predicted : s < t /\ t - s <= far
  BY DEF Steady
<1> HIDE DEF last
<1>5. PICK a \in early : \A s \in early : s <= a
  BY <1>2, <1>4, Latest
<1>6. a \in predicted /\ a <= last - OiLag + OiTol /\ a \in Nat /\ last \in Nat
  BY <1>2, <1>3, <1>5
<1>7. a >= last - OiBuffer /\ a >= last - OiLag - OiTol
  <2>1. CASE a = last
    BY <1>1, <1>6, <2>1
  <2>2. CASE a # last
    <3>1. PICK t \in predicted : a < t /\ t - a <= far
      BY <1>4, <1>6, <2>2
    <3>2. t \in Nat /\ t > last - OiLag + OiTol
      <4>1. t \in Nat
        BY <1>2
      <4>2. t \notin early
        BY <1>5, <1>6, <3>1, <4>1
      <4>. QED  BY <1>1, <1>6, <4>1, <4>2
    <3>. QED  BY <1>1, <1>6, <3>1, <3>2
  <2>. QED  BY <2>1, <2>2
<1>8. a \in oi
  BY <1>3, <1>6, <1>7 DEF Readings
<1>9. Gap(a, last - OiLag) <= OiTol
  BY <1>1, <1>6, <1>7 DEF Gap
<1>10. oi \in SUBSET Nat
  BY <1>2 DEF AdvisorInv, Shape
<1>11. Oi24hAgo(oi, last) # {}
  BY <1>6, <1>8, <1>9, <1>10, ClosestReading
<1>. QED  BY <1>3, <1>11 DEF Readings

(* OiReadingWhenSteady: predictions that follow each other no farther apart  *)
(* than the buffer leaves beyond the lag, and the tolerance, always find the *)
(* open interest of the day before.                                          *)
THEOREM SteadyHasReading == Spec => []OiReadingWhenSteady
<1>1. Init => Readings
  BY DEF Init, Readings
<1>2. AdvisorInv /\ Readings /\ [Next]_vars => Readings'
  BY ReadingsKept
<1>3. AdvisorInv /\ Readings => OiReadingWhenSteady
  BY SteadyFinds DEF OiReadingWhenSteady
<1>. QED  BY <1>1, <1>2, <1>3, AdvisorCorrect, PTL DEF Spec
===============================================================================
