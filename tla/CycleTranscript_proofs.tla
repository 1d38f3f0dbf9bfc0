------------------------ MODULE CycleTranscript_proofs ------------------------
(***************************************************************************)
(* Proofs about CycleTranscript, for every model the two APIs can be: any     *)
(* replies, any tokens billed, any number of turns and cycles.               *)
(***************************************************************************)
EXTENDS CycleTranscript, SequenceTheorems, FiniteSetTheorems, WellFoundedInduction, TLAPS

(* Induction over the numbers, and over sequences, as facts about sets.       *)
LEMMA NatSet ==
    ASSUME NEW Good \in SUBSET Nat, 0 \in Good, \A n \in Good : n + 1 \in Good
    PROVE  Good = Nat
<1> SUFFICES ASSUME Nat \ Good # {} PROVE FALSE
  OBVIOUS
<1>1. PICK m \in Nat \ Good : \A n \in Nat \ Good : ~(<<n, m>> \in OpToRel(<, Nat))
  BY NatLessThanWellFounded, WFMin
<1>2. \A n \in Nat \ Good : ~(n < m)
  BY <1>1 DEF OpToRel
<1>3. m \in Nat /\ m \notin Good
  BY <1>1
<1>4. m - 1 \in Nat /\ m - 1 < m /\ (m - 1) + 1 = m
  <2>1. m # 0
    BY <1>3
  <2>. QED  BY <1>3, <2>1
<1>5. m - 1 \in Good
  BY <1>2, <1>4
<1>. QED  BY <1>3, <1>4, <1>5

LEMMA SeqSet ==
    ASSUME NEW S, NEW Good \in SUBSET Seq(S), <<>> \in Good,
           \A s \in Good, x \in S : Append(s, x) \in Good
    PROVE  Good = Seq(S)
<1> DEFINE Reached == {n \in Nat : \A s \in Seq(S) : Len(s) = n => s \in Good}
<1>1. 0 \in Reached
  <2>1. \A s \in Seq(S) : Len(s) = 0 => s = <<>>
    OBVIOUS
  <2>. QED  BY <2>1
<1>2. \A n \in Reached : n + 1 \in Reached
  <2> TAKE n \in Reached
  <2>0. n + 1 \in Nat
    OBVIOUS
  <2> SUFFICES ASSUME NEW s \in Seq(S), Len(s) = n + 1 PROVE s \in Good
    BY <2>0
  <2>1. PICK r \in Seq(S), x \in S : s = Append(r, x)
    <3>1. s # <<>>
      OBVIOUS
    <3>. QED  BY <3>1, SequenceEmptyOrAppend
  <2>2. Len(r) = n
    BY <2>1
  <2>. QED  BY <2>1, <2>2
<1> HIDE DEF Reached
<1>3. Reached \in SUBSET Nat
  BY DEF Reached
<1>4. Reached = Nat
  BY <1>1, <1>2, <1>3, NatSet
<1>5. \A s \in Seq(S) : Len(s) \in Nat
  OBVIOUS
<1>6. \A s \in Seq(S) : s \in Good
  BY <1>4, <1>5 DEF Reached
<1>. QED  BY <1>6

-------------------------------------------------------------------------------
(* A function by recursion on an interval: what FlattenSeq and OfType are.     *)
Runs(X, first, next, N, g) ==
    /\ g \in [0..N -> X] /\ g[0] = first
    /\ \A n \in 0..(N - 1) : g[n + 1] = next[n][g[n]]

LEMMA RunExists ==
    ASSUME NEW X, NEW first \in X, NEW next \in [Nat -> [X -> X]], NEW N \in Nat
    PROVE  \E g : Runs(X, first, next, N, g)
<1> DEFINE Good == {n \in Nat : \E g : Runs(X, first, next, n, g)}
<1>1. 0 \in Good
  <2> DEFINE g == [n \in 0..0 |-> first]
  <2>1. Runs(X, first, next, 0, g)
    BY DEF Runs
  <2>. QED  BY <2>1
<1>2. \A n \in Good : n + 1 \in Good
  <2> TAKE n \in Good
  <2>0. n + 1 \in Nat
    OBVIOUS
  <2> PICK g : Runs(X, first, next, n, g)
    OBVIOUS
  <2> g \in [0..n -> X] /\ n \in Nat
    BY DEF Runs
  <2> DEFINE h == [k \in 0..(n + 1) |-> IF k = n + 1 THEN next[n][g[n]] ELSE g[k]]
  <2>1. g[n] \in X /\ next[n][g[n]] \in X
    OBVIOUS
  <2>2. h \in [0..(n + 1) -> X]
    BY <2>1
  <2>3. \A k \in 0..n : h[k] = g[k]
    OBVIOUS
  <2>4. h[n + 1] = next[n][g[n]]
    OBVIOUS
  <2> HIDE DEF h
  <2>5. \A k \in 0..n : h[k + 1] = next[k][h[k]]
    <3> SUFFICES ASSUME NEW k \in 0..n PROVE h[k + 1] = next[k][h[k]]
      OBVIOUS
    <3>1. CASE k = n
      BY <2>3, <2>4, <3>1
    <3>2. CASE k # n
      <4>1. k \in 0..(n - 1) /\ k + 1 \in 0..n
        BY <3>2
      <4>2. g[k + 1] = next[k][g[k]]
        BY <4>1 DEF Runs
      <4>. QED  BY <2>3, <4>1, <4>2
    <3>. QED  BY <3>1, <3>2
  <2>6. 0..((n + 1) - 1) = 0..n /\ 0 \in 0..n
    OBVIOUS
  <2>7. Runs(X, first, next, n + 1, h)
    BY <2>2, <2>3, <2>5, <2>6 DEF Runs
  <2>. QED  BY <2>0, <2>7
<1> HIDE DEF Good
<1>3. Good = Nat
  BY <1>1, <1>2, NatSet DEF Good
<1>. QED  BY <1>3 DEF Good

(* What a run computes at n depends on the steps before n only.               *)
SameSteps(X, N, f1, f2) == \A n \in 0..(N - 1), x \in X : f1[n][x] = f2[n][x]

LEMMA RunsAgree ==
    ASSUME NEW X, NEW N, NEW M, NEW first, NEW f1, NEW f2, NEW g, NEW h,
           N \in Nat, M \in Nat, N <= M,
           Runs(X, first, f1, N, g), Runs(X, first, f2, M, h),
           SameSteps(X, N, f1, f2)
    PROVE  g[N] = h[N]
<1> DEFINE Good == {n \in Nat : n <= N => g[n] = h[n]}
<1>1. 0 \in Good
  BY DEF Runs
<1>2. \A n \in Good : n + 1 \in Good
  <2> SUFFICES ASSUME NEW n \in Nat, n <= N => g[n] = h[n], n + 1 <= N
               PROVE  g[n + 1] = h[n + 1]
    OBVIOUS
  <2>1. n \in 0..(N - 1) /\ n \in 0..(M - 1) /\ n \in 0..N /\ n <= N
    OBVIOUS
  <2>2. g[n] = h[n] /\ g[n] \in X
    BY <2>1 DEF Runs
  <2>. QED  BY <2>1, <2>2 DEF Runs, SameSteps
<1> HIDE DEF Good
<1>3. Good = Nat
  BY <1>1, <1>2, NatSet DEF Good
<1>4. N \in Good /\ N <= N
  BY <1>3
<1>. QED  BY <1>4 DEF Good

(* FlattenSeq as such a function.                                            *)
FlatStep(S, ss) ==
    [n \in Nat |-> [x \in Seq(S) |-> IF n < Len(ss) THEN x \o ss[n + 1] ELSE x]]

LEMMA FlattenRuns ==
    ASSUME NEW S, NEW ss \in Seq(Seq(S))
    PROVE  \E g :
              Runs(Seq(S), <<>>, FlatStep(S, ss), Len(ss), g) /\ FlattenSeq(ss) = g[Len(ss)]
<1> DEFINE N == Len(ss)
<1>1. FlatStep(S, ss) \in [Nat -> [Seq(S) -> Seq(S)]] /\ <<>> \in Seq(S) /\ N \in Nat
  <2>1. \A n \in Nat, x \in Seq(S) :
           (IF n < Len(ss) THEN x \o ss[n + 1] ELSE x) \in Seq(S)
    <3> TAKE n \in Nat, x \in Seq(S)
    <3>1. n < Len(ss) => ss[n + 1] \in Seq(S)
      OBVIOUS
    <3>. QED  BY <3>1
  <2>. QED  BY <2>1 DEF FlatStep
<1>2. PICK g : Runs(Seq(S), <<>>, FlatStep(S, ss), N, g)
  BY <1>1, RunExists
<1> g \in [0..N -> Seq(S)]
  BY <1>2 DEF Runs
<1>3. CASE N = 0
  <2>1. ss = <<>> /\ FlattenSeq(ss) = ss
    BY <1>3 DEF FlattenSeq
  <2>. QED  BY <1>2, <1>3, <2>1 DEF Runs
<1>4. CASE N # 0
  <2> DEFINE Step(f) == [i \in 1..N |-> IF i = 1 THEN ss[i] ELSE f[i - 1] \o ss[i]]
             F == CHOOSE f : f = Step(f)
             h == [i \in 1..N |-> g[i]]
  <2>1. FlattenSeq(ss) = F[N]
    BY <1>4 DEF FlattenSeq
  <2>2. \A n \in 0..(N - 1) : g[n + 1] = g[n] \o ss[n + 1] /\ g[n] \in Seq(S)
    <3> TAKE n \in 0..(N - 1)
    <3>1. n \in 0..N /\ n \in Nat /\ n < N
      OBVIOUS
    <3>2. g[n + 1] = FlatStep(S, ss)[n][g[n]] /\ g[n] \in Seq(S)
      BY <1>2, <3>1 DEF Runs
    <3>. QED  BY <3>1, <3>2 DEF FlatStep
  <2>3. \A i \in 1..N : h[i] = IF i = 1 THEN ss[i] ELSE h[i - 1] \o ss[i]
    <3> TAKE i \in 1..N
    <3>1. CASE i = 1
      <4>1. g[0 + 1] = g[0] \o ss[0 + 1] /\ g[0] = <<>>
        <5>1. 0 \in 0..(N - 1)
          BY <1>4
        <5>. QED  BY <1>2, <2>2, <5>1 DEF Runs
      <4>2. ss[1] \in Seq(S)
        BY <1>4
      <4>. QED  BY <3>1, <4>1, <4>2
    <3>2. CASE i # 1
      <4>1. i - 1 \in 0..(N - 1) /\ i - 1 \in 1..N /\ (i - 1) + 1 = i
        BY <3>2
      <4>2. g[(i - 1) + 1] = g[i - 1] \o ss[(i - 1) + 1]
        BY <2>2, <4>1
      <4>. QED  BY <3>2, <4>1, <4>2
    <3>. QED  BY <3>1, <3>2
  <2>4. h = Step(h)
    BY <2>3
  <2>5. F = Step(F)
    BY <2>4
  <2> HIDE DEF F
  <2>6. \A i \in 1..N : F[i] = IF i = 1 THEN ss[i] ELSE F[i - 1] \o ss[i]
    BY <2>5
  <2> HIDE DEF h
  <2>7. ASSUME NEW n \in Nat, n + 1 <= N => F[n + 1] = h[n + 1], (n + 1) + 1 <= N
        PROVE  F[(n + 1) + 1] = h[(n + 1) + 1]
    <3>1. /\ (n + 1) + 1 \in 1..N /\ (n + 1) + 1 # 1 /\ ((n + 1) + 1) - 1 = n + 1
          /\ n + 1 <= N
      BY <2>7
    <3>. QED  BY <2>3, <2>6, <2>7, <3>1
  <2> DEFINE Good == {n \in Nat : n + 1 <= N => F[n + 1] = h[n + 1]}
  <2>8. 0 \in Good /\ \A n \in Good : n + 1 \in Good
    <3>1. 0 + 1 = 1 /\ 1 \in 1..N
      BY <1>4
    <3>2. F[0 + 1] = h[0 + 1]
      BY <2>3, <2>6, <3>1
    <3>3. \A n \in Nat : n + 1 \in Nat
      OBVIOUS
    <3>. QED  BY <2>7, <3>2, <3>3, Zenon
  <2> HIDE DEF Good
  <2>9. Good = Nat
    <3>1. Good \subseteq Nat
      BY DEF Good
    <3>. QED  BY <2>8, <3>1, NatSet
  <2>10. N - 1 \in Nat /\ (N - 1) + 1 = N /\ N \in 1..N /\ N <= N
    BY <1>4
  <2>11. F[(N - 1) + 1] = h[(N - 1) + 1]
    BY <2>9, <2>10 DEF Good
  <2>. QED  BY <1>2, <2>1, <2>10, <2>11 DEF h
<1>. QED  BY <1>3, <1>4

(* FlattenSeq of one sequence more. *)
LEMMA FlattenEmpty == FlattenSeq(<<>>) = <<>>
BY DEF FlattenSeq

LEMMA FlattenType ==
    ASSUME NEW S, NEW ss \in Seq(Seq(S))
    PROVE  FlattenSeq(ss) \in Seq(S)
<1>1. PICK g : g \in [0..Len(ss) -> Seq(S)] /\ FlattenSeq(ss) = g[Len(ss)]
  BY FlattenRuns DEF Runs
<1>2. Len(ss) \in 0..Len(ss)
  OBVIOUS
<1>. QED  BY <1>1, <1>2

LEMMA FlattenAppend ==
    ASSUME NEW S, NEW ss \in Seq(Seq(S)), NEW s \in Seq(S)
    PROVE  FlattenSeq(Append(ss, s)) = FlattenSeq(ss) \o s
<1> DEFINE tt == Append(ss, s)
           N  == Len(ss)
<1>1. tt \in Seq(Seq(S)) /\ Len(tt) = N + 1 /\ tt[N + 1] = s /\ N \in Nat
  OBVIOUS
<1>2. \A n \in 1..N : tt[n] = ss[n]
  OBVIOUS
<1> HIDE DEF tt
<1>3. PICK g :
         Runs(Seq(S), <<>>, FlatStep(S, ss), N, g) /\ FlattenSeq(ss) = g[N]
  BY FlattenRuns
<1>4. PICK h :
         Runs(Seq(S), <<>>, FlatStep(S, tt), N + 1, h) /\ FlattenSeq(tt) = h[N + 1]
  BY <1>1, FlattenRuns
<1>5. \A n \in 0..(N - 1), x \in Seq(S) : FlatStep(S, ss)[n][x] = FlatStep(S, tt)[n][x]
  <2> TAKE n \in 0..(N - 1), x \in Seq(S)
  <2>1. n \in Nat /\ n + 1 \in 1..N /\ n < N /\ n < N + 1
    OBVIOUS
  <2>. QED  BY <1>1, <1>2, <2>1 DEF FlatStep
<1>6. g[N] = h[N]
  <2> DEFINE M == N + 1
             e == <<>>
             X == Seq(S)
             f1 == FlatStep(S, ss)
             f2 == FlatStep(S, tt)
  <2>1. M \in Nat /\ N \in Nat /\ N <= M
    BY <1>1
  <2>2. Runs(X, e, f1, N, g) /\ Runs(X, e, f2, M, h)
    BY <1>3, <1>4
  <2>3. SameSteps(X, N, f1, f2)
    BY <1>5 DEF SameSteps
  <2> HIDE DEF N, M, X, e, f1, f2
  <2>. QED  BY <2>1, <2>2, <2>3, RunsAgree
<1>7. h[N + 1] = h[N] \o s
  <2>1. N \in 0..((N + 1) - 1) /\ N < N + 1 /\ N \in 0..(N + 1)
    BY <1>1
  <2>2. h[N + 1] = FlatStep(S, tt)[N][h[N]] /\ h[N] \in Seq(S)
    BY <1>4, <2>1 DEF Runs
  <2>. QED  BY <1>1, <2>1, <2>2 DEF FlatStep
<1>. QED  BY <1>3, <1>4, <1>6, <1>7 DEF tt

(* OfType as such a function, and of one block more. *)
KeepStep(S, blocks, type) ==
    [n \in Nat |-> [x \in Seq(S) |->
        IF n < Len(blocks) /\ blocks[n + 1].type = type THEN Append(x, blocks[n + 1]) ELSE x]]

LEMMA OfTypeRuns ==
    ASSUME NEW S, NEW blocks \in Seq(S), NEW type
    PROVE  \E g :
              /\ Runs(Seq(S), <<>>, KeepStep(S, blocks, type), Len(blocks), g)
              /\ OfType(blocks, type) = g[Len(blocks)]
<1> DEFINE N == Len(blocks)
<1>1. KeepStep(S, blocks, type) \in [Nat -> [Seq(S) -> Seq(S)]] /\ <<>> \in Seq(S) /\ N \in Nat
  <2>1. \A n \in Nat, x \in Seq(S) :
           (IF n < Len(blocks) /\ blocks[n + 1].type = type
            THEN Append(x, blocks[n + 1]) ELSE x) \in Seq(S)
    <3> TAKE n \in Nat, x \in Seq(S)
    <3>1. n < Len(blocks) => blocks[n + 1] \in S
      OBVIOUS
    <3>. QED  BY <3>1
  <2>. QED  BY <2>1 DEF KeepStep
<1>2. PICK g : Runs(Seq(S), <<>>, KeepStep(S, blocks, type), N, g)
  BY <1>1, RunExists
<1> g \in [0..N -> Seq(S)]
  BY <1>2 DEF Runs
<1> DEFINE Step(f) == [i \in 0..N |->
              IF i = 0 THEN <<>>
              ELSE IF blocks[i].type = type THEN Append(f[i - 1], blocks[i])
              ELSE f[i - 1]]
           F == CHOOSE f : f = Step(f)
<1>3. OfType(blocks, type) = F[N]
  BY DEF OfType
<1>4. \A i \in 0..N : g[i] = IF i = 0 THEN <<>>
                             ELSE IF blocks[i].type = type THEN Append(g[i - 1], blocks[i])
                             ELSE g[i - 1]
  <2> TAKE i \in 0..N
  <2>1. CASE i = 0
    BY <1>2, <2>1 DEF Runs
  <2>2. CASE i # 0
    <3>1. /\ i - 1 \in 0..(N - 1) /\ (i - 1) + 1 = i /\ i - 1 < N /\ i - 1 \in Nat
          /\ i - 1 \in 0..N
      BY <2>2
    <3>2. g[(i - 1) + 1] = KeepStep(S, blocks, type)[i - 1][g[i - 1]] /\ g[i - 1] \in Seq(S)
      BY <1>2, <3>1 DEF Runs
    <3>. QED  BY <2>2, <3>1, <3>2 DEF KeepStep
  <2>. QED  BY <2>1, <2>2
<1>5. g = Step(g)
  BY <1>4
<1>6. F = Step(F)
  BY <1>5
<1> HIDE DEF F
<1>7. \A i \in 0..N : F[i] = IF i = 0 THEN <<>>
                             ELSE IF blocks[i].type = type THEN Append(F[i - 1], blocks[i])
                             ELSE F[i - 1]
  BY <1>6
<1> DEFINE Good == {n \in Nat : n <= N => F[n] = g[n]}
<1>8. 0 \in Good
  BY <1>1, <1>4, <1>7
<1>9. \A n \in Good : n + 1 \in Good
  <2> SUFFICES ASSUME NEW n \in Nat, n <= N => F[n] = g[n], n + 1 <= N
               PROVE  F[n + 1] = g[n + 1]
    OBVIOUS
  <2>1. n + 1 \in 0..N /\ n + 1 # 0 /\ (n + 1) - 1 = n /\ n <= N
    BY <1>1
  <2>. QED  BY <1>4, <1>7, <2>1
<1> HIDE DEF Good
<1>10. Good = Nat
  BY <1>8, <1>9, NatSet DEF Good
<1>11. \A n \in Nat : n <= N => F[n] = g[n]
  BY <1>10 DEF Good
<1>12. N \in Nat /\ N <= N
  BY <1>1
<1>13. F[N] = g[N]
  BY <1>11, <1>12
<1>. QED  BY <1>2, <1>3, <1>13

LEMMA OfTypeEmpty ==
    ASSUME NEW type
    PROVE  OfType(<<>>, type) = <<>>
<1>1. PICK g : Runs(Seq({}), <<>>, KeepStep({}, <<>>, type), Len(<<>>), g) /\ OfType(<<>>, type) = g[Len(<<>>)]
  BY EmptySeq, OfTypeRuns
<1>. QED  BY <1>1 DEF Runs

LEMMA OfTypeType ==
    ASSUME NEW S, NEW type, NEW b \in Seq(S)
    PROVE  OfType(b, type) \in Seq(S)
<1>1. PICK g : g \in [0..Len(b) -> Seq(S)] /\ OfType(b, type) = g[Len(b)]
  BY OfTypeRuns DEF Runs
<1>2. Len(b) \in 0..Len(b)
  OBVIOUS
<1>. QED  BY <1>1, <1>2

LEMMA OfTypeAppend ==
    ASSUME NEW S, NEW type, NEW b \in Seq(S), NEW x \in S
    PROVE  OfType(Append(b, x), type) =
              IF x.type = type THEN Append(OfType(b, type), x) ELSE OfType(b, type)
<1> DEFINE c == Append(b, x)
           N == Len(b)
<1>1. c \in Seq(S) /\ Len(c) = N + 1 /\ c[N + 1] = x /\ N \in Nat
  OBVIOUS
<1>2. \A n \in 1..N : c[n] = b[n]
  OBVIOUS
<1> HIDE DEF c
<1>3. PICK g :
         Runs(Seq(S), <<>>, KeepStep(S, b, type), N, g) /\ OfType(b, type) = g[N]
  BY OfTypeRuns
<1>4. PICK h :
         Runs(Seq(S), <<>>, KeepStep(S, c, type), N + 1, h) /\ OfType(c, type) = h[N + 1]
  BY <1>1, OfTypeRuns
<1>5. \A n \in 0..(N - 1), y \in Seq(S) : KeepStep(S, b, type)[n][y] = KeepStep(S, c, type)[n][y]
  <2> TAKE n \in 0..(N - 1), y \in Seq(S)
  <2>1. n \in Nat /\ n + 1 \in 1..N /\ n < N /\ n < N + 1
    OBVIOUS
  <2>. QED  BY <1>1, <1>2, <2>1 DEF KeepStep
<1>6. g[N] = h[N]
  <2> DEFINE M == N + 1
             e == <<>>
             X == Seq(S)
             f1 == KeepStep(S, b, type)
             f2 == KeepStep(S, c, type)
  <2>1. M \in Nat /\ N \in Nat /\ N <= M
    BY <1>1
  <2>2. Runs(X, e, f1, N, g) /\ Runs(X, e, f2, M, h)
    BY <1>3, <1>4
  <2>3. SameSteps(X, N, f1, f2)
    BY <1>5 DEF SameSteps
  <2> HIDE DEF N, M, X, e, f1, f2
  <2>. QED  BY <2>1, <2>2, <2>3, RunsAgree
<1>7. h[N + 1] = IF x.type = type THEN Append(h[N], x) ELSE h[N]
  <2>1. N \in 0..((N + 1) - 1) /\ N < N + 1 /\ N \in 0..(N + 1)
    BY <1>1
  <2>2. h[N + 1] = KeepStep(S, c, type)[N][h[N]] /\ h[N] \in Seq(S)
    BY <1>4, <2>1 DEF Runs
  <2>. QED  BY <1>1, <2>1, <2>2 DEF KeepStep
<1>. QED  BY <1>3, <1>4, <1>6, <1>7 DEF c

LEMMA FunctionIsSeq ==
    ASSUME NEW T, NEW n \in Nat, NEW f \in [1..n -> T]
    PROVE  f \in Seq(T) /\ Len(f) = n
OBVIOUS

LEMMA OfTypeConcat ==
    ASSUME NEW S, NEW type, NEW b \in Seq(S)
    PROVE  \A c \in Seq(S) : OfType(b \o c, type) = OfType(b, type) \o OfType(c, type)
<1> DEFINE Good == {c \in Seq(S) : OfType(b \o c, type) = OfType(b, type) \o OfType(c, type)}
<1>0. OfType(b, type) \in Seq(S)
  BY OfTypeEmpty, OfTypeType, OfTypeAppend
<1>1. <<>> \in Good
  <2>1. b \o <<>> = b /\ OfType(b, type) \o <<>> = OfType(b, type)
    BY <1>0, ConcatEmptySeq
  <2>. QED  BY <2>1, OfTypeEmpty, OfTypeType, OfTypeAppend, EmptySeq
<1>2. \A c \in Good, x \in S : Append(c, x) \in Good
  <2> TAKE c \in Good, x \in S
  <2>1. c \in Seq(S) /\ Append(c, x) \in Seq(S) /\ b \o c \in Seq(S)
    OBVIOUS
  <2>2. b \o Append(c, x) = Append(b \o c, x)
    BY <2>1
  <2>3. OfType(c, type) \in Seq(S) /\ OfType(b \o c, type) = OfType(b, type) \o OfType(c, type)
    BY OfTypeEmpty, OfTypeType, OfTypeAppend
  <2>4. OfType(b, type) \o Append(OfType(c, type), x) = Append(OfType(b \o c, type), x)
    BY <1>0, <2>3
  <2>5. OfType(Append(b \o c, x), type) =
           IF x.type = type THEN Append(OfType(b \o c, type), x) ELSE OfType(b \o c, type)
    <3> DEFINE d == b \o c
    <3>1. d \in Seq(S)
      BY <2>1
    <3> HIDE DEF d
    <3>2. OfType(Append(d, x), type) =
             IF x.type = type THEN Append(OfType(d, type), x) ELSE OfType(d, type)
      BY <3>1, OfTypeAppend
    <3>. QED  BY <3>2 DEF d
  <2>6. OfType(Append(c, x), type) =
           IF x.type = type THEN Append(OfType(c, type), x) ELSE OfType(c, type)
    BY <2>1, OfTypeEmpty, OfTypeType, OfTypeAppend
  <2>7. OfType(b \o Append(c, x), type) = OfType(b, type) \o OfType(Append(c, x), type)
    BY <2>2, <2>3, <2>4, <2>5, <2>6
  <2>. QED  BY <2>1, <2>7
<1>3. Good = Seq(S)
  <2> Good \in SUBSET Seq(S)
    OBVIOUS
  <2> HIDE DEF Good
  <2>. QED  BY <1>1, <1>2, SeqSet
<1>. QED  BY <1>3

LEMMA OfTypeAll ==
    ASSUME NEW S, NEW type, \A x \in S : x.type = type
    PROVE  \A b \in Seq(S) : OfType(b, type) = b
<1> DEFINE Good == {b \in Seq(S) : OfType(b, type) = b}
<1>1. <<>> \in Good
  BY OfTypeEmpty, OfTypeType, OfTypeAppend, EmptySeq
<1>2. \A b \in Good, x \in S : Append(b, x) \in Good
  BY OfTypeEmpty, OfTypeType, OfTypeAppend
<1>3. Good = Seq(S)
  <2> Good \in SUBSET Seq(S)
    OBVIOUS
  <2> HIDE DEF Good
  <2>. QED  BY <1>1, <1>2, SeqSet
<1>. QED  BY <1>3

LEMMA OfTypeNone ==
    ASSUME NEW S, NEW type, \A x \in S : x.type # type
    PROVE  \A b \in Seq(S) : OfType(b, type) = <<>>
<1> DEFINE Good == {b \in Seq(S) : OfType(b, type) = <<>>}
<1>1. <<>> \in Good
  BY OfTypeEmpty, OfTypeType, OfTypeAppend, EmptySeq
<1>2. \A b \in Good, x \in S : Append(b, x) \in Good
  BY OfTypeEmpty, OfTypeType, OfTypeAppend
<1>3. Good = Seq(S)
  <2> Good \in SUBSET Seq(S)
    OBVIOUS
  <2> HIDE DEF Good
  <2>. QED  BY <1>1, <1>2, SeqSet
<1>. QED  BY <1>3

LEMMA OfTypeRange ==
    ASSUME NEW S, NEW type
    PROVE  \A b \in Seq(S) : OfType(b, type) \in Seq({x \in S : x.type = type})
<1> DEFINE T == {x \in S : x.type = type}
           Good == {b \in Seq(S) : OfType(b, type) \in Seq(T)}
<1>1. <<>> \in Good
  BY OfTypeEmpty, OfTypeType, OfTypeAppend, EmptySeq
<1>2. \A b \in Good, x \in S : Append(b, x) \in Good
  <2> TAKE b \in Good, x \in S
  <2>1. OfType(b, type) \in Seq(T) /\ b \in Seq(S) /\ (x.type = type => x \in T)
    OBVIOUS
  <2> HIDE DEF T
  <2>2. OfType(Append(b, x), type) \in Seq(T)
    BY <2>1, OfTypeEmpty, OfTypeType, OfTypeAppend
  <2>. QED  BY <2>1, <2>2
<1>3. Good = Seq(S)
  <2> Good \in SUBSET Seq(S)
    OBVIOUS
  <2> HIDE DEF Good
  <2>. QED  BY <1>1, <1>2, SeqSet
<1>. QED  BY <1>3

(* FlattenSeq of sequences of one element. *)
Singles(s) == [i \in DOMAIN s |-> <<s[i]>>]

LEMMA FlattenSingles ==
    ASSUME NEW S
    PROVE  \A s \in Seq(S) : FlattenSeq(Singles(s)) = s
<1> DEFINE Good == {s \in Seq(S) : FlattenSeq(Singles(s)) = s}
<1>1. <<>> \in Good
  <2>1. Singles(<<>>) = <<>>
    BY DEF Singles
  <2>. QED  BY <2>1, EmptySeq, FlattenEmpty, FlattenAppend
<1>2. \A s \in Good, x \in S : Append(s, x) \in Good
  <2> TAKE s \in Good, x \in S
  <2>1. s \in Seq(S) /\ Append(s, x) \in Seq(S) /\ <<x>> \in Seq(S)
    OBVIOUS
  <2>2. Singles(s) \in Seq(Seq(S))
    <3> DEFINE n == Len(s)
    <3>1. Singles(s) \in [1..n -> Seq(S)] /\ n \in Nat
      BY <2>1 DEF Singles
    <3> HIDE DEF n
    <3>. QED  BY <3>1, FunctionIsSeq
  <2>3. Singles(Append(s, x)) = Append(Singles(s), <<x>>)
    BY <2>1 DEF Singles
  <2>4. FlattenSeq(Append(Singles(s), <<x>>)) = FlattenSeq(Singles(s)) \o <<x>>
    BY <2>1, <2>2, FlattenEmpty, FlattenAppend
  <2>5. s \o <<x>> = Append(s, x) /\ FlattenSeq(Singles(s)) = s
    BY <2>1
  <2>. QED  BY <2>1, <2>3, <2>4, <2>5
<1>3. Good = Seq(S)
  <2> Good \in SUBSET Seq(S)
    OBVIOUS
  <2> HIDE DEF Good
  <2>. QED  BY <1>1, <1>2, SeqSet
<1>. QED  BY <1>3

-------------------------------------------------------------------------------
(* The blocks and messages of a conversation, in the agent's shape and sent.   *)
BlockIds == (Nat \X Nat) \cup {"context", "system"}

TextBlocks   == [type : {"text"}, id : BlockIds]
CallBlocks   == [type : {"tool_use"}, id : BlockIds, name : STRING,
                 args : Arguments \cup {"empty"}]
ResultBlocks == [type : {"tool_result"}, id : BlockIds, accepted : BOOLEAN]
ReplyBlocks  == TextBlocks \cup CallBlocks
AnyBlocks    == TextBlocks \cup CallBlocks \cup ResultBlocks

Sendable ==
    [role : {"system", "user", "assistant", "tool"}, blocks : Seq(AnyBlocks), cached : BOOLEAN]

(* Results after a reply: the calls of the reply are answered, and those of the *)
(* messages before it if they were.                                          *)
TurnAfter(ms, i) ==
    {j \in DOMAIN ms : j > i /\ \A k \in (i + 1)..j : ms[k].role # "assistant"}

LEMMA AnsweredGrows ==
    ASSUME NEW w \in Seq(Sendable), EachCallAnswered(w),
           NEW a \in Sendable, NEW t \in Seq(Sendable),
           a.role = "assistant", \A j \in 1..Len(t) : t[j].role # "assistant",
           Ids(OfType(FlattenSeq([j \in 1..Len(t) |-> t[j].blocks]), "tool_result")) = CallsOf(a)
    PROVE  EachCallAnswered((w \o <<a>>) \o t)
<1> DEFINE N == Len(w)
           L == Len(t)
           v == (w \o <<a>>) \o t
<1>1. N \in Nat /\ L \in Nat /\ DOMAIN w = 1..N /\ DOMAIN t = 1..L
  OBVIOUS
<1>2. v \in Seq(Sendable) /\ DOMAIN v = 1..(N + 1 + L)
  OBVIOUS
<1>3. /\ \A i \in 1..N : v[i] = w[i]
      /\ v[N + 1] = a
      /\ \A j \in 1..L : v[N + 1 + j] = t[j]
  OBVIOUS
<1> HIDE DEF N, L, v
<1>4. ASSUME NEW i \in 1..N PROVE ResultsAfter(v, i) = ResultsAfter(w, i)
  <2>1. TurnAfter(v, i) = TurnAfter(w, i)
    <3>1. ASSUME NEW j \in TurnAfter(v, i) PROVE j \in TurnAfter(w, i)
      <4>1. j \in 1..(N + 1 + L) /\ j > i /\ \A k \in (i + 1)..j : v[k].role # "assistant"
        BY <1>2 DEF TurnAfter
      <4>2. j < N + 1
        <5>1. N + 1 \notin (i + 1)..j
          BY <1>3, <4>1
        <5>. QED  BY <1>1, <4>1, <5>1
      <4>3. \A k \in (i + 1)..j : k \in 1..N
        BY <1>1, <4>1, <4>2
      <4>. QED  BY <1>1, <1>3, <4>1, <4>2, <4>3 DEF TurnAfter
    <3>2. ASSUME NEW j \in TurnAfter(w, i) PROVE j \in TurnAfter(v, i)
      <4>1. j \in 1..N /\ j > i /\ \A k \in (i + 1)..j : w[k].role # "assistant"
        BY <1>1 DEF TurnAfter
      <4>2. j \in 1..(N + 1 + L) /\ \A k \in (i + 1)..j : k \in 1..N
        BY <1>1, <4>1
      <4>. QED  BY <1>2, <1>3, <4>1, <4>2 DEF TurnAfter
    <3>. QED  BY <3>1, <3>2
  <2> DEFINE C == Cardinality(TurnAfter(w, i))
  <2>2. C \in Nat /\ C <= N - i
    <3>1. TurnAfter(w, i) \subseteq (i + 1)..N
      BY <1>1 DEF TurnAfter
    <3>2. i \in Int /\ N \in Int /\ i + 1 \in Int /\ i <= N
      BY <1>1
    <3>3. IsFiniteSet((i + 1)..N) /\ Cardinality((i + 1)..N) <= N - i
      <4> DEFINE b == i + 1
                 c == Cardinality(b..N)
      <4>1. b \in Int /\ N \in Int
        BY <3>2
      <4> HIDE DEF b
      <4>2. IsFiniteSet(b..N) /\ c = IF b > N THEN 0 ELSE N - b + 1
        BY <4>1, FS_Interval
      <4> HIDE DEF c
      <4>3. c <= N - i
        BY <3>2, <4>2 DEF b
      <4>. QED  BY <4>2, <4>3 DEF b, c
    <3>4. IsFiniteSet(TurnAfter(w, i)) /\ C <= Cardinality((i + 1)..N)
      BY <3>1, <3>3, FS_Subset
    <3>5. C \in Nat /\ Cardinality((i + 1)..N) \in Nat
      BY <3>3, <3>4, FS_CardinalityType
    <3> HIDE DEF C
    <3>. QED  BY <3>2, <3>3, <3>4, <3>5
  <2> DEFINE End == C + i
  <2>3. End - i = C
    BY <2>2
  <2>4. [j \in 1..(End - i) |-> v[i + j].blocks] = [j \in 1..(End - i) |-> w[i + j].blocks]
    <3>1. \A j \in 1..C : i + j \in 1..N
      <4> HIDE DEF C
      <4>. QED  BY <1>1, <2>2
    <3>. QED  BY <1>3, <2>3, <3>1
  <2>. QED  BY <2>1, <2>4 DEF ResultsAfter, TurnAfter
<1>5. ResultsAfter(v, N + 1) = CallsOf(a)
  <2>1. TurnAfter(v, N + 1) = (N + 1 + 1)..(N + 1 + L)
    <3>1. \A k \in (N + 1 + 1)..(N + 1 + L) : v[k].role # "assistant"
      <4> TAKE k \in (N + 1 + 1)..(N + 1 + L)
      <4>1. k - (N + 1) \in 1..L /\ N + 1 + (k - (N + 1)) = k
        BY <1>1
      <4>2. v[N + 1 + (k - (N + 1))] = t[k - (N + 1)]
        BY <1>3, <4>1
      <4>3. t[k - (N + 1)].role # "assistant"
        BY <4>1 DEF L
      <4>. QED  BY <4>1, <4>2, <4>3
    <3>2. ASSUME NEW j \in (N + 1 + 1)..(N + 1 + L)
          PROVE  /\ j \in 1..(N + 1 + L) /\ j > N + 1
                 /\ \A k \in (N + 1 + 1)..j : k \in (N + 1 + 1)..(N + 1 + L)
      BY <1>1
    <3>3. ASSUME NEW j \in 1..(N + 1 + L), j > N + 1 PROVE j \in (N + 1 + 1)..(N + 1 + L)
      BY <1>1, <3>3
    <3>. QED  BY <1>2, <3>1, <3>2, <3>3 DEF TurnAfter
  <2>2. Cardinality(TurnAfter(v, N + 1)) = L
    <3>1. N + 1 + 1 \in Int /\ N + 1 + L \in Int
      BY <1>1
    <3>2. Cardinality((N + 1 + 1)..(N + 1 + L)) =
             IF N + 1 + 1 > N + 1 + L THEN 0 ELSE (N + 1 + L) - (N + 1 + 1) + 1
      BY <3>1, FS_Interval
    <3>. QED  BY <1>1, <2>1, <3>2
  <2> DEFINE End == Cardinality(TurnAfter(v, N + 1)) + (N + 1)
  <2>3. End - (N + 1) = L
    BY <1>1, <2>2
  <2>4. [j \in 1..(End - (N + 1)) |-> v[N + 1 + j].blocks] = [j \in 1..L |-> t[j].blocks]
    BY <1>3, <2>3
  <2>5. ResultsAfter(v, N + 1) =
           Ids(OfType(FlattenSeq([j \in 1..(End - (N + 1)) |-> v[N + 1 + j].blocks]), "tool_result"))
    BY DEF ResultsAfter, TurnAfter
  <2>. QED  BY <2>4, <2>5 DEF L
<1>6. ASSUME NEW i \in DOMAIN v, v[i].role = "assistant"
      PROVE  ResultsAfter(v, i) = CallsOf(v[i])
  <2>1. CASE i \in 1..N
    BY <1>1, <1>3, <1>4, <1>6, <2>1 DEF EachCallAnswered
  <2>2. CASE i = N + 1
    BY <1>3, <1>5, <2>2
  <2>3. CASE i \notin 1..(N + 1)
    <3>1. i - (N + 1) \in 1..L /\ N + 1 + (i - (N + 1)) = i
      BY <1>1, <1>2, <2>3
    <3>2. v[N + 1 + (i - (N + 1))] = t[i - (N + 1)]
      BY <1>3, <3>1
    <3>3. t[i - (N + 1)].role # "assistant"
      BY <3>1 DEF L
    <3>. QED  BY <1>6, <3>1, <3>2, <3>3
  <2>4. i \in 1..(N + 1) => i \in 1..N \/ i = N + 1
    BY <1>1
  <2>. QED  BY <2>1, <2>2, <2>3, <2>4
<1>. QED  BY <1>6 DEF EachCallAnswered, v

-------------------------------------------------------------------------------
(* The messages the agent keeps, and what each becomes on the wire.           *)
FromUser ==
    [role : {"user"}, blocks : Seq(TextBlocks) \cup Seq(ResultBlocks), cached : {FALSE}]
FromModel == [role : {"assistant"}, blocks : Seq(ReplyBlocks), cached : {FALSE}]
Kept == FromUser \cup FromModel

Piece(m) ==
    IF m.role = "assistant" THEN AssistantToOpenAI(m.blocks) ELSE UserToOpenAI(m.blocks)

Pieces(ms) == [i \in DOMAIN ms |-> Piece(ms[i])]

Preamble == <<Message("system", <<Text("system")>>)>>

LEMMA KeptIsSendable ==
    ASSUME NEW m \in Kept
    PROVE  /\ m \in Sendable /\ m.blocks \in Seq(AnyBlocks) /\ m.cached = FALSE
           /\ [m EXCEPT !.cached = FALSE] = m
           /\ \A c \in BOOLEAN : [m EXCEPT !.cached = c] \in Sendable
<1>1. m.blocks \in Seq(AnyBlocks)
  <2>1. /\ TextBlocks \subseteq AnyBlocks /\ ResultBlocks \subseteq AnyBlocks
        /\ ReplyBlocks \subseteq AnyBlocks
    BY DEF AnyBlocks, ReplyBlocks
  <2>2. m.blocks \in Seq(TextBlocks) \cup Seq(ResultBlocks) \cup Seq(ReplyBlocks)
    BY DEF Kept, FromUser, FromModel
  <2> HIDE DEF AnyBlocks, TextBlocks, ResultBlocks, ReplyBlocks
  <2>. QED  BY <2>1, <2>2, SeqMonotonic
<1>2. m = [role |-> m.role, blocks |-> m.blocks, cached |-> FALSE] /\ m.cached = FALSE
  BY DEF Kept, FromUser, FromModel
<1>3. m.role \in {"user", "assistant"}
  BY DEF Kept, FromUser, FromModel
<1>4. \A c \in BOOLEAN :
         /\ [m EXCEPT !.cached = c] = [role |-> m.role, blocks |-> m.blocks, cached |-> c]
         /\ [role |-> m.role, blocks |-> m.blocks, cached |-> c] \in Sendable
  BY <1>1, <1>2, <1>3 DEF Sendable
<1>. QED  BY <1>1, <1>2, <1>4

LEMMA PreambleFacts == Preamble \in Seq(Sendable) /\ \A i \in DOMAIN Preamble : Preamble[i].role = "system"
<1>1. Text("system") \in AnyBlocks
  BY DEF Text, AnyBlocks, TextBlocks, BlockIds
<1>2. Message("system", <<Text("system")>>) \in Sendable
  BY <1>1 DEF Message, Sendable
<1>3. Message("system", <<Text("system")>>).role = "system"
  BY DEF Message
<1>. QED  BY <1>2, <1>3 DEF Preamble

LEMMA ToolMessages ==
    ASSUME NEW rs \in Seq(AnyBlocks)
    PROVE  [i \in DOMAIN rs |-> Message("tool", <<rs[i]>>)] \in Seq(Sendable)
<1>1. \A i \in 1..Len(rs) : Message("tool", <<rs[i]>>) \in Sendable
  BY DEF Message, Sendable
<1> DEFINE n == Len(rs)
<1>2. DOMAIN rs = 1..n /\ n \in Nat
  OBVIOUS
<1>3. [i \in DOMAIN rs |-> Message("tool", <<rs[i]>>)] \in [1..n -> Sendable]
  BY <1>1, <1>2
<1> HIDE DEF n
<1>. QED  BY <1>2, <1>3, FunctionIsSeq

LEMMA PieceType ==
    ASSUME NEW m \in Kept
    PROVE  Piece(m) \in Seq(Sendable)
<1>0. m.blocks \in Seq(AnyBlocks)
  BY KeptIsSendable
<1> DEFINE uses    == OfType(m.blocks, "tool_use")
           answers == OfType(m.blocks, "tool_result")
           texts   == OfType(m.blocks, "text")
<1>1. uses \in Seq(AnyBlocks) /\ answers \in Seq(AnyBlocks) /\ texts \in Seq(AnyBlocks)
  BY <1>0, OfTypeType
<1> HIDE DEF uses, answers, texts
<1>2. AssistantToOpenAI(m.blocks) \in Seq(Sendable)
  <2>1. texts \o uses \in Seq(AnyBlocks)
    BY <1>1
  <2>2. Message("assistant", texts \o uses) \in Sendable
    BY <2>1 DEF Message, Sendable
  <2>. QED  BY <2>2 DEF AssistantToOpenAI, texts, uses
<1>3. UserToOpenAI(m.blocks) \in Seq(Sendable)
  <2>1. [i \in DOMAIN answers |-> Message("tool", <<answers[i]>>)] \in Seq(Sendable)
    BY <1>1, ToolMessages
  <2>2. (IF texts = <<>> THEN <<>> ELSE <<Message("user", texts)>>) \in Seq(Sendable)
    <3>1. Message("user", texts) \in Sendable
      BY <1>1 DEF Message, Sendable
    <3>. QED  BY <3>1
  <2>. QED  BY <2>1, <2>2, ConcatProperties DEF UserToOpenAI, answers, texts
<1>. QED  BY <1>2, <1>3 DEF Piece

LEMMA PiecesType ==
    ASSUME NEW ms \in Seq(Kept)
    PROVE  Pieces(ms) \in Seq(Seq(Sendable))
<1>1. \A i \in 1..Len(ms) : Piece(ms[i]) \in Seq(Sendable)
  <2> TAKE i \in 1..Len(ms)
  <2>1. ms[i] \in Kept
    OBVIOUS
  <2>. QED  BY <2>1, PieceType
<1> DEFINE n == Len(ms)
<1>2. DOMAIN ms = 1..n /\ n \in Nat
  OBVIOUS
<1>3. Pieces(ms) \in [1..n -> Seq(Sendable)]
  BY <1>1, <1>2 DEF Pieces
<1> HIDE DEF n
<1>. QED  BY <1>2, <1>3, FunctionIsSeq

LEMMA PiecesAppend ==
    ASSUME NEW ms \in Seq(Kept), NEW m \in Kept
    PROVE  Pieces(Append(ms, m)) = Append(Pieces(ms), Piece(m))
BY DEF Pieces

(* A message more adds its piece to what is sent, whoever it is sent to.       *)
LEMMA OpenAIGrows ==
    ASSUME NEW ms \in Seq(Kept)
    PROVE  /\ ToOpenAI(ms) = Preamble \o FlattenSeq(Pieces(ms))
           /\ ToOpenAI(ms) \in Seq(Sendable)
           /\ \A m \in Kept : ToOpenAI(Append(ms, m)) = ToOpenAI(ms) \o Piece(m)
<1>1. \A s \in Seq(Kept) :
         /\ ToOpenAI(s) = Preamble \o FlattenSeq(Pieces(s))
         /\ FlattenSeq(Pieces(s)) \in Seq(Sendable)
  <2> TAKE s \in Seq(Kept)
  <2>1. FlattenSeq(Pieces(s)) \in Seq(Sendable)
    BY PiecesType, FlattenType
  <2>. QED  BY <2>1 DEF ToOpenAI, Pieces, Piece, Preamble
<1>2. ToOpenAI(ms) \in Seq(Sendable)
  BY <1>1, PreambleFacts, ConcatProperties
<1>3. ASSUME NEW m \in Kept
      PROVE  ToOpenAI(Append(ms, m)) = ToOpenAI(ms) \o Piece(m)
  <2>1. Append(ms, m) \in Seq(Kept)
    BY AppendProperties
  <2>2. FlattenSeq(Pieces(Append(ms, m))) = FlattenSeq(Pieces(ms)) \o Piece(m)
    BY PiecesAppend, PiecesType, PieceType, FlattenAppend
  <2>3. Preamble \o (FlattenSeq(Pieces(ms)) \o Piece(m))
           = (Preamble \o FlattenSeq(Pieces(ms))) \o Piece(m)
    BY <1>1, PieceType, PreambleFacts, ConcatAssociative
  <2>. QED  BY <1>1, <2>1, <2>2, <2>3
<1>. QED  BY <1>1, <1>2, <1>3

LEMMA AnthropicGrows ==
    ASSUME NEW ms \in Seq(Kept)
    PROVE  /\ WrapFirstForCache(ms) \in Seq(Sendable)
           /\ \A m \in Kept :
                 WrapFirstForCache(Append(ms, m)) =
                    Append(WrapFirstForCache(ms), [m EXCEPT !.cached = (Len(ms) = 0)])
<1> DEFINE n == Len(ms)
<1>1. DOMAIN ms = 1..n /\ n \in Nat
  OBVIOUS
<1>2. \A i \in 1..n : [ms[i] EXCEPT !.cached = (i = 1)] \in Sendable
  <2> TAKE i \in 1..n
  <2>1. ms[i] \in Kept /\ (i = 1) \in BOOLEAN
    OBVIOUS
  <2>. QED  BY <2>1, KeptIsSendable
<1>3. WrapFirstForCache(ms) \in [1..n -> Sendable]
  BY <1>1, <1>2 DEF WrapFirstForCache
<1>4. WrapFirstForCache(ms) \in Seq(Sendable)
  <2> HIDE DEF n
  <2>. QED  BY <1>1, <1>3, FunctionIsSeq
<1>5. ASSUME NEW m \in Kept
      PROVE  WrapFirstForCache(Append(ms, m)) =
                Append(WrapFirstForCache(ms), [m EXCEPT !.cached = (n = 0)])
  <2> DEFINE e == [m EXCEPT !.cached = (n = 0)]
             l == WrapFirstForCache(Append(ms, m))
             r == Append(WrapFirstForCache(ms), e)
             W == WrapFirstForCache(ms)
  <2>1. e \in Sendable
    <3>1. (n = 0) \in BOOLEAN
      OBVIOUS
    <3>. QED  BY <3>1, KeptIsSendable
  <2>2. Append(ms, m) \in Seq(Kept) /\ Len(Append(ms, m)) = n + 1
    OBVIOUS
  <2>3. /\ \A i \in 1..n : Append(ms, m)[i] = ms[i]
        /\ Append(ms, m)[n + 1] = m
    OBVIOUS
  <2>4. DOMAIN l = 1..(n + 1) /\ l = [i \in 1..(n + 1) |-> l[i]]
    BY <2>2 DEF WrapFirstForCache
  <2>5. \A i \in 1..n : l[i] = [ms[i] EXCEPT !.cached = (i = 1)] /\ W[i] = l[i]
    BY <1>1, <2>2, <2>3 DEF WrapFirstForCache
  <2>6. l[n + 1] = e
    <3>1. n + 1 = 1 <=> n = 0
      BY <1>1
    <3>2. n + 1 \in DOMAIN Append(ms, m)
      BY <1>1, <2>2
    <3>. QED  BY <2>3, <3>1, <3>2 DEF WrapFirstForCache
  <2>7. W \in Seq(Sendable) /\ Len(W) = n
    <3> HIDE DEF n, W
    <3>. QED  BY <1>1, <1>3, FunctionIsSeq DEF W
  <2> HIDE DEF n, W, e, l
  <2>8. Append(W, e) = [i \in 1..(n + 1) |-> l[i]]
    <3> DEFINE q == Append(W, e)
    <3>1. /\ q \in Seq(Sendable) /\ Len(q) = n + 1 /\ q[n + 1] = e
          /\ \A i \in 1..n : q[i] = W[i]
      BY <2>1, <2>7, AppendProperties
    <3> HIDE DEF q
    <3>2. \A i \in 1..(n + 1) : q[i] = l[i]
      <4> TAKE i \in 1..(n + 1)
      <4>1. i \in 1..n \/ i = n + 1
        BY <1>1
      <4>. QED  BY <2>5, <2>6, <3>1, <4>1
    <3>3. q = [i \in 1..(n + 1) |-> q[i]]
      BY <3>1
    <3>. QED  BY <3>2, <3>3 DEF q
  <2>. QED  BY <2>4, <2>8 DEF l, e, W
<1>. QED  BY <1>4, <1>5

LEMMA PrefixByIndex ==
    ASSUME NEW S, NEW s \in Seq(S), NEW t \in Seq(S)
    PROVE  IsPrefix(s, t) <=> Len(s) <= Len(t) /\ \A i \in 1..Len(s) : s[i] = t[i]
<1> DEFINE n == Len(s)
<1>1. n \in Nat /\ Len(t) \in Nat
  OBVIOUS
<1>2. ASSUME n <= Len(t)
      PROVE  SubSeq(s, 1, n) = SubSeq(t, 1, n) <=> \A i \in 1..n : s[i] = t[i]
  <2>1. SubSeq(s, 1, n) = [i \in 1..n |-> s[i]] /\ SubSeq(t, 1, n) = [i \in 1..n |-> t[i]]
    BY <1>1, <1>2
  <2>. QED  BY <2>1
<1>. QED  BY <1>2 DEF IsPrefix

LEMMA PrefixTransitive ==
    ASSUME NEW S, NEW r \in Seq(S), NEW s \in Seq(S), NEW t \in Seq(S),
           IsPrefix(r, s), IsPrefix(s, t)
    PROVE  IsPrefix(r, t)
<1>1. Len(r) <= Len(s) /\ \A i \in 1..Len(r) : r[i] = s[i]
  BY PrefixByIndex
<1>2. Len(s) <= Len(t) /\ \A i \in 1..Len(s) : s[i] = t[i]
  BY PrefixByIndex
<1>3. Len(r) \in Nat /\ Len(s) \in Nat /\ Len(t) \in Nat
  OBVIOUS
<1>4. Len(r) <= Len(t) /\ \A i \in 1..Len(r) : r[i] = t[i]
  BY <1>1, <1>2, <1>3
<1>. QED  BY <1>4, PrefixByIndex

LEMMA PrefixOfConcat ==
    ASSUME NEW S, NEW s \in Seq(S), NEW t \in Seq(S)
    PROVE  IsPrefix(s, s \o t)
<1>1. s \o t \in Seq(S) /\ Len(s) <= Len(s \o t) /\ \A i \in 1..Len(s) : s[i] = (s \o t)[i]
  OBVIOUS
<1>. QED  BY <1>1, PrefixByIndex

(* What has been sent stands at the head of what is sent next.                *)
LEMMA WireGrows ==
    ASSUME NEW p, NEW ms \in Seq(Kept), NEW m \in Kept
    PROVE  /\ Wire(p, ms) \in Seq(Sendable)
           /\ Append(ms, m) \in Seq(Kept)
           /\ Wire(p, Append(ms, m)) \in Seq(Sendable)
           /\ IsPrefix(Wire(p, ms), Wire(p, Append(ms, m)))
<1>1. Append(ms, m) \in Seq(Kept)
  BY AppendProperties
<1>2. \A s \in Seq(Kept) : Wire(p, s) \in Seq(Sendable)
  BY OpenAIGrows, AnthropicGrows DEF Wire
<1>3. CASE p = "anthropic"
  <2> DEFINE w == WrapFirstForCache(ms)
             e == [m EXCEPT !.cached = (Len(ms) = 0)]
  <2>1. Wire(p, Append(ms, m)) = Append(w, e) /\ w \in Seq(Sendable) /\ Wire(p, ms) = w
    BY <1>3, AnthropicGrows DEF Wire
  <2>2. e \in Sendable
    <3>1. (Len(ms) = 0) \in BOOLEAN
      OBVIOUS
    <3>. QED  BY <3>1, KeptIsSendable
  <2> HIDE DEF w, e
  <2>3. Append(w, e) = w \o <<e>> /\ <<e>> \in Seq(Sendable)
    BY <2>1, <2>2
  <2>. QED  BY <1>1, <1>2, <2>1, <2>3, PrefixOfConcat
<1>4. CASE p # "anthropic"
  <2>1. Wire(p, Append(ms, m)) = ToOpenAI(ms) \o Piece(m) /\ Wire(p, ms) = ToOpenAI(ms)
    BY <1>4, OpenAIGrows DEF Wire
  <2>2. ToOpenAI(ms) \in Seq(Sendable) /\ Piece(m) \in Seq(Sendable)
    BY OpenAIGrows, PieceType
  <2>. QED  BY <1>1, <1>2, <2>1, <2>2, PrefixOfConcat
<1>. QED  BY <1>3, <1>4

(* A reply and the results of all its calls keep a conversation answered.      *)
LEMMA ResultsPiece ==
    ASSUME NEW rs \in Seq(ResultBlocks)
    PROVE  LET t == UserToOpenAI(rs)
           IN  /\ t = [i \in DOMAIN rs |-> Message("tool", <<rs[i]>>)]
               /\ Len(t) = Len(rs) /\ t \in Seq(Sendable)
<1>1. rs \in Seq(AnyBlocks)
  <2>1. ResultBlocks \subseteq AnyBlocks
    BY DEF AnyBlocks
  <2> HIDE DEF AnyBlocks, ResultBlocks
  <2>. QED  BY <2>1, SeqMonotonic
<1>2. OfType(rs, "tool_result") = rs /\ OfType(rs, "text") = <<>>
  <2>1. \A x \in ResultBlocks : x.type = "tool_result" /\ x.type # "text"
    BY DEF ResultBlocks
  <2> HIDE DEF ResultBlocks
  <2>. QED  BY <2>1, OfTypeAll, OfTypeNone
<1> DEFINE t == [i \in DOMAIN rs |-> Message("tool", <<rs[i]>>)]
<1>3. t \in Seq(Sendable)
  BY <1>1, ToolMessages
<1>4. Len(t) = Len(rs)
  OBVIOUS
<1>5. UserToOpenAI(rs) = t \o <<>>
  BY <1>2 DEF UserToOpenAI
<1>6. t \o <<>> = t
  <2> HIDE DEF t
  <2>. QED  BY <1>3, ConcatEmptySeq
<1>. QED  BY <1>3, <1>4, <1>5, <1>6

LEMMA AssistantPiece ==
    ASSUME NEW b \in Seq(ReplyBlocks)
    PROVE  \E a \in Sendable :
              /\ AssistantToOpenAI(b) = <<a>> /\ a.role = "assistant"
              /\ CallsOf(a) = Ids(OfType(b, "tool_use"))
<1> DEFINE texts == OfType(b, "text")
           uses  == OfType(b, "tool_use")
           a     == Message("assistant", texts \o uses)
<1>1. texts \in Seq({x \in ReplyBlocks : x.type = "text"})
  BY OfTypeRange
<1>2. uses \in Seq({x \in ReplyBlocks : x.type = "tool_use"})
  BY OfTypeRange
<1>3. texts \in Seq(ReplyBlocks) /\ uses \in Seq(ReplyBlocks)
  BY OfTypeType
<1> HIDE DEF texts, uses
<1>4. OfType(texts, "tool_use") = <<>>
  <2> DEFINE T == {x \in ReplyBlocks : x.type = "text"}
  <2>1. \A x \in T : x.type # "tool_use"
    OBVIOUS
  <2>2. texts \in Seq(T)
    BY <1>1
  <2> HIDE DEF T
  <2>. QED  BY <2>1, <2>2, OfTypeNone
<1>5. OfType(uses, "tool_use") = uses
  <2> DEFINE T == {x \in ReplyBlocks : x.type = "tool_use"}
  <2>1. \A x \in T : x.type = "tool_use"
    OBVIOUS
  <2>2. uses \in Seq(T)
    BY <1>2
  <2> HIDE DEF T
  <2>. QED  BY <2>1, <2>2, OfTypeAll
<1>6. OfType(texts \o uses, "tool_use") = uses
  <2>1. OfType(texts \o uses, "tool_use") = OfType(texts, "tool_use") \o OfType(uses, "tool_use")
    BY <1>3, OfTypeConcat
  <2>2. <<>> \o uses = uses
    BY <1>3, ConcatEmptySeq
  <2>. QED  BY <1>4, <1>5, <2>1, <2>2
<1>7. texts \o uses \in Seq(AnyBlocks)
  <2>1. ReplyBlocks \subseteq AnyBlocks
    BY DEF AnyBlocks, ReplyBlocks
  <2>2. texts \o uses \in Seq(ReplyBlocks)
    BY <1>3, ConcatProperties
  <2> HIDE DEF AnyBlocks, ReplyBlocks
  <2>. QED  BY <2>1, <2>2, SeqMonotonic
<1>8. /\ a \in Sendable /\ a.role = "assistant" /\ a.blocks = texts \o uses
  BY <1>7 DEF Message, Sendable
<1>9. AssistantToOpenAI(b) = <<a>>
  BY DEF AssistantToOpenAI, texts, uses
<1> HIDE DEF a
<1>. QED  BY <1>6, <1>8, <1>9 DEF CallsOf, uses

LEMMA MessageKept ==
    /\ \A rs \in Seq(ResultBlocks) : Message("user", rs) \in Kept
    /\ \A ts \in Seq(TextBlocks) : Message("user", ts) \in Kept
    /\ \A b \in Seq(ReplyBlocks) : Message("assistant", b) \in Kept
<1> HIDE DEF ResultBlocks, TextBlocks, ReplyBlocks
<1>. QED  BY DEF Message, Kept, FromUser, FromModel

LEMMA RepliesAnswered ==
    ASSUME NEW p, NEW ms \in Seq(Kept), ms # <<>>, EachCallAnswered(Wire(p, ms)),
           NEW b \in Seq(ReplyBlocks), NEW rs \in Seq(ResultBlocks),
           Ids(rs) = Ids(OfType(b, "tool_use"))
    PROVE  EachCallAnswered(Wire(p, Append(Append(ms, Message("assistant", b)),
                                           Message("user", rs))))
<1> DEFINE a == Message("assistant", b)
           r == Message("user", rs)
           w == Wire(p, ms)
           more == Append(ms, a)
<1>0. a \in Kept /\ r \in Kept /\ more \in Seq(Kept) /\ w \in Seq(Sendable)
  BY MessageKept, WireGrows
<1>1. a.role = "assistant" /\ a.blocks = b /\ r.role = "user" /\ r.blocks = rs
  BY DEF Message
<1>2. OfType(rs, "tool_result") = rs
  <2>1. \A x \in ResultBlocks : x.type = "tool_result"
    BY DEF ResultBlocks
  <2> HIDE DEF ResultBlocks
  <2>. QED  BY <2>1, OfTypeAll
<1>3. Len(ms) # 0 /\ Len(more) # 0 /\ Len(ms) \in Nat
  OBVIOUS
<1> HIDE DEF a, r, w, more
<1>4. CASE p = "anthropic"
  <2>1. Wire(p, Append(more, r)) = Append(Append(w, a), r)
    <3>1. [a EXCEPT !.cached = FALSE] = a /\ [r EXCEPT !.cached = FALSE] = r
      BY <1>0, KeptIsSendable
    <3>2. (Len(ms) = 0) = FALSE /\ (Len(more) = 0) = FALSE
      BY <1>3
    <3>3. WrapFirstForCache(Append(more, r)) =
             Append(WrapFirstForCache(more), [r EXCEPT !.cached = (Len(more) = 0)])
      BY <1>0, AnthropicGrows
    <3>4. WrapFirstForCache(more) = Append(w, [a EXCEPT !.cached = (Len(ms) = 0)])
      BY <1>0, <1>4, AnthropicGrows DEF w, more, Wire
    <3>. QED  BY <1>4, <3>1, <3>2, <3>3, <3>4 DEF Wire
  <2> DEFINE t == <<r>>
  <2>2. a \in Sendable /\ r \in Sendable
    BY <1>0, KeptIsSendable
  <2>3. Append(Append(w, a), r) = (w \o <<a>>) \o t
    <3>1. Append(w, a) \in Seq(Sendable) /\ Append(w, a) = w \o <<a>>
      BY <1>0, <2>2, AppendProperties, AppendIsConcat
    <3>2. Append(Append(w, a), r) = Append(w, a) \o <<r>>
      BY <2>2, <3>1, AppendIsConcat
    <3>. QED  BY <3>1, <3>2
  <2>4. t \in Seq(Sendable) /\ Len(t) = 1 /\ \A j \in 1..Len(t) : t[j].role # "assistant"
    BY <1>1, <2>2
  <2>5. [j \in 1..Len(t) |-> t[j].blocks] = <<rs>>
    BY <1>1, <2>4
  <2>6. FlattenSeq(<<rs>>) = rs
    <3>1. FlattenSeq(Append(<<>>, rs)) = FlattenSeq(<<>>) \o rs
      <4> HIDE DEF ResultBlocks
      <4>1. <<>> \in Seq(Seq(ResultBlocks))
        BY EmptySeq
      <4>. QED  BY <4>1, FlattenAppend
    <3>2. Append(<<>>, rs) = <<rs>> /\ <<>> \o rs = rs
      <4> HIDE DEF ResultBlocks
      <4>. QED  BY ConcatEmptySeq
    <3>. QED  BY <3>1, <3>2, FlattenEmpty
  <2>7. Ids(OfType(FlattenSeq([j \in 1..Len(t) |-> t[j].blocks]), "tool_result")) = CallsOf(a)
    BY <1>1, <1>2, <2>5, <2>6 DEF CallsOf
  <2> HIDE DEF t
  <2>8. EachCallAnswered((w \o <<a>>) \o t)
    BY <1>0, <1>1, <2>2, <2>4, <2>7, AnsweredGrows DEF w
  <2>. QED  BY <2>1, <2>3, <2>8 DEF a, r, more
<1>5. CASE p # "anthropic"
  <2>1. PICK s \in Sendable : /\ Piece(a) = <<s>> /\ s.role = "assistant"
                              /\ CallsOf(s) = Ids(OfType(b, "tool_use"))
    <3>1. Piece(a) = AssistantToOpenAI(b)
      BY <1>1 DEF Piece
    <3>. QED  BY <3>1, AssistantPiece
  <2> DEFINE t == UserToOpenAI(rs)
  <2>2. Piece(r) = t
    BY <1>1 DEF Piece
  <2>3. /\ t = [i \in DOMAIN rs |-> Message("tool", <<rs[i]>>)]
        /\ Len(t) = Len(rs) /\ t \in Seq(Sendable)
    BY ResultsPiece
  <2>4. Wire(p, Append(more, r)) = (w \o <<s>>) \o t
    <3>1. ToOpenAI(Append(more, r)) = ToOpenAI(more) \o Piece(r)
      BY <1>0, OpenAIGrows
    <3>2. ToOpenAI(more) = w \o Piece(a)
      BY <1>0, <1>5, OpenAIGrows DEF w, more, Wire
    <3>. QED  BY <1>5, <2>1, <2>2, <3>1, <3>2 DEF Wire
  <2> HIDE DEF t
  <2>5. DOMAIN rs = 1..Len(rs)
    <3> HIDE DEF ResultBlocks
    <3>. QED  OBVIOUS
  <2>6. \A j \in 1..Len(t) : t[j].role # "assistant" /\ t[j].blocks = <<rs[j]>>
    BY <2>3, <2>5 DEF Message
  <2>7. [j \in 1..Len(t) |-> t[j].blocks] = Singles(rs)
    BY <2>3, <2>5, <2>6 DEF Singles
  <2>8. FlattenSeq(Singles(rs)) = rs
    BY FlattenSingles
  <2>9. Ids(OfType(FlattenSeq([j \in 1..Len(t) |-> t[j].blocks]), "tool_result")) = CallsOf(s)
    BY <1>2, <2>1, <2>7, <2>8
  <2>10. EachCallAnswered((w \o <<s>>) \o t)
    BY <1>0, <2>1, <2>3, <2>6, <2>9, AnsweredGrows DEF w
  <2>. QED  BY <2>4, <2>10 DEF a, r, more
<1>. QED  BY <1>4, <1>5

(* A conversation nobody has answered yet has nothing to answer.              *)
LEMMA FirstWire ==
    ASSUME NEW p
    PROVE  LET ms == <<Message("user", <<Text("context")>>)>>
           IN  ms \in Seq(Kept) /\ EachCallAnswered(Wire(p, ms))
<1> DEFINE m  == Message("user", <<Text("context")>>)
           ms == <<m>>
<1>1. Text("context") \in TextBlocks
  BY DEF Text, TextBlocks, BlockIds
<1>2. m \in Kept /\ m.role = "user" /\ m.blocks = <<Text("context")>>
  <2>1. <<Text("context")>> \in Seq(TextBlocks)
    BY <1>1
  <2>. QED  BY <2>1, MessageKept DEF Message
<1> HIDE DEF m
<1>3. ms \in Seq(Kept) /\ ms = Append(<<>>, m)
  BY <1>2
<1>4. CASE p = "anthropic"
  <2>1. \A i \in DOMAIN Wire(p, ms) : Wire(p, ms)[i].role = "user"
    <3>1. [m EXCEPT !.cached = TRUE].role = "user"
      BY <1>2 DEF m, Message
    <3>2. DOMAIN Wire(p, ms) = {1} /\ Wire(p, ms)[1] = [m EXCEPT !.cached = (1 = 1)]
      BY <1>4 DEF Wire, WrapFirstForCache
    <3>3. [m EXCEPT !.cached = (1 = 1)] = [m EXCEPT !.cached = TRUE]
      OBVIOUS
    <3>. QED  BY <3>1, <3>2, <3>3
  <2>. QED  BY <1>3, <2>1 DEF EachCallAnswered, m
<1>5. CASE p # "anthropic"
  <2> DEFINE texts == OfType(m.blocks, "text")
             u == Message("user", texts)
  <2>1. OfType(m.blocks, "tool_result") = <<>>
    <3>1. \A x \in TextBlocks : x.type # "tool_result"
      BY DEF TextBlocks
    <3>2. m.blocks \in Seq(TextBlocks)
      BY <1>1, <1>2
    <3> HIDE DEF TextBlocks
    <3>. QED  BY <3>1, <3>2, OfTypeNone
  <2>2. \A j \in DOMAIN Piece(m) : Piece(m)[j].role = "user"
    <3>1. Piece(m) = <<>> \o (IF texts = <<>> THEN <<>> ELSE <<u>>)
      <4>1. [i \in DOMAIN <<>> |-> Message("tool", <<(<<>>)[i]>>)] = <<>>
        OBVIOUS
      <4>2. Piece(m) = UserToOpenAI(m.blocks)
        BY <1>2 DEF Piece
      <4>. QED  BY <2>1, <4>1, <4>2 DEF UserToOpenAI
    <3>2. u.role = "user"
      BY DEF Message
    <3> HIDE DEF u, texts
    <3>. QED  BY <3>1, <3>2
  <2>3. Wire(p, ms) = Preamble \o Piece(m)
    <3>1. Wire(p, ms) = ToOpenAI(<<>>) \o Piece(m)
      BY <1>2, <1>3, <1>5, OpenAIGrows, EmptySeq DEF Wire
    <3>2. Pieces(<<>>) = <<>>
      BY DEF Pieces
    <3>3. ToOpenAI(<<>>) = Preamble \o <<>>
      BY <3>2, OpenAIGrows, EmptySeq, FlattenEmpty
    <3>4. Preamble \o <<>> = Preamble
      BY PreambleFacts, ConcatEmptySeq
    <3>. QED  BY <3>1, <3>3, <3>4
  <2>4. \A i \in DOMAIN Wire(p, ms) : Wire(p, ms)[i].role # "assistant"
    <3> DEFINE P == Preamble
               Q == Piece(m)
    <3>1. P \in Seq(Sendable) /\ Q \in Seq(Sendable)
      BY <1>2, PreambleFacts, PieceType
    <3>2. \A i \in DOMAIN P : P[i].role = "system"
      BY PreambleFacts
    <3>3. \A i \in DOMAIN Q : Q[i].role = "user"
      BY <2>2
    <3> HIDE DEF P, Q
    <3>4. \A i \in DOMAIN (P \o Q) : (P \o Q)[i].role # "assistant"
      BY <3>1, <3>2, <3>3
    <3>. QED  BY <2>3, <3>4 DEF P, Q
  <2>. QED  BY <1>3, <2>4 DEF EachCallAnswered, m
<1>. QED  BY <1>3, <1>4, <1>5 DEF m

-------------------------------------------------------------------------------
(* What the loop's variables hold. *)
LoopTyped ==
    /\ pc \in {"idle", "ask", "wait", "infer", "apply", "decide", "usage"}
    /\ model \in Models /\ turn \in Nat
    /\ messages \in Seq(Kept) /\ request \in Seq(Sendable)
    /\ reply.blocks \in Seq(ReplyBlocks)
    /\ todo \in Seq(CallBlocks) /\ results \in Seq(ResultBlocks)

(* The last request stands at the head of the conversation so far.            *)
Sent ==
    /\ IsPrefix(request, Wire(Provider[model], messages))
    /\ pc = "idle" => request = <<>>

(* What could be sent is answered, and the calls of a reply are all either      *)
(* answered or still to do.                                                  *)
Answering ==
    /\ EveryCallAnswered
    /\ pc \in {"ask", "wait"} =>
          messages # <<>> /\ EachCallAnswered(Wire(Provider[model], messages))
    /\ pc = "apply" =>
          /\ Front(messages) \in Seq(Kept) /\ Front(messages) # <<>>
          /\ messages = Append(Front(messages), Message("assistant", reply.blocks))
          /\ EachCallAnswered(Wire(Provider[model], Front(messages)))
          /\ Ids(results) \o Ids(todo) = Ids(ToolUses)

WireInv == LoopTyped /\ Sent /\ Answering

(* A reply of either API becomes blocks of text and calls.                    *)
LEMMA ResponseType ==
    ASSUME NEW p \in {"anthropic", "openrouter"}, NEW r \in Replies[p], NEW n \in Nat
    PROVE  Response(p, r, n).blocks \in Seq(ReplyBlocks)
<1>1. \A i \in Nat : <<n, i>> \in BlockIds
  BY DEF BlockIds
<1>2. CASE p = "anthropic"
  <2>1. r \in AnthropicReply
    BY <1>2, RepliesAssumption
  <2> DEFINE bs == r.blocks
             k  == Len(bs)
             B(i) == IF bs[i].type = "text" THEN Text(<<n, i>>)
                     ELSE ToolUse(<<n, i>>, bs[i].name, bs[i].args)
  <2>2. bs \in Seq([type : {"text"}] \cup [type : {"tool_use"}, name : STRING, args : Arguments])
    BY <2>1 DEF AnthropicReply
  <2>3. k \in Nat /\ DOMAIN bs = 1..k
    BY <2>2
  <2>4. \A i \in 1..k : B(i) \in ReplyBlocks
    <3> TAKE i \in 1..k
    <3>1. bs[i] \in [type : {"text"}] \cup [type : {"tool_use"}, name : STRING, args : Arguments]
      BY <2>2
    <3>2. <<n, i>> \in BlockIds
      BY <1>1, <2>3
    <3> HIDE DEF bs, k, BlockIds
    <3>3. CASE bs[i].type = "text"
      BY <3>2, <3>3 DEF Text, ReplyBlocks, TextBlocks
    <3>4. CASE bs[i].type # "text"
      <4>1. bs[i] \in [type : {"tool_use"}, name : STRING, args : Arguments]
        BY <3>1, <3>4
      <4>2. bs[i].name \in STRING /\ bs[i].args \in Arguments
        BY <4>1
      <4>3. ToolUse(<<n, i>>, bs[i].name, bs[i].args) \in CallBlocks
        BY <3>2, <4>2 DEF ToolUse, CallBlocks
      <4>. QED  BY <3>4, <4>3 DEF ReplyBlocks
    <3>. QED  BY <3>3, <3>4
  <2>5. Response(p, r, n).blocks = [i \in 1..k |-> B(i)]
    BY <1>2, <2>3 DEF Response, FromAnthropic
  <2> HIDE DEF k, B
  <2>6. [i \in 1..k |-> B(i)] \in [1..k -> ReplyBlocks]
    BY <2>4
  <2>. QED  BY <2>3, <2>5, <2>6, FunctionIsSeq
<1>3. CASE p = "openrouter"
  <2>1. r \in OpenAIReply
    BY <1>3, RepliesAssumption
  <2> DEFINE cs == r.calls
             k  == Len(cs)
             C(i) == ToolUse(<<n, i>>, cs[i].name, ReadArguments(cs[i].args))
             T    == IF r.text THEN <<Text(<<n, 0>>)>> ELSE <<>>
             U    == [i \in 1..k |-> C(i)]
  <2>2. cs \in Seq([name : STRING, args : Arguments])
    BY <2>1 DEF OpenAIReply
  <2>3. k \in Nat /\ DOMAIN cs = 1..k
    BY <2>2
  <2>4. \A i \in 1..k : C(i) \in ReplyBlocks
    <3> TAKE i \in 1..k
    <3>1. cs[i] \in [name : STRING, args : Arguments]
      <4> DEFINE R == [name : STRING, args : Arguments]
      <4>1. cs \in Seq(R) /\ i \in 1..Len(cs)
        BY <2>2
      <4> HIDE DEF R, cs
      <4>2. cs[i] \in R
        BY <4>1
      <4>. QED  BY <4>2 DEF R
    <3>2. <<n, i>> \in BlockIds
      BY <1>1, <2>3
    <3> HIDE DEF cs, k, BlockIds
    <3>3. cs[i].name \in STRING /\ ReadArguments(cs[i].args) \in Arguments \cup {"empty"}
      BY <3>1 DEF ReadArguments
    <3>4. ToolUse(<<n, i>>, cs[i].name, ReadArguments(cs[i].args)) \in CallBlocks
      BY <3>2, <3>3 DEF ToolUse, CallBlocks
    <3>. QED  BY <3>4 DEF ReplyBlocks
  <2>5. T \in Seq(ReplyBlocks)
    <3>1. <<n, 0>> \in BlockIds
      BY <1>1
    <3>2. Text(<<n, 0>>) \in ReplyBlocks
      BY <3>1 DEF Text, ReplyBlocks, TextBlocks
    <3> HIDE DEF ReplyBlocks
    <3>. QED  BY <3>2
  <2>6. Response(p, r, n).blocks = T \o U
    BY <1>3, <2>3 DEF Response, FromOpenAI
  <2> HIDE DEF k, C, T
  <2>7. U \in [1..k -> ReplyBlocks]
    BY <2>4
  <2> HIDE DEF U
  <2>8. U \in Seq(ReplyBlocks)
    BY <2>3, <2>7, FunctionIsSeq
  <2>. QED  BY <2>5, <2>6, <2>8, ConcatProperties
<1>. QED  BY <1>2, <1>3

LEMMA ToolUsesType ==
    ASSUME NEW b \in Seq(ReplyBlocks)
    PROVE  OfType(b, "tool_use") \in Seq(CallBlocks)
<1> DEFINE T == {x \in ReplyBlocks : x.type = "tool_use"}
<1>1. T \subseteq CallBlocks
  BY DEF ReplyBlocks, TextBlocks, CallBlocks
<1>2. OfType(b, "tool_use") \in Seq(T)
  BY OfTypeRange
<1> HIDE DEF T, CallBlocks
<1>. QED  BY <1>1, <1>2, SeqMonotonic

LEMMA FrontAppend ==
    ASSUME NEW S, NEW s \in Seq(S), NEW x \in S
    PROVE  Front(Append(s, x)) = s
<1> DEFINE t == Append(s, x)
           n == Len(s)
<1>1. /\ t \in Seq(S) /\ Len(t) = n + 1 /\ n \in Nat
      /\ \A i \in 1..n : t[i] = s[i]
  OBVIOUS
<1>2. s = [i \in 1..n |-> s[i]]
  OBVIOUS
<1> HIDE DEF t, n
<1>3. SubSeq(t, 1, n) = [i \in 1..n |-> t[i]]
  BY <1>1
<1>4. SubSeq(t, 1, n) = s
  BY <1>1, <1>2, <1>3
<1>5. Len(t) - 1 = n
  BY <1>1
<1>. QED  BY <1>4, <1>5 DEF Front, t

LEMMA IdsType ==
    ASSUME NEW b, b \in Seq(CallBlocks) \/ b \in Seq(ResultBlocks)
    PROVE  Ids(b) \in Seq(BlockIds)
<1>1. /\ \A x \in ResultBlocks : x.id \in BlockIds
      /\ \A x \in CallBlocks : x.id \in BlockIds
  BY DEF ResultBlocks, CallBlocks
<1> HIDE DEF ResultBlocks, CallBlocks, BlockIds
<1> DEFINE n == Len(b)
<1>2. Ids(b) \in [1..n -> BlockIds] /\ n \in Nat
  BY <1>1 DEF Ids
<1> HIDE DEF n
<1>. QED  BY <1>2, FunctionIsSeq

LEMMA IdsMove ==
    ASSUME NEW rs \in Seq(ResultBlocks), NEW cs \in Seq(CallBlocks), cs # <<>>,
           NEW r \in ResultBlocks, r.id = Head(cs).id
    PROVE  Ids(rs \o <<r>>) \o Ids(Tail(cs)) = Ids(rs) \o Ids(cs)
<1>1. /\ \A x \in ResultBlocks : x.id \in BlockIds
      /\ \A x \in CallBlocks : x.id \in BlockIds
  BY DEF ResultBlocks, CallBlocks
<1> HIDE DEF ResultBlocks, CallBlocks, BlockIds
<1>2. Ids(rs) \in Seq(BlockIds)
  BY IdsType
<1>3. \A s \in Seq(CallBlocks) : Ids(s) \in Seq(BlockIds)
  BY IdsType
<1>4. Ids(rs \o <<r>>) = Ids(rs) \o <<r.id>>
  BY <1>1 DEF Ids
<1>5. Tail(cs) \in Seq(CallBlocks) /\ cs = <<Head(cs)>> \o Tail(cs) /\ Head(cs) \in CallBlocks
  OBVIOUS
<1>6. Ids(cs) = <<r.id>> \o Ids(Tail(cs))
  <2> DEFINE h == Head(cs)
             u == Tail(cs)
  <2>1. h \in CallBlocks /\ u \in Seq(CallBlocks) /\ cs = <<h>> \o u /\ h.id = r.id
    BY <1>5
  <2> HIDE DEF h, u
  <2>2. Ids(<<h>> \o u) = <<h.id>> \o Ids(u)
    BY <2>1 DEF Ids
  <2>. QED  BY <2>1, <2>2 DEF u
<1> DEFINE a == Ids(rs)
           b == <<r.id>>
           c == Ids(Tail(cs))
<1>7. a \in Seq(BlockIds) /\ b \in Seq(BlockIds) /\ c \in Seq(BlockIds)
  <2>1. r.id \in BlockIds
    BY <1>1
  <2>2. b \in Seq(BlockIds)
    BY <2>1
  <2>3. c \in Seq(BlockIds)
    <3> HIDE DEF Ids
    <3>. QED  BY <1>3, <1>5
  <2>. QED  BY <1>2, <2>2, <2>3
<1>8. Ids(rs \o <<r>>) = a \o b /\ Ids(cs) = b \o c
  BY <1>4, <1>6
<1> HIDE DEF a, b, c
<1>9. (a \o b) \o c = a \o (b \o c)
  BY <1>7, ConcatAssociative
<1>. QED  BY <1>8, <1>9 DEF a, c

LEMMA NothingSent ==
    /\ <<>> \in Seq(Sendable) /\ <<>> \in Seq(Kept) /\ EachCallAnswered(<<>>)
    /\ \A p : \A ms \in Seq(Kept) : IsPrefix(<<>>, Wire(p, ms))
<1>1. <<>> \in Seq(Sendable) /\ EachCallAnswered(<<>>)
  BY DEF EachCallAnswered
<1>2. ASSUME NEW p, NEW ms \in Seq(Kept) PROVE IsPrefix(<<>>, Wire(p, ms))
  <2>1. Wire(p, ms) \in Seq(Sendable)
    BY OpenAIGrows, AnthropicGrows DEF Wire
  <2> DEFINE w == Wire(p, ms)
             e == <<>>
  <2>2. e \in Seq(Sendable) /\ w \in Seq(Sendable) /\ e \o w = w
    BY <1>1, <2>1, ConcatEmptySeq
  <2> HIDE DEF w, e
  <2>3. IsPrefix(e, w)
    BY <2>2, PrefixOfConcat
  <2>. QED  BY <2>3 DEF e, w
<1>3. <<>> \in Seq(Kept)
  BY EmptySeq
<1>. QED  BY <1>1, <1>2, <1>3

LEMMA WireStart == Init => WireInv
<1> SUFFICES ASSUME Init PROVE WireInv
  OBVIOUS
<1>1. NoReply.blocks = <<>> /\ <<>> \in Seq(ReplyBlocks)
  BY DEF NoReply
<1>2. LoopTyped
  BY <1>1, NothingSent DEF LoopTyped, Init
<1>3. Sent
  BY NothingSent DEF Sent, Init
<1>4. Answering
  BY NothingSent DEF Answering, Init, EveryCallAnswered
<1>. QED  BY <1>2, <1>3, <1>4 DEF WireInv

(* Steps that leave the conversation alone. *)
LEMMA WireKept ==
    ASSUME WireInv, UNCHANGED <<model, convo>>, turn' \in Nat,
           pc' = pc \/ pc' \in {"decide", "usage"}
    PROVE  WireInv'
<1>1. LoopTyped'
  BY DEF WireInv, LoopTyped, convo
<1>2. Sent'
  BY DEF WireInv, Sent, convo
<1>3. Answering'
  BY DEF WireInv, Answering, EveryCallAnswered, ToolUses, convo
<1>. QED  BY <1>1, <1>2, <1>3 DEF WireInv

LEMMA WireGone == ASSUME WireInv, LocalsGone, UNCHANGED model PROVE WireInv'
<1>1. NoReply.blocks = <<>> /\ <<>> \in Seq(ReplyBlocks)
  BY DEF NoReply
<1>2. LoopTyped'
  BY <1>1, NothingSent DEF WireInv, LoopTyped, LocalsGone
<1>3. Sent'
  BY NothingSent DEF WireInv, Sent, LocalsGone
<1>4. Answering'
  BY NothingSent DEF WireInv, Answering, EveryCallAnswered, LocalsGone
<1>. QED  BY <1>2, <1>3, <1>4 DEF WireInv

LEMMA WireBegin == ASSUME WireInv, BeginCycle PROVE WireInv'
<1>1. /\ messages' = <<Message("user", <<Text("context")>>)>> /\ request' = <<>>
      /\ model' \in Models
      /\ pc' = "ask" /\ turn' = turn /\ reply' = reply /\ todo' = todo /\ results' = results
  BY DEF BeginCycle, WireInv, Sent
<1>2. messages' \in Seq(Kept) /\ EachCallAnswered(Wire(Provider[model'], messages'))
  BY <1>1, FirstWire
<1>3. LoopTyped'
  BY <1>1, <1>2, NothingSent DEF WireInv, LoopTyped
<1>4. Sent'
  BY <1>1, <1>2, NothingSent DEF Sent
<1>5. Answering'
  <2>1. messages' # <<>>
    BY <1>1
  <2>. QED  BY <1>1, <1>2, <2>1, NothingSent DEF Answering, EveryCallAnswered
<1>. QED  BY <1>3, <1>4, <1>5 DEF WireInv

LEMMA WireAsk == ASSUME WireInv, Ask PROVE WireInv'
<1>1. /\ pc = "ask" /\ pc' = "wait" /\ request' = Wire(Provider[model], messages)
      /\ turn' = turn + 1
      /\ UNCHANGED <<model, messages, reply, todo, results>>
  BY DEF Ask
<1>2. request' \in Seq(Sendable)
  BY <1>1, OpenAIGrows, AnthropicGrows DEF Wire, WireInv, LoopTyped
<1>3. LoopTyped'
  BY <1>1, <1>2 DEF WireInv, LoopTyped
<1>4. Sent'
  <2>1. IsPrefix(request', request')
    BY <1>2, PrefixByIndex
  <2>. QED  BY <1>1, <2>1 DEF Sent
<1>5. Answering'
  BY <1>1 DEF WireInv, Answering, EveryCallAnswered
<1>. QED  BY <1>3, <1>4, <1>5 DEF WireInv

(* A message more. *)
LEMMA SentGrows ==
    ASSUME LoopTyped, Sent, NEW m \in Kept, messages' = Append(messages, m),
           UNCHANGED <<model, request>>, pc' # "idle"
    PROVE  Sent' /\ messages' \in Seq(Kept)
<1> DEFINE w == Wire(Provider[model], messages)
           v == Wire(Provider[model], messages')
<1>1. messages \in Seq(Kept) /\ request \in Seq(Sendable) /\ IsPrefix(request, w)
  BY DEF LoopTyped, Sent
<1>2. messages' \in Seq(Kept) /\ w \in Seq(Sendable) /\ v \in Seq(Sendable) /\ IsPrefix(w, v)
  BY <1>1, WireGrows
<1> HIDE DEF w, v
<1>3. IsPrefix(request, v)
  BY <1>1, <1>2, PrefixTransitive
<1>. QED  BY <1>2, <1>3 DEF Sent, v

LEMMA WireReceive == ASSUME WireInv, Receive PROVE WireInv'
<1>1. Provider[model] \in {"anthropic", "openrouter"} /\ turn \in Nat
  BY ModelsAssumption DEF WireInv, LoopTyped
<1>2. PICK r \in Replies[Provider[model]] : reply' = Response(Provider[model], r, turn)
  BY DEF Receive
<1> DEFINE m == Message("assistant", reply'.blocks)
<1>3. /\ pc = "wait" /\ messages' = Append(messages, m)
      /\ todo' = OfType(reply'.blocks, "tool_use") /\ results' = <<>>
      /\ pc' \in {"infer", "apply"}
      /\ UNCHANGED <<model, turn, request>>
  BY DEF Receive, ToolUses
<1>4. reply'.blocks \in Seq(ReplyBlocks)
  BY <1>1, <1>2, ResponseType
<1>5. m \in Kept
  BY <1>4, MessageKept
<1>6. todo' \in Seq(CallBlocks)
  BY <1>3, <1>4, ToolUsesType
<1>7. Sent' /\ messages' \in Seq(Kept)
  <2>1. pc' # "idle"
    BY <1>3
  <2> HIDE DEF m
  <2>. QED  BY <1>3, <1>5, <2>1, SentGrows DEF WireInv
<1>8. LoopTyped'
  BY <1>3, <1>4, <1>6, <1>7 DEF WireInv, LoopTyped
<1>9. Answering'
  <2>1. Front(messages') = messages
    BY <1>3, <1>5, FrontAppend DEF WireInv, LoopTyped
  <2>2. Ids(results') \o Ids(todo') = Ids(ToolUses')
    <3>1. Ids(results') = <<>>
      BY <1>3 DEF Ids
    <3>2. Ids(todo') \in Seq(BlockIds)
      <4> HIDE DEF CallBlocks, ResultBlocks, BlockIds
      <4>. QED  BY <1>6, IdsType
    <3>3. <<>> \o Ids(todo') = Ids(todo')
      <4> HIDE DEF BlockIds
      <4>. QED  BY <3>2, ConcatEmptySeq
    <3>. QED  BY <1>3, <3>1, <3>3 DEF ToolUses
  <2>3. messages # <<>> /\ EachCallAnswered(Wire(Provider[model], messages)) /\ EachCallAnswered(request)
    BY <1>3 DEF WireInv, Answering, EveryCallAnswered
  <2>4. messages \in Seq(Kept)
    BY DEF WireInv, LoopTyped
  <2>. QED  BY <1>3, <2>1, <2>2, <2>3, <2>4 DEF Answering, EveryCallAnswered
<1>. QED  BY <1>7, <1>8, <1>9 DEF WireInv

LEMMA WireApply == ASSUME WireInv, Apply PROVE WireInv'
<1>1. /\ pc = "apply" /\ todo # <<>> /\ todo' = Tail(todo)
      /\ UNCHANGED <<pc, model, turn, messages, reply, request>>
  BY DEF Apply
<1>2. PICK accepted \in BOOLEAN : results' = results \o ResultOf(Head(todo), accepted)
  BY DEF Apply
<1> DEFINE r == ToolResult(Head(todo).id, accepted)
<1>3. todo \in Seq(CallBlocks) /\ results \in Seq(ResultBlocks)
  BY DEF WireInv, LoopTyped
<1>4. r \in ResultBlocks /\ r.id = Head(todo).id
  <2>1. Head(todo) \in CallBlocks
    <3> HIDE DEF CallBlocks
    <3>. QED  BY <1>1, <1>3
  <2>2. Head(todo).id \in BlockIds
    BY <2>1 DEF CallBlocks
  <2>. QED  BY <2>2 DEF ToolResult, ResultBlocks
<1>5. results' = results \o <<r>>
  BY <1>2 DEF ResultOf
<1> HIDE DEF r
<1>6. todo' \in Seq(CallBlocks) /\ results' \in Seq(ResultBlocks)
  <2> HIDE DEF CallBlocks, ResultBlocks
  <2>. QED  BY <1>1, <1>3, <1>4, <1>5
<1>7. Ids(results') \o Ids(todo') = Ids(results) \o Ids(todo)
  BY <1>1, <1>3, <1>4, <1>5, IdsMove
<1>8. LoopTyped'
  BY <1>1, <1>6 DEF WireInv, LoopTyped
<1>9. Sent'
  BY <1>1 DEF WireInv, Sent
<1>10. Answering'
  BY <1>1, <1>7 DEF WireInv, Answering, EveryCallAnswered, ToolUses
<1>. QED  BY <1>8, <1>9, <1>10 DEF WireInv

LEMMA WireEndTurn == ASSUME WireInv, EndTurn PROVE WireInv'
<1>1. /\ pc = "apply" /\ todo = <<>>
      /\ UNCHANGED <<model, turn, reply, todo, results, request>>
  BY DEF EndTurn
<1>2. CASE HoldOnly /\ pc' = "decide" /\ messages' = messages
  <2>1. turn' \in Nat /\ UNCHANGED <<model, convo>>
    BY <1>1, <1>2 DEF WireInv, LoopTyped, convo
  <2>. QED  BY <1>2, <2>1, WireKept
<1>3. CASE /\ messages' = Append(messages, Message("user", results))
           /\ pc' \in {"ask", "decide"}
  <2> DEFINE ms == Front(messages)
             m  == Message("user", results)
  <2>1. /\ ms \in Seq(Kept) /\ ms # <<>>
        /\ messages = Append(ms, Message("assistant", reply.blocks))
        /\ EachCallAnswered(Wire(Provider[model], ms))
        /\ Ids(results) \o Ids(todo) = Ids(ToolUses)
    BY <1>1 DEF WireInv, Answering
  <2>2. /\ results \in Seq(ResultBlocks) /\ reply.blocks \in Seq(ReplyBlocks)
        /\ messages \in Seq(Kept)
    BY DEF WireInv, LoopTyped
  <2>3. Ids(results) = Ids(OfType(reply.blocks, "tool_use"))
    <3>1. Ids(todo) = <<>>
      BY <1>1 DEF Ids
    <3>2. Ids(results) \in Seq(BlockIds)
      <4> HIDE DEF CallBlocks, ResultBlocks, BlockIds
      <4>. QED  BY <2>2, IdsType
    <3>3. Ids(results) \o <<>> = Ids(results)
      <4> HIDE DEF BlockIds
      <4>. QED  BY <3>2, ConcatEmptySeq
    <3>. QED  BY <2>1, <3>1, <3>3 DEF ToolUses
  <2> HIDE DEF ms
  <2>4. EachCallAnswered(Wire(Provider[model], messages'))
    BY <1>3, <2>1, <2>2, <2>3, RepliesAnswered
  <2>5. Sent' /\ messages' \in Seq(Kept)
    <3>1. m \in Kept /\ pc' # "idle"
      BY <1>3, <2>2, MessageKept
    <3> HIDE DEF m
    <3>. QED  BY <1>1, <1>3, <3>1, SentGrows DEF WireInv, m
  <2>6. LoopTyped'
    BY <1>1, <1>3, <2>5 DEF WireInv, LoopTyped
  <2>7. Answering'
    <3>1. messages' # <<>>
      BY <1>3, <2>2, MessageKept, AppendProperties
    <3>. QED  BY <1>1, <1>3, <2>4, <3>1 DEF WireInv, Answering, EveryCallAnswered
  <2>. QED  BY <2>5, <2>6, <2>7 DEF WireInv
<1>. QED  BY <1>2, <1>3 DEF EndTurn

LEMMA WireStep == WireInv /\ [Next]_vars => WireInv'
<1> SUFFICES ASSUME WireInv, [Next]_vars PROVE WireInv'
  OBVIOUS
<1>0. turn \in Nat
  BY DEF WireInv, LoopTyped
<1>1. CASE BeginCycle
  BY <1>1, WireBegin
<1>2. CASE Ask
  BY <1>2, WireAsk
<1>3. CASE Receive
  BY <1>3, WireReceive
<1>4. CASE InferHold
  BY <1>0, <1>4, WireKept DEF InferHold
<1>5. CASE Apply
  BY <1>5, WireApply
<1>6. CASE EndTurn
  BY <1>6, WireEndTurn
<1>7. CASE TurnsUsedUp
  BY <1>0, <1>7, WireKept DEF TurnsUsedUp
<1>8. CASE LogDecision
  BY <1>0, <1>8, WireKept DEF LogDecision
<1>9. CASE LogTokenUsage
  BY <1>9, WireGone DEF LogTokenUsage
<1>10. CASE Abort
  BY <1>10, WireGone DEF Abort
<1>11. CASE UNCHANGED vars
  BY <1>0, <1>11, WireKept DEF vars
<1>. QED  BY <1>1, <1>2, <1>3, <1>4, <1>5, <1>6, <1>7, <1>8, <1>9, <1>10, <1>11 DEF Next

(* What was sent answers every call, and what is kept answers every call but   *)
(* those of the last reply that are still to do: the loop keeps both.         *)
THEOREM WireCorrect == Spec => []WireInv
BY WireStart, WireStep, PTL DEF Spec

(* EveryCallAnswered: for both shapes, any replies and any rejections, a        *)
(* request that is sent answers each call once and in its place.              *)
THEOREM CallsAnswered == Spec => []EveryCallAnswered
<1>1. WireInv => EveryCallAnswered
  BY DEF WireInv, Answering
<1>. QED  BY <1>1, WireCorrect, PTL

(* RequestsExtend: whoever serves the model, a request begins with the whole    *)
(* request before it, marks for the cache included.                           *)
THEOREM CacheHolds == Spec => RequestsExtend
<1>1. ASSUME WireInv, [Next]_vars
      PROVE  [request # <<>> /\ pc' # "idle" => IsPrefix(request, request')]_vars
  <2> SUFFICES ASSUME Next, request # <<>>, pc' # "idle" PROVE IsPrefix(request, request')
    BY <1>1
  <2>1. request \in Seq(Sendable) /\ IsPrefix(request, request)
    <3>1. request \in Seq(Sendable)
      BY <1>1 DEF WireInv, LoopTyped
    <3>. QED  BY <3>1, PrefixByIndex
  <2>2. CASE Ask
    BY <1>1, <2>2 DEF Ask, WireInv, Sent
  <2>3. CASE LogTokenUsage \/ Abort
    BY <2>3 DEF LogTokenUsage, Abort, LocalsGone
  <2>4. CASE ~Ask /\ ~LogTokenUsage /\ ~Abort
    <3>1. request' = request
      BY <2>4 DEF Next, BeginCycle, Receive, InferHold, Apply, EndTurn, TurnsUsedUp,
                  LogDecision, convo
    <3>. QED  BY <2>1, <3>1
  <2>. QED  BY <2>2, <2>3, <2>4
<1>. QED  BY <1>1, WireCorrect, PTL DEF Spec, RequestsExtend

-------------------------------------------------------------------------------
CallNames == STRING \cup {"hold"}

ActionRecords == [name : CallNames, accepted : BOOLEAN, inferred : BOOLEAN]

Names(s) == [i \in DOMAIN s |-> s[i].name]

(* What DecisionTellsEveryCall asks of a row. *)
Tells(row) ==
    LET told == IF ToolUses = <<>> THEN Front(row) ELSE row
    IN  /\ row # <<>>
        /\ Names(told) = Names(CallsMade)
        /\ \A i \in DOMAIN row : row[i].inferred <=> i = Len(row) /\ ToolUses = <<>>

(* The actions so far tell the calls so far, short of those still to do.       *)
Telling ==
    /\ actions \in Seq(ActionRecords)
    /\ pc = "idle" => turn = 0 /\ actions = <<>>
    /\ pc \in {"ask", "wait", "infer", "apply"} =>
          /\ \A i \in DOMAIN actions : ~actions[i].inferred
          /\ Names(actions) \o Names(todo) = Names(CallsMade)
    /\ pc \in {"idle", "ask", "wait", "infer"} => todo = <<>>
    /\ pc = "ask" /\ turn > 0 => ToolUses # <<>> /\ actions # <<>>
    /\ pc = "infer" => ToolUses = <<>>
    /\ pc = "apply" => ToolUses # <<>> /\ (actions # <<>> \/ todo # <<>>)
    /\ pc = "decide" => Tells(actions)
    /\ pc = "usage" => Tells(decision)

TellInv == WireInv /\ Telling

(* The calls of a conversation, and of one message more.                      *)
Calls(ms) == FlattenSeq([i \in DOMAIN ms |-> OfType(ms[i].blocks, "tool_use")])

CallLists(ms) == [i \in DOMAIN ms |-> OfType(ms[i].blocks, "tool_use")]

LEMMA MessageCalls ==
    ASSUME NEW m \in Kept
    PROVE  /\ OfType(m.blocks, "tool_use") \in Seq(CallBlocks)
           /\ m.role = "user" => OfType(m.blocks, "tool_use") = <<>>
<1>1. CASE m \in FromModel
  <2>1. m.blocks \in Seq(ReplyBlocks) /\ m.role = "assistant"
    BY <1>1 DEF FromModel
  <2>. QED  BY <2>1, ToolUsesType
<1>2. CASE m \in FromUser
  <2>1. m.blocks \in Seq(TextBlocks) \/ m.blocks \in Seq(ResultBlocks)
    BY <1>2 DEF FromUser
  <2>2. /\ \A x \in TextBlocks : x.type # "tool_use"
        /\ \A x \in ResultBlocks : x.type # "tool_use"
    BY DEF TextBlocks, ResultBlocks
  <2> HIDE DEF TextBlocks, ResultBlocks, CallBlocks
  <2>3. OfType(m.blocks, "tool_use") = <<>>
    BY <2>1, <2>2, OfTypeNone
  <2>. QED  BY <2>3, EmptySeq
<1>. QED  BY <1>1, <1>2 DEF Kept

LEMMA CallsAppend ==
    ASSUME NEW ms \in Seq(Kept)
    PROVE  /\ Calls(<<>>) = <<>> /\ Calls(ms) \in Seq(CallBlocks)
           /\ \A m \in Kept : Calls(Append(ms, m)) = Calls(ms) \o OfType(m.blocks, "tool_use")
<1>1. \A s \in Seq(Kept) : CallLists(s) \in Seq(Seq(CallBlocks))
  <2> TAKE s \in Seq(Kept)
  <2> DEFINE n == Len(s)
  <2>1. \A i \in 1..n : OfType(s[i].blocks, "tool_use") \in Seq(CallBlocks)
    <3> TAKE i \in 1..n
    <3>1. s[i] \in Kept
      OBVIOUS
    <3>. QED  BY <3>1, MessageCalls
  <2>2. CallLists(s) \in [1..n -> Seq(CallBlocks)] /\ n \in Nat
    BY <2>1 DEF CallLists
  <2> HIDE DEF n
  <2>. QED  BY <2>2, FunctionIsSeq
<1>2. \A s : Calls(s) = FlattenSeq(CallLists(s))
  BY DEF Calls, CallLists
<1>3. Calls(<<>>) = <<>>
  <2>1. CallLists(<<>>) = <<>>
    BY DEF CallLists
  <2>. QED  BY <1>2, <2>1, FlattenEmpty
<1>4. Calls(ms) \in Seq(CallBlocks)
  BY <1>1, <1>2, FlattenType
<1>5. ASSUME NEW m \in Kept
      PROVE  Calls(Append(ms, m)) = Calls(ms) \o OfType(m.blocks, "tool_use")
  <2>1. CallLists(Append(ms, m)) = Append(CallLists(ms), OfType(m.blocks, "tool_use"))
    BY DEF CallLists
  <2>2. OfType(m.blocks, "tool_use") \in Seq(CallBlocks) /\ CallLists(ms) \in Seq(Seq(CallBlocks))
    BY <1>1, MessageCalls
  <2> HIDE DEF CallBlocks
  <2>. QED  BY <1>2, <2>1, <2>2, FlattenAppend
<1>. QED  BY <1>3, <1>4, <1>5

LEMMA NamesType ==
    ASSUME NEW s, s \in Seq(ActionRecords) \/ s \in Seq(CallBlocks)
    PROVE  Names(s) \in Seq(CallNames) /\ Len(Names(s)) = Len(s) /\ DOMAIN s = 1..Len(s)
<1>1. /\ \A x \in ActionRecords : x.name \in CallNames
      /\ \A x \in CallBlocks : x.name \in CallNames
  BY DEF ActionRecords, CallBlocks, CallNames
<1> HIDE DEF ActionRecords, CallBlocks
<1> DEFINE n == Len(s)
<1>2. Names(s) \in [1..n -> CallNames] /\ n \in Nat /\ DOMAIN s = 1..n
  BY <1>1 DEF Names
<1> HIDE DEF n
<1>3. Names(s) \in Seq(CallNames) /\ Len(Names(s)) = n
  BY <1>2, FunctionIsSeq
<1>. QED  BY <1>2, <1>3 DEF n

(* Pointwise: what has a name in a place. *)
LEMMA NamesPointwise ==
    ASSUME NEW S, NEW s \in Seq(S), \A x \in S : x.name \in CallNames
    PROVE  /\ Names(s) \in Seq(CallNames) /\ Len(Names(s)) = Len(s)
           /\ \A i \in 1..Len(s) : Names(s)[i] = s[i].name
<1> DEFINE n == Len(s)
<1>1. Names(s) \in [1..n -> CallNames] /\ n \in Nat /\ \A i \in 1..n : Names(s)[i] = s[i].name
  BY DEF Names
<1> HIDE DEF n
<1>2. Names(s) \in Seq(CallNames) /\ Len(Names(s)) = n
  BY <1>1, FunctionIsSeq
<1>. QED  BY <1>1, <1>2 DEF n

LEMMA NamesConcat ==
    ASSUME NEW S, NEW s \in Seq(S), NEW t \in Seq(S), \A x \in S : x.name \in CallNames
    PROVE  Names(s \o t) = Names(s) \o Names(t)
<1> DEFINE u == s \o t
           a == Names(s)
           b == Names(t)
           c == Names(u)
<1>1. u \in Seq(S) /\ Len(u) = Len(s) + Len(t)
      /\ \A i \in 1..Len(u) : u[i] = IF i <= Len(s) THEN s[i] ELSE t[i - Len(s)]
  BY ConcatProperties
<1>2. a \in Seq(CallNames) /\ Len(a) = Len(s) /\ \A i \in 1..Len(s) : a[i] = s[i].name
  BY NamesPointwise
<1>3. b \in Seq(CallNames) /\ Len(b) = Len(t) /\ \A i \in 1..Len(t) : b[i] = t[i].name
  BY NamesPointwise
<1> HIDE DEF u, a, b
<1>4. c \in Seq(CallNames) /\ Len(c) = Len(u) /\ \A i \in 1..Len(u) : c[i] = u[i].name
  BY <1>1, NamesPointwise
<1> HIDE DEF c
<1>9. a \in Seq(CallNames) /\ b \in Seq(CallNames)
  BY <1>2, <1>3
<1>10. a \o b \in Seq(CallNames) /\ Len(a \o b) = Len(a) + Len(b)
  BY <1>9, ConcatProperties
<1>5. \A i \in 1..Len(a) + Len(b) : (a \o b)[i] = IF i <= Len(a) THEN a[i] ELSE b[i - Len(a)]
  BY <1>9, ConcatProperties
<1>6. Len(s) \in Nat /\ Len(t) \in Nat
  OBVIOUS
<1>7. ASSUME NEW i \in 1..Len(c) PROVE c[i] = (a \o b)[i]
  <2>1. i \in 1..Len(u) /\ i \in 1..Len(a) + Len(b) /\ i \in Int
    BY <1>1, <1>2, <1>3, <1>4
  <2>2. CASE i <= Len(s)
    <3>1. i \in 1..Len(s)
      BY <1>6, <2>1, <2>2
    <3>2. c[i] = s[i].name /\ (a \o b)[i] = a[i]
      BY <1>1, <1>2, <1>4, <1>5, <2>1, <2>2
    <3>. QED  BY <1>2, <3>1, <3>2
  <2>3. CASE ~(i <= Len(s))
    <3>1. i - Len(s) \in 1..Len(t)
      BY <1>1, <1>6, <2>1, <2>3
    <3>2. c[i] = t[i - Len(s)].name /\ (a \o b)[i] = b[i - Len(s)]
      BY <1>1, <1>2, <1>4, <1>5, <2>1, <2>3
    <3>. QED  BY <1>3, <3>1, <3>2
  <2>. QED  BY <2>2, <2>3
<1>8. c = a \o b
  <2>1. Len(c) = Len(a \o b)
    BY <1>1, <1>2, <1>3, <1>4, <1>10
  <2>. QED  BY <1>4, <1>10, <1>7, <2>1, SeqEqual
<1>. QED  BY <1>8 DEF a, b, c, u

LEMMA NamesMove ==
    ASSUME NEW as \in Seq(ActionRecords), NEW cs \in Seq(CallBlocks), cs # <<>>,
           NEW a \in ActionRecords, a.name = Head(cs).name
    PROVE  Names(Append(as, a)) \o Names(Tail(cs)) = Names(as) \o Names(cs)
<1>0. /\ \A x \in ActionRecords : x.name \in CallNames
      /\ \A x \in CallBlocks : x.name \in CallNames
  BY DEF ActionRecords, CallBlocks, CallNames
<1> HIDE DEF ActionRecords, CallBlocks
<1>1. Tail(cs) \in Seq(CallBlocks) /\ cs = <<Head(cs)>> \o Tail(cs) /\ Head(cs) \in CallBlocks
  OBVIOUS
<1>2. Names(Append(as, a)) = Names(as) \o <<a.name>>
  <2> DEFINE e == <<a>>
  <2>1. e \in Seq(ActionRecords) /\ Append(as, a) = as \o e
    <3>1. e \in Seq(ActionRecords)
      OBVIOUS
    <3>2. Append(as, a) = as \o <<a>>
      BY AppendIsConcat
    <3>. QED  BY <3>1, <3>2
  <2>2. Names(e) = <<a.name>>
    BY DEF Names
  <2> HIDE DEF e
  <2>3. Names(as \o e) = Names(as) \o Names(e)
    BY <1>0, <2>1, NamesConcat
  <2>. QED  BY <2>1, <2>2, <2>3
<1>3. Names(cs) = <<a.name>> \o Names(Tail(cs))
  <2> DEFINE h == Head(cs)
             u == Tail(cs)
  <2>1. h \in CallBlocks /\ u \in Seq(CallBlocks) /\ cs = <<h>> \o u /\ h.name = a.name
    BY <1>1
  <2> HIDE DEF h, u
  <2> DEFINE e == <<h>>
  <2>2. e \in Seq(CallBlocks)
    BY <2>1
  <2>3. Names(e) = <<h.name>>
    BY DEF Names
  <2> HIDE DEF e
  <2>4. Names(e \o u) = Names(e) \o Names(u)
    BY <1>0, <2>1, <2>2, NamesConcat
  <2>. QED  BY <2>1, <2>3, <2>4 DEF u, e
<1> DEFINE x == Names(as)
           y == <<a.name>>
           z == Names(Tail(cs))
<1>4. x \in Seq(CallNames) /\ y \in Seq(CallNames) /\ z \in Seq(CallNames)
  <2>1. a.name \in CallNames
    BY DEF ActionRecords
  <2>2. y \in Seq(CallNames)
    BY <2>1
  <2>3. x \in Seq(CallNames) /\ z \in Seq(CallNames)
    BY <1>1, NamesType
  <2>. QED  BY <2>2, <2>3
<1>5. Names(Append(as, a)) = x \o y /\ Names(cs) = y \o z
  BY <1>2, <1>3
<1> HIDE DEF x, y, z
<1>6. (x \o y) \o z = x \o (y \o z)
  BY <1>4, ConcatAssociative
<1>. QED  BY <1>5, <1>6 DEF x, z

LEMMA NoNames == Names(<<>>) = <<>> /\ \A s \in Seq(CallNames) : s \o <<>> = s /\ <<>> \o s = s
<1>1. Names(<<>>) = <<>>
  BY DEF Names
<1>. QED  BY <1>1, ConcatEmptySeq

LEMMA MadeType ==
    ASSUME LoopTyped
    PROVE  /\ CallsMade = Calls(messages) /\ CallsMade \in Seq(CallBlocks)
           /\ Names(CallsMade) \in Seq(CallNames)
<1>1. CallsMade = Calls(messages)
  BY DEF CallsMade, Calls
<1>2. messages \in Seq(Kept)
  BY DEF LoopTyped
<1>3. CallsMade \in Seq(CallBlocks)
  BY <1>1, <1>2, CallsAppend
<1> HIDE DEF CallBlocks
<1>4. Names(CallsMade) \in Seq(CallNames)
  BY <1>3, NamesType
<1>. QED  BY <1>1, <1>3, <1>4

LEMMA TellStart == Init => Telling
<1> SUFFICES ASSUME Init PROVE Telling
  OBVIOUS
<1>1. <<>> \in Seq(ActionRecords)
  BY EmptySeq
<1>. QED  BY <1>1 DEF Init, Telling

LEMMA TellGone == ASSUME LocalsGone PROVE Telling'
<1>1. <<>> \in Seq(ActionRecords)
  BY EmptySeq
<1>. QED  BY <1>1 DEF LocalsGone, Telling

LEMMA TellBegin == ASSUME TellInv, BeginCycle PROVE Telling'
<1> DEFINE m == Message("user", <<Text("context")>>)
<1>1. m \in Kept /\ m.role = "user"
  <2>1. messages' = <<m>> /\ messages' \in Seq(Kept)
    BY WireBegin DEF TellInv, WireInv, LoopTyped, BeginCycle
  <2>2. messages'[1] = m /\ 1 \in DOMAIN messages'
    BY <2>1
  <2> HIDE DEF m, Kept
  <2>3. m \in Kept
    BY <2>1, <2>2, ElementOfSeq
  <2>. QED  BY <2>3 DEF m, Message
<1>2. Calls(<<m>>) = <<>>
  <2>1. OfType(m.blocks, "tool_use") = <<>>
    BY <1>1, MessageCalls
  <2> DEFINE e == <<>>
  <2> HIDE DEF m, Kept
  <2>2. e \in Seq(Kept) /\ Append(e, m) = <<m>>
    OBVIOUS
  <2> HIDE DEF e
  <2>3. Calls(Append(e, m)) = Calls(e) \o OfType(m.blocks, "tool_use")
    BY <1>1, <2>2, CallsAppend
  <2>4. Calls(e) = <<>>
    BY <2>2, CallsAppend DEF e
  <2>. QED  BY <2>1, <2>2, <2>3, <2>4
<1>3. /\ pc = "idle" /\ pc' = "ask" /\ turn' = 0 /\ actions' = <<>> /\ todo' = <<>>
      /\ messages' = <<m>> /\ reply' = reply
  BY DEF TellInv, Telling, BeginCycle
<1>4. CallsMade' = <<>>
  BY <1>2, <1>3 DEF CallsMade, Calls
<1>5. Names(actions') \o Names(todo') = Names(CallsMade')
  BY <1>3, <1>4, NoNames, EmptySeq
<1>6. actions' \in Seq(ActionRecords)
  BY <1>3, EmptySeq
<1>. QED  BY <1>3, <1>5, <1>6 DEF Telling

LEMMA TellAsk == ASSUME TellInv, Ask PROVE Telling'
<1>1. /\ pc = "ask" /\ pc' = "wait"
      /\ UNCHANGED <<messages, reply, todo, actions>>
  BY DEF Ask
<1>. QED  BY <1>1 DEF TellInv, Telling, CallsMade

(* The calls of a reply are added to those made, and to those to do. *)
LEMMA TellReceive == ASSUME TellInv, Receive PROVE Telling'
<1> DEFINE m == Message("assistant", reply'.blocks)
           u == OfType(reply'.blocks, "tool_use")
<1>1. /\ pc = "wait" /\ messages' = Append(messages, m) /\ actions' = actions
      /\ todo' = u /\ ToolUses' = u
      /\ pc' = IF u = <<>> THEN "infer" ELSE "apply"
  BY DEF Receive, ToolUses
<1>2. LoopTyped /\ LoopTyped'
  BY WireReceive DEF TellInv, WireInv
<1>3. reply'.blocks \in Seq(ReplyBlocks) /\ m \in Kept /\ m.blocks = reply'.blocks
  <2>1. reply'.blocks \in Seq(ReplyBlocks)
    BY <1>2 DEF LoopTyped
  <2>. QED  BY <2>1, MessageKept DEF Message
<1>4. u \in Seq(CallBlocks)
  BY <1>3, ToolUsesType
<1>5. CallsMade' = CallsMade \o u
  <2>1. messages \in Seq(Kept)
    BY <1>2 DEF LoopTyped
  <2>2. Calls(Append(messages, m)) = Calls(messages) \o u
    <3>1. \A x \in Kept : Calls(Append(messages, x)) = Calls(messages) \o OfType(x.blocks, "tool_use")
      BY <2>1, CallsAppend
    <3>. QED  BY <1>3, <3>1
  <2>3. CallsMade' = Calls(messages') /\ CallsMade = Calls(messages)
    BY DEF CallsMade, Calls
  <2>. QED  BY <1>1, <2>2, <2>3
<1>6. CallsMade \in Seq(CallBlocks)
  BY <1>2, MadeType
<1>7. Names(CallsMade') = Names(CallsMade) \o Names(u)
  <2>1. \A x \in CallBlocks : x.name \in CallNames
    BY DEF CallBlocks, CallNames
  <2> HIDE DEF u, CallBlocks
  <2>2. Names(CallsMade \o u) = Names(CallsMade) \o Names(u)
    BY <1>4, <1>6, <2>1, NamesConcat
  <2>. QED  BY <1>5, <2>2
<1>8. Names(actions) = Names(CallsMade) /\ actions \in Seq(ActionRecords)
  <2>1. actions \in Seq(ActionRecords) /\ todo = <<>>
        /\ Names(actions) \o Names(todo) = Names(CallsMade)
    BY <1>1 DEF TellInv, Telling
  <2>2. Names(actions) \in Seq(CallNames)
    BY <2>1, NamesType
  <2>. QED  BY <2>1, <2>2, NoNames
<1>9. \A i \in DOMAIN actions' : ~actions'[i].inferred
  BY <1>1 DEF TellInv, Telling
<1> HIDE DEF u, m
<1>10. Names(actions') \o Names(todo') = Names(CallsMade')
  BY <1>1, <1>7, <1>8
<1>. QED  BY <1>1, <1>8, <1>9, <1>10 DEF Telling

LEMMA TellInfer == ASSUME TellInv, InferHold PROVE Telling'
<1> DEFINE a == Action("hold", TRUE, TRUE)
           n == Len(actions)
<1>1. /\ pc = "infer" /\ pc' = "decide" /\ actions' = Append(actions, a)
      /\ UNCHANGED <<turn, messages, reply, todo>>
  BY DEF InferHold, convo
<1>2. /\ actions \in Seq(ActionRecords) /\ todo = <<>> /\ ToolUses = <<>>
      /\ \A i \in DOMAIN actions : ~actions[i].inferred
      /\ Names(actions) \o Names(todo) = Names(CallsMade)
  BY <1>1 DEF TellInv, Telling
<1>3. a \in ActionRecords /\ a.inferred = TRUE
  <2>1. \A name \in CallNames : \A x \in BOOLEAN : \A y \in BOOLEAN :
            Action(name, x, y) \in ActionRecords /\ Action(name, x, y).inferred = y
    BY DEF Action, ActionRecords
  <2>2. "hold" \in CallNames
    BY DEF CallNames
  <2>5. TRUE \in BOOLEAN
    BY Zenon
  <2> HIDE DEF ActionRecords
  <2>3. PICK x \in BOOLEAN : x = TRUE
    BY <2>5
  <2>4. Action("hold", x, x) \in ActionRecords /\ Action("hold", x, x).inferred = x
    BY <2>1, <2>2
  <2>. QED  BY <2>3, <2>4
<1>4. Names(actions) = Names(CallsMade)
  <2>1. Names(actions) \in Seq(CallNames)
    BY <1>2, NamesType
  <2>. QED  BY <1>2, <2>1, NoNames
<1> HIDE DEF a, ActionRecords
<1>5. /\ actions' \in Seq(ActionRecords) /\ actions' # <<>>
      /\ Len(actions') = n + 1 /\ actions'[n + 1] = a
      /\ \A i \in 1..n : actions'[i] = actions[i]
      /\ DOMAIN actions = 1..n /\ DOMAIN actions' = 1..(n + 1) /\ n \in Nat
  BY <1>1, <1>2, <1>3, AppendProperties
<1>6. Front(actions') = actions
  BY <1>1, <1>2, <1>3, FrontAppend
<1> HIDE DEF n
<1>7. \A i \in DOMAIN actions' : actions'[i].inferred <=> i = Len(actions')
  BY <1>2, <1>3, <1>5
<1>8. ToolUses' = <<>> /\ CallsMade' = CallsMade
  BY <1>1, <1>2 DEF ToolUses, CallsMade
<1>9. Tells(actions)'
  BY <1>4, <1>5, <1>6, <1>7, <1>8 DEF Tells
<1>. QED  BY <1>1, <1>5, <1>9 DEF Telling

LEMMA TellApply == ASSUME TellInv, Apply PROVE Telling'
<1>1. /\ pc = "apply" /\ pc' = "apply" /\ todo # <<>> /\ todo' = Tail(todo)
      /\ UNCHANGED <<turn, messages, reply>>
  BY DEF Apply
<1>2. PICK accepted \in BOOLEAN : actions' = Append(actions, Action(Head(todo).name, accepted, FALSE))
  BY DEF Apply
<1> DEFINE a == Action(Head(todo).name, accepted, FALSE)
           n == Len(actions)
<1>3. /\ actions \in Seq(ActionRecords) /\ ToolUses # <<>>
      /\ \A i \in DOMAIN actions : ~actions[i].inferred
      /\ Names(actions) \o Names(todo) = Names(CallsMade)
  BY <1>1 DEF TellInv, Telling
<1>4. todo \in Seq(CallBlocks)
  BY DEF TellInv, WireInv, LoopTyped
<1>5. a \in ActionRecords /\ ~a.inferred /\ a.name = Head(todo).name
  <2>1. Head(todo) \in CallBlocks
    <3> HIDE DEF CallBlocks
    <3>. QED  BY <1>1, <1>4
  <2>2. Head(todo).name \in CallNames
    BY <2>1 DEF CallBlocks, CallNames
  <2>. QED  BY <2>2 DEF Action, ActionRecords
<1> HIDE DEF a, ActionRecords
<1>6. actions' = Append(actions, a)
  BY <1>2 DEF a
<1>7. Names(actions') \o Names(todo') = Names(actions) \o Names(todo)
  BY <1>1, <1>3, <1>4, <1>5, <1>6, NamesMove
<1>8. /\ actions' \in Seq(ActionRecords) /\ actions' # <<>>
      /\ actions'[n + 1] = a
      /\ \A i \in 1..n : actions'[i] = actions[i]
      /\ DOMAIN actions = 1..n /\ DOMAIN actions' = 1..(n + 1) /\ n \in Nat
  BY <1>3, <1>5, <1>6, AppendProperties
<1> HIDE DEF n
<1>9. \A i \in DOMAIN actions' : ~actions'[i].inferred
  BY <1>3, <1>5, <1>8
<1>10. ToolUses' = ToolUses /\ CallsMade' = CallsMade
  BY <1>1 DEF ToolUses, CallsMade
<1>. QED  BY <1>1, <1>3, <1>7, <1>8, <1>9, <1>10 DEF Telling

(* All calls done: the actions are the row. *)
LEMMA AllDone ==
    ASSUME actions \in Seq(ActionRecords), actions # <<>>, ToolUses # <<>>, todo = <<>>,
           Names(actions) \o Names(todo) = Names(CallsMade),
           \A i \in DOMAIN actions : ~actions[i].inferred
    PROVE  Tells(actions)
<1>1. Names(actions) \in Seq(CallNames)
  BY NamesType
<1>2. Names(actions) = Names(CallsMade)
  BY <1>1, NoNames
<1>. QED  BY <1>2 DEF Tells

LEMMA TellEndTurn == ASSUME TellInv, EndTurn PROVE Telling'
<1>1. /\ pc = "apply" /\ pc' \in {"ask", "decide"} /\ todo = <<>>
      /\ UNCHANGED <<turn, reply, todo, actions>>
  BY DEF EndTurn
<1>2. /\ actions \in Seq(ActionRecords) /\ actions # <<>> /\ ToolUses # <<>>
      /\ \A i \in DOMAIN actions : ~actions[i].inferred
      /\ Names(actions) \o Names(todo) = Names(CallsMade)
  BY <1>1 DEF TellInv, Telling
<1>3. ToolUses' = ToolUses
  BY <1>1 DEF ToolUses
<1>4. CallsMade' = CallsMade
  <2>1. CASE messages' = messages
    BY <2>1 DEF CallsMade
  <2>2. CASE messages' = Append(messages, Message("user", results))
    <3> DEFINE m == Message("user", results)
    <3>1. messages \in Seq(Kept) /\ m \in Kept /\ m.role = "user"
      <4>1. messages \in Seq(Kept) /\ results \in Seq(ResultBlocks)
        BY DEF TellInv, WireInv, LoopTyped
      <4>. QED  BY <4>1, MessageKept DEF Message
    <3>2. OfType(m.blocks, "tool_use") = <<>>
      BY <3>1, MessageCalls
    <3>3. Calls(messages) \in Seq(CallBlocks)
          /\ \A x \in Kept : Calls(Append(messages, x)) = Calls(messages) \o OfType(x.blocks, "tool_use")
      BY <3>1, CallsAppend
    <3> HIDE DEF m, CallBlocks
    <3>4. Calls(Append(messages, m)) = Calls(messages) \o <<>>
      BY <3>1, <3>2, <3>3
    <3>5. Calls(messages) \o <<>> = Calls(messages)
      BY <3>3, ConcatEmptySeq
    <3>6. CallsMade' = Calls(messages') /\ CallsMade = Calls(messages)
      BY DEF CallsMade, Calls
    <3>. QED  BY <2>2, <3>4, <3>5, <3>6 DEF m
  <2>. QED  BY <2>1, <2>2 DEF EndTurn
<1>5. Tells(actions)
  BY <1>1, <1>2, AllDone
<1>6. Tells(actions)'
  BY <1>1, <1>3, <1>4, <1>5 DEF Tells
<1>. QED  BY <1>1, <1>2, <1>3, <1>4, <1>6 DEF Telling

LEMMA TellStep == TellInv /\ [Next]_vars => Telling'
<1> SUFFICES ASSUME TellInv, [Next]_vars PROVE Telling'
  OBVIOUS
<1>1. CASE BeginCycle
  BY <1>1, TellBegin
<1>2. CASE Ask
  BY <1>2, TellAsk
<1>3. CASE Receive
  BY <1>3, TellReceive
<1>4. CASE InferHold
  BY <1>4, TellInfer
<1>5. CASE Apply
  BY <1>5, TellApply
<1>6. CASE EndTurn
  BY <1>6, TellEndTurn
<1>7. CASE TurnsUsedUp
  <2>1. /\ pc = "ask" /\ turn > 0 /\ pc' = "decide"
        /\ UNCHANGED <<turn, messages, reply, todo, actions>>
    BY <1>7, ModelsAssumption DEF TurnsUsedUp, convo
  <2>2. /\ actions \in Seq(ActionRecords) /\ actions # <<>> /\ ToolUses # <<>> /\ todo = <<>>
        /\ Names(actions) \o Names(todo) = Names(CallsMade)
        /\ \A i \in DOMAIN actions : ~actions[i].inferred
    BY <2>1 DEF TellInv, Telling
  <2>3. Tells(actions)
    BY <2>2, AllDone
  <2>4. Tells(actions)'
    BY <2>1, <2>3 DEF Tells, ToolUses, CallsMade
  <2>. QED  BY <2>1, <2>2, <2>4 DEF Telling
<1>8. CASE LogDecision
  <2>1. /\ pc = "decide" /\ pc' = "usage" /\ decision' = actions
        /\ UNCHANGED <<messages, reply, actions>>
    BY <1>8 DEF LogDecision, convo
  <2>2. Tells(actions) /\ actions \in Seq(ActionRecords)
    BY <2>1 DEF TellInv, Telling
  <2>3. Tells(decision)'
    BY <2>1, <2>2 DEF Tells, ToolUses, CallsMade
  <2>. QED  BY <2>1, <2>2, <2>3 DEF Telling
<1>9. CASE LogTokenUsage
  BY <1>9, TellGone DEF LogTokenUsage
<1>10. CASE Abort
  BY <1>10, TellGone DEF Abort
<1>11. CASE UNCHANGED vars
  BY <1>11 DEF vars, convo, tables, TellInv, Telling, Tells, ToolUses, CallsMade
<1>. QED  BY <1>1, <1>2, <1>3, <1>4, <1>5, <1>6, <1>7, <1>8, <1>9, <1>10, <1>11 DEF Next

(* The actions of the loop tell the calls made, short of those still to do.    *)
THEOREM TellCorrect == Spec => []TellInv
<1>1. Init => TellInv
  BY WireStart, TellStart DEF TellInv
<1>2. TellInv /\ [Next]_vars => TellInv'
  BY WireStep, TellStep DEF TellInv
<1>. QED  BY <1>1, <1>2, PTL DEF Spec

(* DecisionTellsEveryCall: whatever was rejected, left undone at the last turn  *)
(* or followed by text, the row that is logged has the calls the model made, in *)
(* their order, and a hold at the end when its last reply made none.           *)
THEOREM DecisionTells == Spec => []DecisionTellsEveryCall
<1>1. TellInv => DecisionTellsEveryCall
  BY DEF TellInv, Telling, Tells, Names, DecisionTellsEveryCall
<1>. QED  BY <1>1, TellCorrect, PTL

-------------------------------------------------------------------------------
(* The rows that are booked, and what they cost.                              *)
UsageType ==
    [input : Nat, read : Nat, creation : Nat, write5m : Nat, write1h : Nat, output : Nat]

RowType == [model : Models, tokens : TokenType]

RatesType == [input : Int, read : Int, write5m : Int, write1h : Int, output : Int]

LEMMA RatesAreRates == ASSUME NEW m PROVE RatesOf(m) \in RatesType
<1>1. /\ Haiku \in RatesType /\ Opus \in RatesType /\ DeepSeek31 \in RatesType
      /\ DeepSeek32 \in RatesType /\ Sonnet \in RatesType
  BY DEF Haiku, Opus, DeepSeek31, DeepSeek32, Sonnet, Rates, RatesType
<1> HIDE DEF RatesType
<1>2. CASE m = "claude-haiku-4-5-20251001"
  BY <1>1, <1>2 DEF RatesOf
<1>3. CASE m = "claude-opus-4-7"
  BY <1>1, <1>3 DEF RatesOf
<1>4. CASE m = "deepseek/deepseek-chat-v3.1"
  BY <1>1, <1>4 DEF RatesOf
<1>5. CASE m = "deepseek/deepseek-v3.2"
  BY <1>1, <1>5 DEF RatesOf
<1>6. CASE /\ m # "claude-haiku-4-5-20251001" /\ m # "claude-opus-4-7"
           /\ m # "deepseek/deepseek-chat-v3.1" /\ m # "deepseek/deepseek-v3.2"
  BY <1>1, <1>6 DEF RatesOf
<1>. QED  BY <1>2, <1>3, <1>4, <1>5, <1>6

LEMMA Product == \A a, b \in Int : a * b \in Int
OBVIOUS

LEMMA Distributes == \A a, b, c \in Int : (a + b) * c = a * c + b * c
OBVIOUS

LEMMA PriceType ==
    ASSUME NEW t \in TokenType, NEW r \in RatesType
    PROVE  Price(t, r) \in Int
<1>1. /\ t.input \in Int /\ t.read \in Int /\ t.write5m \in Int /\ t.write1h \in Int /\ t.output \in Int
      /\ r.input \in Int /\ r.read \in Int /\ r.write5m \in Int /\ r.write1h \in Int /\ r.output \in Int
  BY DEF TokenType, RatesType
<1>2. /\ t.input * r.input \in Int /\ t.read * r.read \in Int /\ t.write5m * r.write5m \in Int
      /\ t.write1h * r.write1h \in Int /\ t.output * r.output \in Int
  BY <1>1, Product
<1>. QED  BY <1>2 DEF Price

LEMMA PriceAdds ==
    ASSUME NEW r \in RatesType, NEW s \in TokenType, NEW t \in TokenType, NEW u \in TokenType,
           u.input = s.input + t.input, u.read = s.read + t.read,
           u.write5m = s.write5m + t.write5m, u.write1h = s.write1h + t.write1h,
           u.output = s.output + t.output
    PROVE  Price(u, r) = Price(s, r) + Price(t, r)
<1>1. /\ t.input \in Int /\ t.read \in Int /\ t.write5m \in Int /\ t.write1h \in Int /\ t.output \in Int
      /\ s.input \in Int /\ s.read \in Int /\ s.write5m \in Int /\ s.write1h \in Int /\ s.output \in Int
      /\ r.input \in Int /\ r.read \in Int /\ r.write5m \in Int /\ r.write1h \in Int /\ r.output \in Int
  BY DEF TokenType, RatesType
<1>2. /\ u.input * r.input = s.input * r.input + t.input * r.input
      /\ u.read * r.read = s.read * r.read + t.read * r.read
      /\ u.write5m * r.write5m = s.write5m * r.write5m + t.write5m * r.write5m
      /\ u.write1h * r.write1h = s.write1h * r.write1h + t.write1h * r.write1h
      /\ u.output * r.output = s.output * r.output + t.output * r.output
  BY <1>1, Distributes
<1>3. /\ t.input * r.input \in Int /\ t.read * r.read \in Int /\ t.write5m * r.write5m \in Int
      /\ t.write1h * r.write1h \in Int /\ t.output * r.output \in Int
      /\ s.input * r.input \in Int /\ s.read * r.read \in Int /\ s.write5m * r.write5m \in Int
      /\ s.write1h * r.write1h \in Int /\ s.output * r.output \in Int
  BY <1>1, Product
<1>. QED  BY <1>2, <1>3 DEF Price

LEMMA RowCost ==
    ASSUME NEW row \in RowType
    PROVE  CostForRow(row) \in Int
<1>1. row.tokens \in TokenType /\ RatesOf(row.model) \in RatesType
  BY RatesAreRates DEF RowType
<1>. QED  BY <1>1, PriceType DEF CostForRow

(* Aggregate by recursion, and of one row more. *)
SpendStep(rows) ==
    [n \in Nat |-> [x \in Int |-> IF n < Len(rows) THEN x + CostForRow(rows[n + 1]) ELSE x]]

LEMMA AggregateRuns ==
    ASSUME NEW rows \in Seq(RowType)
    PROVE  \E g : /\ Runs(Int, 0, SpendStep(rows), Len(rows), g)
                  /\ Aggregate(rows) = g[Len(rows)]
<1> DEFINE N == Len(rows)
<1>1. SpendStep(rows) \in [Nat -> [Int -> Int]] /\ 0 \in Int /\ N \in Nat
  <2>1. \A n \in Nat, x \in Int :
           (IF n < Len(rows) THEN x + CostForRow(rows[n + 1]) ELSE x) \in Int
    <3> TAKE n \in Nat, x \in Int
    <3>1. n < Len(rows) => CostForRow(rows[n + 1]) \in Int
      <4>1. n < Len(rows) => rows[n + 1] \in RowType
        OBVIOUS
      <4>. QED  BY <4>1, RowCost
    <3>. QED  BY <3>1
  <2>. QED  BY <2>1 DEF SpendStep
<1>2. PICK g : Runs(Int, 0, SpendStep(rows), N, g)
  BY <1>1, RunExists
<1> g \in [0..N -> Int]
  BY <1>2 DEF Runs
<1> DEFINE Step(f) == [i \in 0..N |-> IF i = 0 THEN 0 ELSE f[i - 1] + CostForRow(rows[i])]
           F == CHOOSE f : f = Step(f)
<1>3. Aggregate(rows) = F[N]
  BY DEF Aggregate
<1>4. \A i \in 0..N : g[i] = IF i = 0 THEN 0 ELSE g[i - 1] + CostForRow(rows[i])
  <2> TAKE i \in 0..N
  <2>1. CASE i = 0
    BY <1>2, <2>1 DEF Runs
  <2>2. CASE i # 0
    <3>1. /\ i - 1 \in 0..(N - 1) /\ (i - 1) + 1 = i /\ i - 1 < N /\ i - 1 \in Nat
          /\ i - 1 \in 0..N
      BY <2>2
    <3>2. g[(i - 1) + 1] = SpendStep(rows)[i - 1][g[i - 1]] /\ g[i - 1] \in Int
      BY <1>2, <3>1 DEF Runs
    <3>. QED  BY <2>2, <3>1, <3>2 DEF SpendStep
  <2>. QED  BY <2>1, <2>2
<1>5. g = Step(g)
  BY <1>4
<1>6. F = Step(F)
  BY <1>5
<1> HIDE DEF F
<1>7. \A i \in 0..N : F[i] = IF i = 0 THEN 0 ELSE F[i - 1] + CostForRow(rows[i])
  BY <1>6
<1>14. /\ F[0] = 0 /\ \A i \in 1..N : F[i] = F[i - 1] + CostForRow(rows[i])
       /\ g[0] = 0 /\ \A i \in 1..N : g[i] = g[i - 1] + CostForRow(rows[i])
  <2>1. 0 \in 0..N /\ \A i \in 1..N : i \in 0..N /\ i # 0
    BY <1>1
  <2>2. F[0] = 0
    BY <1>7, <2>1, Zenon
  <2>3. g[0] = 0
    BY <1>4, <2>1, Zenon
  <2>4. \A i \in 1..N : F[i] = F[i - 1] + CostForRow(rows[i])
    BY <1>7, <2>1, Zenon
  <2>5. \A i \in 1..N : g[i] = g[i - 1] + CostForRow(rows[i])
    BY <1>4, <2>1, Zenon
  <2>. QED  BY <2>2, <2>3, <2>4, <2>5
<1> DEFINE Good == {n \in Nat : n <= N => F[n] = g[n]}
<1>8. 0 \in Good
  BY <1>14
<1>9. \A n \in Good : n + 1 \in Good
  <2> SUFFICES ASSUME NEW n \in Nat, n <= N => F[n] = g[n], n + 1 <= N
               PROVE  F[n + 1] = g[n + 1]
    OBVIOUS
  <2>1. n + 1 \in 1..N /\ (n + 1) - 1 = n /\ n <= N
    BY <1>1
  <2>2. F[n + 1] = F[(n + 1) - 1] + CostForRow(rows[n + 1])
    BY <1>14, <2>1
  <2>3. g[n + 1] = g[(n + 1) - 1] + CostForRow(rows[n + 1])
    BY <1>14, <2>1
  <2>. QED  BY <2>1, <2>2, <2>3
<1> HIDE DEF Good
<1>10. Good = Nat
  BY <1>8, <1>9, NatSet DEF Good
<1>11. \A n \in Nat : n <= N => F[n] = g[n]
  BY <1>10 DEF Good
<1>12. N \in Nat /\ N <= N
  BY <1>1
<1>13. F[N] = g[N]
  BY <1>11, <1>12
<1>. QED  BY <1>2, <1>3, <1>13

LEMMA AggregateEmpty == Aggregate(<<>>) = 0
<1>1. PICK g : Runs(Int, 0, SpendStep(<<>>), Len(<<>>), g) /\ Aggregate(<<>>) = g[Len(<<>>)]
  BY EmptySeq, AggregateRuns
<1>. QED  BY <1>1 DEF Runs

LEMMA AggregateType ==
    ASSUME NEW rows \in Seq(RowType)
    PROVE  Aggregate(rows) \in Int
<1>1. PICK g : g \in [0..Len(rows) -> Int] /\ Aggregate(rows) = g[Len(rows)]
  BY AggregateRuns DEF Runs
<1>2. Len(rows) \in 0..Len(rows)
  OBVIOUS
<1>. QED  BY <1>1, <1>2

LEMMA AggregateAppend ==
    ASSUME NEW rows \in Seq(RowType), NEW row \in RowType
    PROVE  Aggregate(Append(rows, row)) = Aggregate(rows) + CostForRow(row)
<1> DEFINE c == Append(rows, row)
           N == Len(rows)
<1>1. c \in Seq(RowType) /\ Len(c) = N + 1 /\ c[N + 1] = row /\ N \in Nat
  BY AppendProperties
<1>2. \A n \in 1..N : c[n] = rows[n]
  BY AppendProperties
<1> HIDE DEF c
<1>3. PICK g : Runs(Int, 0, SpendStep(rows), N, g) /\ Aggregate(rows) = g[N]
  BY AggregateRuns
<1>4. PICK h : Runs(Int, 0, SpendStep(c), N + 1, h) /\ Aggregate(c) = h[N + 1]
  BY <1>1, AggregateRuns
<1>5. \A n \in 0..(N - 1), y \in Int : SpendStep(rows)[n][y] = SpendStep(c)[n][y]
  <2> TAKE n \in 0..(N - 1), y \in Int
  <2>1. n \in Nat /\ n + 1 \in 1..N /\ n < N /\ n < N + 1
    OBVIOUS
  <2>. QED  BY <1>1, <1>2, <2>1 DEF SpendStep
<1>6. g[N] = h[N]
  <2> DEFINE M == N + 1
             e == 0
             X == Int
             f1 == SpendStep(rows)
             f2 == SpendStep(c)
  <2>1. M \in Nat /\ N \in Nat /\ N <= M
    BY <1>1
  <2>2. Runs(X, e, f1, N, g) /\ Runs(X, e, f2, M, h)
    BY <1>3, <1>4
  <2>3. SameSteps(X, N, f1, f2)
    BY <1>5 DEF SameSteps
  <2> HIDE DEF N, M, X, e, f1, f2
  <2>. QED  BY <2>1, <2>2, <2>3, RunsAgree
<1>7. h[N + 1] = h[N] + CostForRow(row)
  <2>1. N \in 0..((N + 1) - 1) /\ N < N + 1 /\ N \in 0..(N + 1)
    BY <1>1
  <2>2. h[N + 1] = SpendStep(c)[N][h[N]] /\ h[N] \in Int
    BY <1>4, <2>1 DEF Runs
  <2>. QED  BY <1>1, <2>1, <2>2 DEF SpendStep
<1>. QED  BY <1>3, <1>4, <1>6, <1>7 DEF c

(* A longer count, or a dearer kind, costs no less. *)
LEMMA Dearer == \A n \in Nat, a, b \in Int : a <= b => n * a <= n * b
<1> SUFFICES ASSUME NEW n \in Nat, NEW a \in Int, NEW b \in Int, a <= b
             PROVE  n * a <= n * b
  OBVIOUS
<1>1. \A x, y \in Nat : x * y \in Nat
  OBVIOUS
<1> DEFINE c == b - a
<1>2. c \in Nat /\ b = a + c
  OBVIOUS
<1> HIDE DEF c
<1>3. n * c \in Nat /\ n * a \in Int
  BY <1>1, <1>2, Product
<1>4. n * b = n * a + n * c
  BY <1>2
<1>. QED  BY <1>2, <1>3, <1>4

(* What is known of the tokens of a cycle: the writes that were told apart. *)
KnownTokens(u) == [input |-> u.input, read |-> u.read, write5m |-> u.write5m,
                   write1h |-> u.write1h, output |-> u.output]

(* A bill of x for the usage u of a cycle on the model m: the writes that were   *)
(* not told apart cost between their number at the one price and at the other.   *)
SpentWithin(m, u, x) ==
    /\ Price(KnownTokens(u), ListPrice[m]) + NotTold(u) * ListPrice[m].write5m <= x
    /\ x <= Price(KnownTokens(u), ListPrice[m]) + NotTold(u) * ListPrice[m].write1h

Booking ==
    /\ usage \in UsageType /\ usageRows \in Seq(RowType)
    /\ spent \in Int /\ billed \in Int /\ doubt \in Int
    /\ usage.write5m + usage.write1h <= usage.creation
    /\ pc = "idle" => usage = NoTokens /\ spent = 0
    /\ SpentWithin(model, usage, spent)
    /\ SpendIsBooked

SpendInv == WireInv /\ Booking

LEMMA ListPriceType ==
    ASSUME NEW m \in Models
    PROVE  LET p == ListPrice[m]
           IN  /\ p \in RatesType /\ p \in TokenType
               /\ p.input \in Nat /\ p.read \in Nat /\ p.write5m \in Nat
               /\ p.write1h \in Nat /\ p.output \in Nat /\ p.write5m <= p.write1h
<1>1. ListPrice[m] \in TokenType
  BY PricesAssumption
<1>2. ListPrice[m] \in RatesType
  BY <1>1 DEF TokenType, RatesType
<1>. QED  BY <1>1, <1>2, PricesAssumption DEF TokenType

LEMMA KnownType ==
    ASSUME NEW u \in UsageType
    PROVE  /\ KnownTokens(u) \in TokenType /\ RowTokens(u) \in TokenType
           /\ NotTold(u) \in Int
BY DEF KnownTokens, RowTokens, NotTold, UsageType, TokenType

LEMMA UsageRowType ==
    ASSUME LoopTyped, usage \in UsageType
    PROVE  UsageRow \in RowType /\ CostForRow(UsageRow) = Price(RowTokens(usage), RatesOf(model))
<1>1. RowTokens(usage) \in TokenType /\ model \in Models
  BY KnownType DEF LoopTyped
<1>2. /\ UsageRow = [model |-> model, tokens |-> RowTokens(usage)]
      /\ UsageRow.model = model /\ UsageRow.tokens = RowTokens(usage)
  BY DEF UsageRow
<1>3. UsageRow \in RowType
  BY <1>1, <1>2 DEF RowType
<1>. QED  BY <1>2, <1>3 DEF CostForRow

(* A cycle that used nothing costs nothing. *)
LEMMA NothingSpent ==
    /\ NoTokens \in UsageType
    /\ NoTokens.write5m + NoTokens.write1h <= NoTokens.creation
    /\ \A m \in Models : SpentWithin(m, NoTokens, 0)
<1>1. NoTokens \in UsageType /\ NoTokens.write5m + NoTokens.write1h <= NoTokens.creation
  BY DEF NoTokens, UsageType
<1>2. ASSUME NEW m \in Models PROVE SpentWithin(m, NoTokens, 0)
  <2> DEFINE t == KnownTokens(NoTokens)
             p == ListPrice[m]
             n == NotTold(NoTokens)
  <2>1. t.input = 0 /\ t.read = 0 /\ t.write5m = 0 /\ t.write1h = 0 /\ t.output = 0 /\ n = 0
    BY DEF KnownTokens, NotTold, NoTokens
  <2>2. /\ p.input \in Int /\ p.read \in Int /\ p.write5m \in Int
        /\ p.write1h \in Int /\ p.output \in Int
    BY ListPriceType
  <2> HIDE DEF t, p, n
  <2>3. \A x \in Int : 0 * x = 0
    OBVIOUS
  <2>4. Price(t, p) = 0 /\ n * p.write5m = 0 /\ n * p.write1h = 0
    BY <2>1, <2>2, <2>3 DEF Price
  <2>5. Price(t, p) + n * p.write5m <= 0 /\ 0 <= Price(t, p) + n * p.write1h
    BY <2>4
  <2>. QED  BY <2>5 DEF t, p, n, SpentWithin
<1>. QED  BY <1>1, <1>2

(* The usage of a call more, field by field. *)
LEMMA UsageAdds ==
    ASSUME NEW t \in TokenType, NEW v \in UsageType, NEW split \in BOOLEAN
    PROVE  LET u == AddUsage(v, Reported(t, split))
           IN  /\ u \in UsageType
               /\ u.input = v.input + t.input /\ u.read = v.read + t.read
               /\ u.output = v.output + t.output
               /\ u.creation = v.creation + (t.write5m + t.write1h)
               /\ u.write5m = v.write5m + (IF split THEN t.write5m ELSE 0)
               /\ u.write1h = v.write1h + (IF split THEN t.write1h ELSE 0)
<1> DEFINE K == {"input", "read", "creation", "write5m", "write1h", "output"}
           rep == Reported(t, split)
           u == AddUsage(v, rep)
<1>1. /\ t.input \in Nat /\ t.read \in Nat /\ t.output \in Nat
      /\ t.write5m \in Nat /\ t.write1h \in Nat
  BY DEF TokenType
<1>2. /\ v.input \in Nat /\ v.read \in Nat /\ v.output \in Nat
      /\ v.creation \in Nat /\ v.write5m \in Nat /\ v.write1h \in Nat
      /\ DOMAIN v = K
  BY DEF UsageType
<1>3. /\ rep.input = t.input /\ rep.read = t.read /\ rep.output = t.output
      /\ rep.creation = t.write5m + t.write1h
      /\ rep.write5m = (IF split THEN t.write5m ELSE 0)
      /\ rep.write1h = (IF split THEN t.write1h ELSE 0)
  BY DEF Reported
<1> HIDE DEF rep
<1>4. u = [k \in K |-> v[k] + rep[k]]
  BY <1>2 DEF AddUsage
<1> HIDE DEF u
<1>5. /\ u.input = v.input + rep.input /\ u.read = v.read + rep.read
      /\ u.output = v.output + rep.output /\ u.creation = v.creation + rep.creation
      /\ u.write5m = v.write5m + rep.write5m /\ u.write1h = v.write1h + rep.write1h
  BY <1>4
<1>6. /\ u.input \in Nat /\ u.read \in Nat /\ u.output \in Nat
      /\ u.creation \in Nat /\ u.write5m \in Nat /\ u.write1h \in Nat
  BY <1>1, <1>2, <1>3, <1>5
<1>7. u = [input |-> u.input, read |-> u.read, creation |-> u.creation,
           write5m |-> u.write5m, write1h |-> u.write1h, output |-> u.output]
  BY <1>4
<1>8. u \in UsageType
  BY <1>6, <1>7 DEF UsageType
<1>. QED  BY <1>3, <1>5, <1>8 DEF u, rep

(* The bill of a cycle stays within its usage when a response comes, whether it  *)
(* splits its writes or not.                                                   *)
LEMMA WithinAdds ==
    ASSUME NEW m \in Models, NEW t \in TokenType, NEW v \in UsageType,
           NEW x \in Int, NEW split \in BOOLEAN,
           SpentWithin(m, v, x), v.write5m + v.write1h <= v.creation
    PROVE  LET u == AddUsage(v, Reported(t, split))
           IN  /\ u \in UsageType /\ u.write5m + u.write1h <= u.creation
               /\ SpentWithin(m, u, x + Price(t, ListPrice[m]))
               /\ Price(t, ListPrice[m]) \in Int
<1> DEFINE u == AddUsage(v, Reported(t, split))
           p == ListPrice[m]
           old == KnownTokens(v)
           new == KnownTokens(u)
           b == [input |-> t.input, read |-> t.read,
                 write5m |-> IF split THEN t.write5m ELSE 0,
                 write1h |-> IF split THEN t.write1h ELSE 0, output |-> t.output]
           n == NotTold(v)
           k == IF split THEN 0 ELSE t.write5m + t.write1h
<1>1. /\ t.input \in Nat /\ t.read \in Nat /\ t.output \in Nat
      /\ t.write5m \in Nat /\ t.write1h \in Nat
  BY DEF TokenType
<1>2. /\ v.creation \in Nat /\ v.write5m \in Nat /\ v.write1h \in Nat
  BY DEF UsageType
<1>3. /\ u \in UsageType
      /\ u.input = v.input + t.input /\ u.read = v.read + t.read
      /\ u.output = v.output + t.output
      /\ u.creation = v.creation + (t.write5m + t.write1h)
      /\ u.write5m = v.write5m + (IF split THEN t.write5m ELSE 0)
      /\ u.write1h = v.write1h + (IF split THEN t.write1h ELSE 0)
  BY UsageAdds
<1> HIDE DEF u
<1>4. u.write5m + u.write1h <= u.creation
  BY <1>1, <1>2, <1>3
<1>5. n \in Int /\ k \in Nat /\ NotTold(u) = n + k
  BY <1>1, <1>2, <1>3 DEF NotTold
<1>6. /\ b \in TokenType
      /\ b.input = t.input /\ b.read = t.read /\ b.output = t.output
      /\ b.write5m = (IF split THEN t.write5m ELSE 0)
      /\ b.write1h = (IF split THEN t.write1h ELSE 0)
  BY <1>1 DEF TokenType
<1>7. /\ old \in TokenType /\ new \in TokenType
      /\ new.input = old.input + b.input /\ new.read = old.read + b.read
      /\ new.write5m = old.write5m + b.write5m /\ new.write1h = old.write1h + b.write1h
      /\ new.output = old.output + b.output
  <2>1. old \in TokenType /\ new \in TokenType
    BY <1>3, KnownType
  <2> HIDE DEF b
  <2>. QED  BY <1>3, <1>6, <2>1 DEF KnownTokens
<1>8. p \in RatesType /\ p.write5m \in Nat /\ p.write1h \in Nat /\ p.write5m <= p.write1h
  BY ListPriceType
<1>9. /\ Price(old, p) + n * p.write5m <= x
      /\ x <= Price(old, p) + n * p.write1h
  BY DEF SpentWithin
<1>10. /\ Price(t, p) = Price(b, p)
                        + (IF split THEN 0
                           ELSE t.write5m * p.write5m + t.write1h * p.write1h)
  <2>0. /\ p.input \in Int /\ p.read \in Int /\ p.write5m \in Int
        /\ p.write1h \in Int /\ p.output \in Int
    BY ListPriceType
  <2> HIDE DEF b, p
  <2>1. /\ t.input * p.input \in Int /\ t.read * p.read \in Int
        /\ t.write5m * p.write5m \in Int /\ t.write1h * p.write1h \in Int
        /\ t.output * p.output \in Int
    BY <1>1, <2>0, Product
  <2>2. 0 * p.write5m = 0 /\ 0 * p.write1h = 0
    BY <2>0
  <2>3. CASE split
    BY <1>6, <2>1, <2>3 DEF Price
  <2>4. CASE ~split
    BY <1>6, <2>1, <2>2, <2>4 DEF Price
  <2>. QED  BY <2>3, <2>4
<1> HIDE DEF b, p, old, new, n
<1>11. Price(new, p) = Price(old, p) + Price(b, p)
  BY <1>6, <1>7, <1>8, PriceAdds
<1>12. Price(old, p) \in Int /\ Price(b, p) \in Int /\ Price(t, p) \in Int
  BY <1>6, <1>7, <1>8, PriceType
<1>13. /\ n * p.write5m \in Int /\ n * p.write1h \in Int
       /\ k * p.write5m \in Int /\ k * p.write1h \in Int
       /\ (n + k) * p.write5m = n * p.write5m + k * p.write5m
       /\ (n + k) * p.write1h = n * p.write1h + k * p.write1h
  <2> HIDE DEF k
  <2>. QED  BY <1>5, <1>8, Product, Distributes
<1>14. k * p.write5m <= Price(t, p) - Price(b, p) /\ Price(t, p) - Price(b, p) <= k * p.write1h
  <2>1. CASE split
    BY <1>8, <1>10, <1>12, <2>1
  <2>2. CASE ~split
    <3>1. /\ t.write1h * p.write5m <= t.write1h * p.write1h
          /\ t.write5m * p.write5m <= t.write5m * p.write1h
      BY <1>1, <1>8, Dearer
    <3>2. /\ k * p.write5m = t.write5m * p.write5m + t.write1h * p.write5m
          /\ k * p.write1h = t.write5m * p.write1h + t.write1h * p.write1h
      BY <1>1, <1>8, <2>2, Distributes
    <3>3. /\ t.write5m * p.write5m \in Int /\ t.write1h * p.write5m \in Int
          /\ t.write5m * p.write1h \in Int /\ t.write1h * p.write1h \in Int
      BY <1>1, <1>8, Product
    <3> HIDE DEF k
    <3>. QED  BY <1>10, <1>12, <2>2, <3>1, <3>2, <3>3
  <2>. QED  BY <2>1, <2>2
<1> HIDE DEF k
<1>15. /\ Price(new, p) + (n + k) * p.write5m <= x + Price(t, p)
       /\ x + Price(t, p) <= Price(new, p) + (n + k) * p.write1h
  BY <1>9, <1>11, <1>12, <1>13, <1>14
<1>16. SpentWithin(m, u, x + Price(t, p))
  BY <1>5, <1>15 DEF SpentWithin, p, new
<1>. QED  BY <1>3, <1>4, <1>12, <1>16 DEF u, p

(* At lower prices the same tokens cost no more. *)
LEMMA CheaperList ==
    ASSUME NEW m \in Models, NEW t \in TokenType
    PROVE  Price(t, ListPrice[m]) <= Price(t, RatesOf(m))
<1> DEFINE p == ListPrice[m]
           r == RatesOf(m)
<1>1. p \in TokenType /\ r \in RatesType
  BY ListPriceType, RatesAreRates
<1>2. \A kind \in {"input", "read", "write5m", "write1h", "output"} : p[kind] <= r[kind]
  <2>1. DOMAIN p = {"input", "read", "write5m", "write1h", "output"}
    BY <1>1 DEF TokenType
  <2>. QED  BY <2>1, PricesAssumption
<1> HIDE DEF p, r
<1>3. /\ p.input \in Int /\ p.read \in Int /\ p.write5m \in Int /\ p.write1h \in Int /\ p.output \in Int
      /\ r.input \in Int /\ r.read \in Int /\ r.write5m \in Int /\ r.write1h \in Int /\ r.output \in Int
      /\ t.input \in Nat /\ t.read \in Nat /\ t.write5m \in Nat /\ t.write1h \in Nat /\ t.output \in Nat
  BY <1>1 DEF TokenType, RatesType
<1>4. /\ t.input * p.input <= t.input * r.input
      /\ t.read * p.read <= t.read * r.read
      /\ t.write5m * p.write5m <= t.write5m * r.write5m
      /\ t.write1h * p.write1h <= t.write1h * r.write1h
      /\ t.output * p.output <= t.output * r.output
  BY <1>2, <1>3, Dearer
<1>5. /\ t.input * p.input \in Int /\ t.read * p.read \in Int /\ t.write5m * p.write5m \in Int
      /\ t.write1h * p.write1h \in Int /\ t.output * p.output \in Int
      /\ t.input * r.input \in Int /\ t.read * r.read \in Int /\ t.write5m * r.write5m \in Int
      /\ t.write1h * r.write1h \in Int /\ t.output * r.output \in Int
  BY <1>3, Product
<1>6. Price(t, p) <= Price(t, r)
  BY <1>4, <1>5 DEF Price
<1>. QED  BY <1>6 DEF p, r

(* The row of a cycle against its bill. *)
LEMMA RowFollowsBill ==
    ASSUME LoopTyped, Booking
    PROVE  /\ Doubt(usage) \in Int
           /\ spent <= CostForRow(UsageRow) + Doubt(usage)
           /\ Listed(model) => CostForRow(UsageRow) <= spent
<1> DEFINE p == ListPrice[model]
           r == RatesOf(model)
           n == NotTold(usage)
           known == KnownTokens(usage)
           row == RowTokens(usage)
           untold == usage.write5m + usage.write1h = 0
           w == IF untold THEN p.write5m ELSE 0
           f == IF untold THEN n ELSE 0
<1>1. /\ model \in Models /\ usage \in UsageType /\ spent \in Int
      /\ usage.write5m + usage.write1h <= usage.creation
      /\ Price(known, p) + n * p.write5m <= spent
      /\ spent <= Price(known, p) + n * p.write1h
  BY DEF LoopTyped, Booking, SpentWithin
<1>2. /\ usage.input \in Nat /\ usage.read \in Nat /\ usage.output \in Nat
      /\ usage.creation \in Nat /\ usage.write5m \in Nat /\ usage.write1h \in Nat
  BY <1>1 DEF UsageType
<1>3. n \in Nat /\ f \in Nat
  BY <1>1, <1>2 DEF NotTold
<1>4. /\ p \in RatesType /\ r \in RatesType /\ p.write5m \in Nat /\ p.write1h \in Nat
      /\ p.input \in Nat /\ p.read \in Nat /\ p.output \in Nat
      /\ w \in Nat
  BY <1>1, ListPriceType, RatesAreRates
<1>5. known \in TokenType /\ row \in TokenType
  BY <1>1, KnownType
<1>6. /\ row.input = known.input /\ row.read = known.read /\ row.output = known.output
      /\ row.write1h = known.write1h /\ row.write5m = known.write5m + f
  BY <1>2 DEF RowTokens, KnownTokens, NotTold
<1>7. CostForRow(UsageRow) = Price(row, r) /\ UsageRow \in RowType
  BY <1>1, UsageRowType
<1>8. Doubt(usage) = n * (p.write1h - w)
  BY DEF Doubt
<1>9. Price(row, p) <= Price(row, r)
  BY <1>1, <1>5, CheaperList
<1>10. f = (IF untold THEN n ELSE 0) /\ w = (IF untold THEN p.write5m ELSE 0)
  OBVIOUS
<1>11. Listed(model) => p = r
  BY DEF Listed
<1> HIDE DEF p, r, n, known, row, f, w, untold
<1>12. Price(row, p) = Price(known, p) + f * p.write5m
  <2> DEFINE more == [input |-> 0, read |-> 0, write5m |-> f, write1h |-> 0, output |-> 0]
  <2>1. more \in TokenType
    BY <1>3 DEF TokenType
  <2>2. /\ known.input \in Nat /\ known.read \in Nat /\ known.write1h \in Nat /\ known.output \in Nat
    BY <1>5 DEF TokenType
  <2>3. /\ row.input = known.input + more.input /\ row.read = known.read + more.read
        /\ row.write5m = known.write5m + more.write5m
        /\ row.write1h = known.write1h + more.write1h
        /\ row.output = known.output + more.output
    BY <1>6, <2>2
  <2>4. Price(row, p) = Price(known, p) + Price(more, p)
    <3> HIDE DEF more
    <3>. QED  BY <1>4, <1>5, <2>1, <2>3, PriceAdds
  <2>5. Price(more, p) = f * p.write5m
    <3>1. \A y \in Nat : 0 * y = 0
      OBVIOUS
    <3>2. f * p.write5m \in Int
      BY <1>3, <1>4, Product
    <3>. QED  BY <1>4, <3>1, <3>2 DEF Price
  <2>. QED  BY <2>4, <2>5
<1>13. /\ Price(row, p) \in Int /\ Price(row, r) \in Int /\ Price(known, p) \in Int
  BY <1>4, <1>5, PriceType
<1>14. /\ n * p.write5m \in Int /\ n * p.write1h \in Int /\ f * p.write5m \in Int
       /\ n * w \in Int /\ n * (p.write1h - w) \in Int
  <2>1. p.write1h - w \in Int
    BY <1>4
  <2>. QED  BY <1>3, <1>4, <2>1, Product
<1>15. n * (p.write1h - w) = n * p.write1h - n * w
  <2>1. \A a, b, c \in Int : a * (b - c) = a * b - a * c
    OBVIOUS
  <2>. QED  BY <1>3, <1>4, <2>1
<1>16. f * p.write5m = n * w
  <2>1. CASE untold
    BY <1>10, <2>1
  <2>2. CASE ~untold
    BY <1>3, <1>4, <1>10, <2>2
  <2>. QED  BY <2>1, <2>2
<1>17. spent <= Price(row, r) + n * (p.write1h - w)
  BY <1>1, <1>9, <1>12, <1>13, <1>14, <1>15, <1>16
<1>18. f * p.write5m <= n * p.write5m
  <2>1. CASE untold
    BY <1>10, <1>14, <2>1
  <2>2. CASE ~untold
    <3>1. n * p.write5m \in Nat /\ f * p.write5m = 0
      BY <1>3, <1>4, <1>10, <2>2
    <3>. QED  BY <3>1
  <2>. QED  BY <2>1, <2>2
<1>19. Listed(model) => Price(row, r) <= spent
  BY <1>1, <1>11, <1>12, <1>13, <1>14, <1>18
<1>. QED  BY <1>7, <1>8, <1>14, <1>17, <1>19

LEMMA BookStart == Init => Booking
<1> SUFFICES ASSUME Init PROVE Booking
  OBVIOUS
<1>1. /\ usage = NoTokens /\ usageRows = <<>> /\ spent = 0 /\ billed = 0 /\ doubt = 0
      /\ model \in Models
  BY DEF Init
<1>2. usageRows \in Seq(RowType)
  BY <1>1, EmptySeq
<1>3. SpendIsBooked
  BY <1>1, AggregateEmpty DEF SpendIsBooked
<1>. QED  BY <1>1, <1>2, <1>3, NothingSpent DEF Booking

(* Steps that spend nothing and book nothing. *)
LEMMA BookKept ==
    ASSUME SpendInv, UNCHANGED <<model, usage, usageRows, spent, billed, doubt>>,
           pc' = "idle" => pc = "idle"
    PROVE  Booking'
<1>1. Booking
  BY DEF SpendInv
<1>2. SpendIsBooked'
  BY <1>1 DEF Booking, SpendIsBooked
<1>. QED  BY <1>1, <1>2 DEF Booking

LEMMA BookBegin == ASSUME SpendInv, BeginCycle PROVE Booking'
<1>1. /\ usage = NoTokens /\ spent = 0
      /\ UNCHANGED <<usage, usageRows, spent, billed, doubt>>
      /\ pc' = "ask" /\ Booking /\ model' \in Models
  BY DEF SpendInv, Booking, BeginCycle, tables, money
<1>2. SpentWithin(model', usage', spent')
  BY <1>1, NothingSpent
<1>3. SpendIsBooked'
  BY <1>1 DEF Booking, SpendIsBooked
<1>. QED  BY <1>1, <1>2, <1>3 DEF Booking

LEMMA BookReceive == ASSUME SpendInv, Receive PROVE Booking'
<1>1. /\ Provider[model] \in {"anthropic", "openrouter"} /\ model \in Models
      /\ LoopTyped /\ Booking
  BY ModelsAssumption DEF SpendInv, WireInv, LoopTyped
<1>2. PICK t \in Usages[Provider[model]], split \in BOOLEAN :
         usage' = AddUsage(usage, Reported(t, split)) /\ spent' = spent + Bill(t)
  BY DEF Receive
<1>3. t \in TokenType
  BY <1>1, UsagesAssumption
<1>4. /\ UNCHANGED <<model, usageRows, billed, doubt>> /\ pc' # "idle"
  BY DEF Receive, tables
<1>5. /\ usage \in UsageType /\ spent \in Int /\ SpentWithin(model, usage, spent)
      /\ usage.write5m + usage.write1h <= usage.creation
  BY <1>1 DEF Booking
<1>6. /\ usage' \in UsageType /\ usage'.write5m + usage'.write1h <= usage'.creation
      /\ SpentWithin(model, usage', spent') /\ Bill(t) \in Int
  BY <1>1, <1>2, <1>3, <1>5, WithinAdds DEF Bill
<1>7. spent' \in Int
  BY <1>2, <1>5, <1>6
<1>8. SpendIsBooked'
  BY <1>1, <1>4 DEF Booking, SpendIsBooked
<1>. QED  BY <1>1, <1>4, <1>6, <1>7, <1>8 DEF Booking

(* The cycle is over: what stands for the next one. *)
LEMMA BookGone ==
    ASSUME SpendInv, LocalsGone, UNCHANGED model, SpendIsBooked',
           usageRows' \in Seq(RowType), billed' \in Int, doubt' \in Int
    PROVE  Booking'
<1>1. usage' = NoTokens /\ spent' = 0 /\ model \in Models
  BY DEF LocalsGone, SpendInv, WireInv, LoopTyped
<1>. QED  BY <1>1, NothingSpent DEF Booking

LEMMA BookRow == ASSUME SpendInv, LogTokenUsage PROVE Booking'
<1>1. /\ LoopTyped /\ Booking /\ UNCHANGED model /\ LocalsGone
      /\ usageRows' = Append(usageRows, UsageRow)
      /\ billed' = billed + spent /\ doubt' = doubt + Doubt(usage)
  BY DEF SpendInv, WireInv, LogTokenUsage
<1>2. UsageRow \in RowType /\ UsageRow.model = model
  BY <1>1, UsageRowType DEF Booking, UsageRow
<1>3. /\ usageRows \in Seq(RowType) /\ spent \in Int /\ billed \in Int /\ doubt \in Int
      /\ Doubt(usage) \in Int /\ Aggregate(usageRows) \in Int /\ CostForRow(UsageRow) \in Int
  BY <1>1, <1>2, RowFollowsBill, AggregateType, RowCost DEF Booking
<1>4. /\ Aggregate(usageRows') = Aggregate(usageRows) + CostForRow(UsageRow)
      /\ usageRows' \in Seq(RowType)
  BY <1>1, <1>2, <1>3, AggregateAppend, AppendProperties
<1>5. billed <= Aggregate(usageRows) + doubt
  BY <1>1 DEF Booking, SpendIsBooked
<1>6. /\ spent <= CostForRow(UsageRow) + Doubt(usage)
      /\ Listed(model) => CostForRow(UsageRow) <= spent
  BY <1>1, RowFollowsBill
<1>7. billed' <= Aggregate(usageRows') + doubt'
  BY <1>1, <1>3, <1>4, <1>5, <1>6
<1>8. ASSUME \A i \in DOMAIN usageRows' : Listed(usageRows'[i].model)
      PROVE  Aggregate(usageRows') <= billed'
  <2> DEFINE N == Len(usageRows)
  <2>1. /\ DOMAIN usageRows' = 1..(N + 1) /\ DOMAIN usageRows = 1..N /\ N \in Nat
        /\ usageRows'[N + 1] = UsageRow
        /\ \A i \in 1..N : usageRows'[i] = usageRows[i]
    BY <1>1, <1>2, <1>3, AppendProperties
  <2>2. Listed(usageRows'[N + 1].model) /\ \A i \in 1..N : Listed(usageRows'[i].model)
    BY <1>8, <2>1
  <2>3. Listed(model)
    BY <1>2, <2>1, <2>2
  <2>4. \A i \in DOMAIN usageRows : Listed(usageRows[i].model)
    BY <2>1, <2>2
  <2>5. Aggregate(usageRows) <= billed
    BY <1>1, <2>4 DEF Booking, SpendIsBooked
  <2>. QED  BY <1>1, <1>3, <1>4, <1>6, <2>3, <2>5
<1>9. SpendIsBooked'
  BY <1>7, <1>8 DEF SpendIsBooked, Listed
<1>10. billed' \in Int /\ doubt' \in Int
  BY <1>1, <1>3
<1>. QED  BY <1>1, <1>4, <1>9, <1>10, BookGone

LEMMA BookAbort == ASSUME SpendInv, Abort PROVE Booking'
<1>1. LocalsGone /\ Booking /\ UNCHANGED <<model, usageRows, billed, doubt>>
  BY DEF SpendInv, Abort, tables
<1>2. SpendIsBooked'
  BY <1>1 DEF Booking, SpendIsBooked
<1>3. usageRows' \in Seq(RowType) /\ billed' \in Int /\ doubt' \in Int
  BY <1>1 DEF Booking
<1>. QED  BY <1>1, <1>2, <1>3, BookGone

LEMMA BookStep == SpendInv /\ [Next]_vars => Booking'
<1> SUFFICES ASSUME SpendInv, [Next]_vars PROVE Booking'
  OBVIOUS
<1>1. CASE BeginCycle
  BY <1>1, BookBegin
<1>2. CASE Ask
  BY <1>2, BookKept DEF Ask, tables, money
<1>3. CASE Receive
  BY <1>3, BookReceive
<1>4. CASE InferHold
  BY <1>4, BookKept DEF InferHold, tables, money
<1>5. CASE Apply
  BY <1>5, BookKept DEF Apply, tables, money
<1>6. CASE EndTurn
  BY <1>6, BookKept DEF EndTurn, tables, money
<1>7. CASE TurnsUsedUp
  BY <1>7, BookKept DEF TurnsUsedUp, tables, money
<1>8. CASE LogDecision
  BY <1>8, BookKept DEF LogDecision, money
<1>9. CASE LogTokenUsage
  BY <1>9, BookRow
<1>10. CASE Abort
  BY <1>10, BookAbort
<1>11. CASE UNCHANGED vars
  BY <1>11, BookKept DEF vars, tables, money
<1>. QED  BY <1>1, <1>2, <1>3, <1>4, <1>5, <1>6, <1>7, <1>8, <1>9, <1>10, <1>11 DEF Next

(* SpendIsBooked: for any prices and any reports of the writes to the cache, the  *)
(* rows fall short of the bills of their cycles by at most the doubt about those   *)
(* writes, and exceed them only for a model cost.py has no rates for.            *)
THEOREM SpendBooked == Spec => []SpendIsBooked
<1>1. Init => SpendInv
  BY WireStart, BookStart DEF SpendInv
<1>2. SpendInv /\ [Next]_vars => SpendInv'
  BY WireStep, BookStep DEF SpendInv
<1>3. SpendInv => SpendIsBooked
  BY DEF SpendInv, Booking
<1>. QED  BY <1>1, <1>2, <1>3, PTL DEF Spec
===============================================================================
