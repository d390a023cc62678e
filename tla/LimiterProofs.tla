---------------------------- MODULE LimiterProofs ----------------------------
(***************************************************************************)
(* Theorems about module SpeedLimiter, for any rate, any chunks and any    *)
(* number of workers.                                                      *)
(*                                                                         *)
(* Slots are added up, so the first part is about sums over finite sets.   *)
(* The second part follows the slots: those of the chunks that arrived     *)
(* after some time all lie between that time and next_at, each ends when   *)
(* its chunk wakes or before, and what is left of them is owed by chunks   *)
(* that sleep.                                                             *)
(***************************************************************************)
EXTENDS SpeedLimiter, Folds, FiniteSetTheorems, WellFoundedInduction, TLAPS

-----------------------------------------------------------------------------
(* Sums over finite sets *)

\* Induction over a finite set, with a set of subsets for the predicate.
LEMMA FiniteInduction ==
  ASSUME NEW S, IsFiniteSet(S), NEW Good \in SUBSET SUBSET S, {} \in Good,
         \A T \in Good : \A x \in S \ T : T \cup {x} \in Good
  PROVE  S \in Good
<1> DEFINE Left == {S \ T : T \in Good}
           Less == StrictSubsetOrdering(S)
<1>1. Left \subseteq FiniteSubsetsOf(S) /\ S \in Left
  <2>1. \A T \in Good : S \ T \in SUBSET S /\ IsFiniteSet(S \ T)
    BY FS_Difference
  <2>2. S = S \ {} /\ {} \in Good
    OBVIOUS
  <2>3. S \in Left
    BY <2>2
  <2> QED
    BY <2>1, <2>3 DEF FiniteSubsetsOf
<1>2. PICK U \in Left : \A V \in Left : <<V, U>> \notin Less
  <2>1. IsWellFoundedOn(Less, FiniteSubsetsOf(S))
    BY FS_StrictSubsetOrderingWellFounded
  <2>2. Left # {}
    BY <1>1
  <2> HIDE DEF Left, Less
  <2>3. \E U \in Left : \A V \in Left : ~ (<<V, U>> \in Less)
    BY <1>1, <2>1, <2>2, WFMin
  <2> QED
    BY <2>3
<1>3. PICK T \in Good : U = S \ T
  BY <1>2
<1>4. ASSUME NEW x \in U PROVE FALSE
  <2>1. T \cup {x} \in Good /\ x \in S \ T
    BY <1>3, <1>4
  <2>2. S \ (T \cup {x}) \in Left
    BY <2>1
  <2>3. <<S \ (T \cup {x}), U>> \in Less
    BY <1>3, <2>1 DEF StrictSubsetOrdering
  <2> QED
    BY <1>2, <2>2, <2>3
<1>5. T = S
  BY <1>3, <1>4
<1> QED
  BY <1>5

\* What the sums of f over the subsets of S are, in any order.
Adds(h, f, S) ==
  /\ h \in [SUBSET S -> Nat] /\ \A x \in S : f[x] \in Nat
  /\ h[{}] = 0
  /\ \A T \in SUBSET S : \A x \in S \ T : h[T \cup {x}] = h[T] + f[x]

\* There is such a function: with one element more, every sum that has it is
\* larger by its term.
LEMMA SumsExist ==
  ASSUME NEW S, IsFiniteSet(S), NEW f, \A x \in S : f[x] \in Nat
  PROVE  \E h : Adds(h, f, S)
<1> DEFINE Good == {T \in SUBSET S : \E h : Adds(h, f, T)}
<1>1. {} \in Good
  <2> DEFINE h == [T \in SUBSET {} |-> 0]
  <2>1. Adds(h, f, {})
    BY DEF Adds
  <2> QED
    BY <2>1
<1>2. ASSUME NEW T \in Good, NEW y \in S \ T PROVE T \cup {y} \in Good
  <2> PICK h : Adds(h, f, T)
    OBVIOUS
  <2> DEFINE g == [U \in SUBSET (T \cup {y}) |-> IF y \in U THEN h[U \ {y}] + f[y] ELSE h[U]]
  <2>1. h \in [SUBSET T -> Nat] /\ h[{}] = 0 /\ f[y] \in Nat
    BY DEF Adds
  <2>2. \A U \in SUBSET (T \cup {y}) : U \ {y} \in SUBSET T /\ (y \notin U => U \in SUBSET T)
    OBVIOUS
  <2>3. g \in [SUBSET (T \cup {y}) -> Nat]
    BY <2>1, <2>2
  <2>4. g[{}] = 0
    BY <2>1
  <2>5. ASSUME NEW U \in SUBSET (T \cup {y}), NEW x \in (T \cup {y}) \ U
        PROVE  g[U \cup {x}] = g[U] + f[x]
    <3>1. CASE x = y
      <4>1. y \notin U /\ U \in SUBSET T /\ (U \cup {x}) \ {y} = U /\ U \cup {x} \in SUBSET (T \cup {y})
        BY <3>1
      <4> QED
        BY <3>1, <4>1
    <3>2. CASE x # y /\ y \in U
      <4> DEFINE V == U \ {y}
      <4>1. /\ x \in T \ V /\ V \in SUBSET T /\ (U \cup {x}) \ {y} = V \cup {x}
            /\ U \cup {x} \in SUBSET (T \cup {y}) /\ y \in U \cup {x}
        BY <3>2
      <4>2. h[V \cup {x}] = h[V] + f[x] /\ h[V] \in Nat /\ f[x] \in Nat
        BY <2>1, <4>1 DEF Adds
      <4>3. g[U] = h[V] + f[y] /\ g[U \cup {x}] = h[V \cup {x}] + f[y]
        BY <3>2, <4>1
      <4> QED
        BY <2>1, <4>2, <4>3
    <3>3. CASE x # y /\ y \notin U
      <4>1. /\ x \in T \ U /\ U \in SUBSET T /\ y \notin U \cup {x}
            /\ U \cup {x} \in SUBSET (T \cup {y})
        BY <3>3
      <4>2. h[U \cup {x}] = h[U] + f[x]
        BY <4>1 DEF Adds
      <4> QED
        BY <3>3, <4>1, <4>2
    <3> QED
      BY <3>1, <3>2, <3>3
  <2>6. Adds(g, f, T \cup {y})
    <3> HIDE DEF g
    <3> QED
      BY <2>3, <2>4, <2>5 DEF Adds
  <2> QED
    BY <2>6
<1>3. Good \in SUBSET SUBSET S
  OBVIOUS
<1>4. S \in Good
  <2> HIDE DEF Good
  <2> QED
    BY <1>1, <1>2, <1>3, FiniteInduction
<1> QED
  BY <1>4

\* Whichever elements the fold picks, it arrives at that sum.
LEMMA SumIs ==
  ASSUME NEW S, IsFiniteSet(S), NEW f, NEW h, Adds(h, f, S)
  PROVE  Sum(f, S) = h[S]
<1> DEFINE pick(s) == CHOOSE x \in s : TRUE
           Fold(g) == g = [s \in SUBSET S |-> IF s = {} THEN 0 ELSE f[pick(s)] + g[s \ {pick(s)}]]
           iter == CHOOSE g : Fold(g)
<1>1. Sum(f, S) = iter[S]
  BY Zenon DEF Sum, FoldFunctionOnSet, MapThenFoldSet
<1>2. h \in [SUBSET S -> Nat] /\ h[{}] = 0
  BY DEF Adds
<1>3. ASSUME NEW s \in SUBSET S, s # {}
      PROVE  pick(s) \in s /\ h[s] = f[pick(s)] + h[s \ {pick(s)}]
  <2>1. \A x \in s : h[s] = f[x] + h[s \ {x}]
    <3> TAKE x \in s
    <3>1. s \ {x} \in SUBSET S /\ x \in S \ (s \ {x}) /\ (s \ {x}) \cup {x} = s
      OBVIOUS
    <3>2. h[(s \ {x}) \cup {x}] = h[s \ {x}] + f[x]
      BY <3>1 DEF Adds
    <3>3. f[x] \in Nat /\ h[s \ {x}] \in Nat
      BY <1>2, <3>1 DEF Adds
    <3>4. h[s] = h[s \ {x}] + f[x]
      BY <3>1, <3>2
    <3> QED
      BY <3>3, <3>4
  <2> HIDE DEF pick
  <2>2. pick(s) \in s
    BY <1>3 DEF pick
  <2> QED
    BY <2>1, <2>2
<1>4. Fold(h)
  <2> HIDE DEF pick
  <2> QED
    BY <1>2, <1>3
<1>5. Fold(iter)
  <2> HIDE DEF Fold
  <2> QED
    BY <1>4
<1> HIDE DEF iter
<1>6. \A s \in SUBSET S : s # {} => iter[s] = f[pick(s)] + iter[s \ {pick(s)}]
  <2> HIDE DEF pick
  <2> QED
    BY <1>5
<1>7. iter[{}] = 0
  <2> HIDE DEF pick
  <2> QED
    BY <1>5
<1> HIDE DEF pick, Fold
<1> DEFINE Bad  == {s \in SUBSET S : iter[s] # h[s]}
           Less == StrictSubsetOrdering(S)
<1>8. SUFFICES ASSUME Bad # {} PROVE FALSE
  BY <1>1
<1>9. PICK s \in Bad : \A t \in Bad : <<t, s>> \notin Less
  <2>1. IsWellFoundedOn(Less, FiniteSubsetsOf(S))
    BY FS_StrictSubsetOrderingWellFounded
  <2>2. Bad \subseteq FiniteSubsetsOf(S)
    BY FS_FiniteSubsetsOfFinite
  <2> HIDE DEF Bad, Less
  <2>3. \E s \in Bad : \A t \in Bad : ~ (<<t, s>> \in Less)
    BY <1>8, <2>1, <2>2, WFMin
  <2> QED
    BY <2>3
<1>10. s # {} /\ pick(s) \in s
  BY <1>2, <1>3, <1>7
<1>11. s \ {pick(s)} \in SUBSET S /\ <<s \ {pick(s)}, s>> \in Less
  BY <1>10 DEF StrictSubsetOrdering
<1>12. iter[s \ {pick(s)}] = h[s \ {pick(s)}]
  BY <1>9, <1>11
<1> QED
  BY <1>3, <1>6, <1>9, <1>10, <1>12

\* A sum over nothing.
LEMMA SumOfNone ==
  ASSUME NEW f
  PROVE  Sum(f, {}) = 0
BY SumsExist, SumIs, FS_EmptySet DEF Adds

LEMMA SumIsNat ==
  ASSUME NEW S, IsFiniteSet(S), NEW f, \A x \in S : f[x] \in Nat
  PROVE  Sum(f, S) \in Nat
<1>1. PICK h : Adds(h, f, S)
  BY SumsExist
<1>2. Sum(f, S) = h[S]
  BY <1>1, SumIs
<1>3. h[S] \in Nat
  BY <1>1 DEF Adds
<1> QED
  BY <1>2, <1>3

\* One term more, in whatever order the terms are taken.
LEMMA SumOfOneMore ==
  ASSUME NEW S, IsFiniteSet(S), NEW f, NEW y, y \notin S, f[y] \in Nat,
         \A x \in S : f[x] \in Nat
  PROVE  Sum(f, S \cup {y}) = Sum(f, S) + f[y]
<1> DEFINE T == S \cup {y}
<1>1. IsFiniteSet(T) /\ \A x \in T : f[x] \in Nat
  BY FS_AddElement
<1>2. PICK h : Adds(h, f, T)
  BY <1>1, SumsExist
<1> DEFINE g == [U \in SUBSET S |-> h[U]]
<1>3. Adds(g, f, S)
  <2>1. \A U \in SUBSET S : U \in SUBSET T /\ \A x \in S \ U : x \in T \ U /\ U \cup {x} \in SUBSET S
    OBVIOUS
  <2>2. g \in [SUBSET S -> Nat] /\ g[{}] = 0
    BY <1>2, <2>1 DEF Adds
  <2> HIDE DEF T
  <2> QED
    BY <1>2, <2>1, <2>2 DEF Adds
<1>4. Sum(f, S) = h[S] /\ Sum(f, T) = h[T]
  BY <1>1, <1>2, <1>3, SumIs
<1>5. h[S \cup {y}] = h[S] + f[y]
  BY <1>2 DEF Adds
<1> QED
  BY <1>4, <1>5

\* A sum over more is more.
LEMMA SumGrows ==
  ASSUME NEW T, IsFiniteSet(T), NEW S \in SUBSET T, NEW f, \A x \in T : f[x] \in Nat
  PROVE  Sum(f, S) <= Sum(f, T)
<1> DEFINE More == T \ S
           Good == {U \in SUBSET More : Sum(f, S) <= Sum(f, S \cup U)}
<1>1. IsFiniteSet(More) /\ IsFiniteSet(S)
  BY FS_Difference, FS_Subset
<1>2. {} \in Good
  <2>1. S \cup {} = S /\ Sum(f, S) \in Nat
    BY <1>1, SumIsNat
  <2> QED
    BY <2>1
<1>3. ASSUME NEW U \in Good, NEW x \in More \ U PROVE U \cup {x} \in Good
  <2>1. IsFiniteSet(S \cup U) /\ x \notin S \cup U /\ S \cup U \subseteq T
        /\ S \cup (U \cup {x}) = (S \cup U) \cup {x}
    BY FS_Subset
  <2>2. Sum(f, (S \cup U) \cup {x}) = Sum(f, S \cup U) + f[x]
    BY <2>1, SumOfOneMore
  <2>3. Sum(f, S) \in Nat /\ Sum(f, S \cup U) \in Nat /\ f[x] \in Nat
    BY <1>1, <2>1, SumIsNat
  <2>4. Sum(f, S \cup (U \cup {x})) = Sum(f, S \cup U) + f[x]
    BY <2>1, <2>2
  <2>5. Sum(f, S) <= Sum(f, S \cup (U \cup {x}))
    BY <2>3, <2>4
  <2> QED
    BY <2>5
<1>4. More \in Good
  <2>1. Good \in SUBSET SUBSET More
    OBVIOUS
  <2> HIDE DEF Good, More
  <2> QED
    BY <1>1, <1>2, <1>3, <2>1, FiniteInduction
<1>5. S \cup More = T
  OBVIOUS
<1> QED
  BY <1>4, <1>5

\* A sum is about the terms it has.
LEMMA SameTerm ==
  ASSUME NEW T, IsFiniteSet(T), NEW x, x \notin T, NEW f, NEW g, Sum(g, T) = Sum(f, T),
         \A y \in T : f[y] \in Nat /\ g[y] = f[y], f[x] \in Nat, g[x] = f[x]
  PROVE  Sum(g, T \cup {x}) = Sum(f, T \cup {x})
<1>1. Sum(f, T \cup {x}) = Sum(f, T) + f[x]
  BY SumOfOneMore
<1>2. \A y \in T : g[y] \in Nat
  OBVIOUS
<1>3. g[x] \in Nat
  OBVIOUS
<1>4. Sum(g, T \cup {x}) = Sum(g, T) + g[x]
  BY <1>2, <1>3, SumOfOneMore
<1> QED
  BY <1>1, <1>4

LEMMA SumOfSame ==
  ASSUME NEW S, IsFiniteSet(S), NEW f, NEW g,
         \A x \in S : f[x] \in Nat /\ g[x] = f[x]
  PROVE  Sum(g, S) = Sum(f, S)
<1> DEFINE Good == {T \in SUBSET S : Sum(g, T) = Sum(f, T)}
<1>1. {} \in Good
  BY SumOfNone
<1>2. ASSUME NEW T \in Good, NEW x \in S \ T PROVE T \cup {x} \in Good
  <2>1. /\ IsFiniteSet(T) /\ x \notin T /\ T \in SUBSET S /\ x \in S
        /\ Sum(g, T) = Sum(f, T)
    BY FS_Subset
  <2>2. Sum(g, T \cup {x}) = Sum(f, T \cup {x})
    BY <2>1, SameTerm
  <2> QED
    BY <2>1, <2>2
<1>3. S \in Good
  <2>1. Good \in SUBSET SUBSET S
    OBVIOUS
  <2> HIDE DEF Good
  <2> QED
    BY <1>1, <1>2, <2>1, FiniteInduction
<1> QED
  BY <1>3

LEMMA Distributes ==
  ASSUME NEW a \in Nat, NEW b \in Nat, NEW c \in Nat
  PROVE  (a + b) * c = a * c + b * c /\ c * (a + b) = c * a + c * b
         /\ a * c \in Nat /\ c * a \in Nat
OBVIOUS

\* A bound of each term bounds the sum.
LEMMA SumIsBounded ==
  ASSUME NEW S, IsFiniteSet(S), NEW f, NEW g, NEW m \in Nat, NEW n \in Nat,
         \A x \in S : f[x] \in Nat /\ g[x] \in Nat /\ f[x] * m <= n * (g[x] + 1)
  PROVE  Sum(f, S) * m <= n * (Sum(g, S) + Cardinality(S))
<1> DEFINE Good == {T \in SUBSET S : Sum(f, T) * m <= n * (Sum(g, T) + Cardinality(T))}
<1>1. {} \in Good
  <2>1. Sum(f, {}) = 0 /\ Sum(g, {}) = 0 /\ Cardinality({}) = 0
    BY SumOfNone, FS_EmptySet
  <2> QED
    BY <2>1
<1>2. ASSUME NEW T \in Good, NEW x \in S \ T PROVE T \cup {x} \in Good
  <2>1. /\ IsFiniteSet(T) /\ x \notin T /\ T \in SUBSET S /\ x \in S
        /\ Sum(f, T) * m <= n * (Sum(g, T) + Cardinality(T))
    BY FS_Subset
  <2> HIDE DEF Good
  <2> DEFINE a == Sum(f, T)  b == f[x]  c == Sum(g, T) + Cardinality(T)  d == g[x] + 1
  <2>2. f[x] \in Nat /\ g[x] \in Nat /\ (\A y \in T : f[y] \in Nat) /\ (\A y \in T : g[y] \in Nat)
    BY <2>1
  <2>3. Sum(f, T \cup {x}) = a + b
    BY <2>1, <2>2, SumOfOneMore
  <2>4. Sum(g, T \cup {x}) = Sum(g, T) + g[x]
    BY <2>1, <2>2, SumOfOneMore
  <2>5. Cardinality(T \cup {x}) = Cardinality(T) + 1 /\ Cardinality(T) \in Nat
    BY <2>1, FS_AddElement, FS_CardinalityType
  <2>6. a \in Nat /\ Sum(g, T) \in Nat
    BY <2>1, <2>2, SumIsNat
  <2>7. Sum(g, T \cup {x}) + Cardinality(T \cup {x}) = c + d
    BY <2>2, <2>4, <2>5, <2>6
  <2>8. b \in Nat /\ c \in Nat /\ d \in Nat /\ a * m <= n * c /\ b * m <= n * d
    BY <2>1, <2>2, <2>5, <2>6
  <2> HIDE DEF a, b, c, d
  <2>9. (a + b) * m <= n * (c + d)
    <3> DEFINE am == a * m  bm == b * m  nc == n * c  nd == n * d
    <3>1. (a + b) * m = am + bm /\ n * (c + d) = nc + nd
      BY <2>6, <2>8, Distributes
    <3>2. am \in Nat /\ bm \in Nat /\ nc \in Nat /\ nd \in Nat /\ am <= nc /\ bm <= nd
      BY <2>6, <2>8, Distributes
    <3> HIDE DEF am, bm, nc, nd
    <3> QED
      BY <3>1, <3>2
  <2> QED
    BY <2>1, <2>3, <2>7, <2>9 DEF Good
<1>3. S \in Good
  <2>1. Good \in SUBSET SUBSET S
    OBVIOUS
  <2> HIDE DEF Good
  <2> QED
    BY <1>1, <1>2, <2>1, FiniteInduction
<1> QED
  BY <1>3

-----------------------------------------------------------------------------
(* The chunks *)

Chunks ==
  [pc : {"seen", "sleep", "through"}, bytes : Nat \ {0}, seen : Nat, wait : Nat, wake : Nat]

\* The chunks that have a slot.
Reserved == Ids("sleep") \cup Ids("through")

Waits == [c \in DOMAIN chunks |-> chunks[c].wait]

Typed ==
  /\ now \in Nat /\ next_at \in Nat /\ chunks \in Seq(Chunks)
  /\ \A c \in DOMAIN chunks :
       /\ chunks[c].seen <= now
       /\ c \in Reserved => chunks[c].wait = Wait(chunks[c].bytes)
       /\ chunks[c].pc = "through" => chunks[c].wake <= now

Arrived(since) == {c \in Reserved : chunks[c].seen >= since}
Asleep(time)   == {c \in Reserved : chunks[c].wake > time}

\* The slots of the chunks that have arrived since a time fit between it and
\* the end of the last slot.
SlotsFit == \A since \in Nat : Sum(Waits, Arrived(since)) <= AtLeast(next_at - since, 0)

\* ... and those of the chunks that have woken by another time fit before that.
WokenFit ==
  \A since, time \in Nat :
    Sum(Waits, Arrived(since) \ Asleep(time)) <= AtLeast(time - since, 0)

\* What is left of the slots at a time is of chunks that still sleep then.
LeftIsOwed ==
  \A time \in Nat : now <= time => next_at - time <= Sum(Waits, Asleep(time))

Inv == Typed /\ SlotsFit /\ WokenFit /\ LeftIsOwed

LEMMA Division ==
  ASSUME NEW n \in Nat, NEW c \in Nat \ {0}
  PROVE  n \div c \in Nat /\ n < c * ((n \div c) + 1)
OBVIOUS

\* A chunk costs at least one unit, and a unit more than it costs would pay for it.
LEMMA WaitIsNat ==
  ASSUME NEW bytes \in Nat \ {0}
  PROVE  Wait(bytes) \in Nat /\ Wait(bytes) >= 1 /\ bytes * Second <= Rate * (Wait(bytes) + 1)
<1>1. Second \in Nat /\ Rate \in Nat \ {0} /\ bytes * Second \in Nat
  BY LimiterAssumption
<1> DEFINE cost == bytes * Second
           whole == cost \div Rate
<1>2. whole \in Nat /\ cost < Rate * (whole + 1)
  <2> HIDE DEF cost
  <2> QED
    BY <1>1, Division DEF cost
<1>3. Wait(bytes) = IF whole < 1 THEN 1 ELSE whole
  BY DEF Wait, AtLeast
<1> HIDE DEF whole, cost
<1>4. CASE whole >= 1
  <2>1. Wait(bytes) = whole
    BY <1>2, <1>3, <1>4
  <2>2. cost <= Rate * (whole + 1)
    <3> DEFINE paid == Rate * (whole + 1)
    <3>1. paid \in Nat /\ cost \in Nat
      BY <1>1, <1>2 DEF cost
    <3> HIDE DEF paid
    <3> QED
      BY <1>2, <3>1 DEF paid
  <2> QED
    BY <1>2, <1>4, <2>1, <2>2 DEF cost
<1>5. CASE whole = 0
  <2>1. Wait(bytes) = 1 /\ cost < Rate * 1
    BY <1>2, <1>3, <1>5
  <2>2. cost <= Rate * 2
    BY <1>1, <2>1 DEF cost
  <2> QED
    BY <2>1, <2>2 DEF cost
<1> QED
  BY <1>2, <1>4, <1>5

LEMMA ChunkSets ==
  ASSUME Typed
  PROVE  /\ IsFiniteSet(DOMAIN chunks) /\ Reserved \subseteq DOMAIN chunks
         /\ \A c \in DOMAIN chunks : chunks[c] \in Chunks /\ Waits[c] = chunks[c].wait /\ Waits[c] \in Nat
         /\ \A S \in SUBSET DOMAIN chunks : IsFiniteSet(S) /\ Sum(Waits, S) \in Nat
<1>1. DOMAIN chunks = 1 .. Len(chunks) /\ Len(chunks) \in Nat
  BY DEF Typed
<1>2. IsFiniteSet(DOMAIN chunks)
  BY <1>1, FS_Interval
<1>3. \A c \in DOMAIN chunks : chunks[c] \in Chunks
  BY <1>1 DEF Typed
<1>4. \A c \in DOMAIN chunks : Waits[c] = chunks[c].wait /\ Waits[c] \in Nat
  BY <1>3 DEF Waits, Chunks
<1>5. ASSUME NEW S \in SUBSET DOMAIN chunks PROVE IsFiniteSet(S) /\ Sum(Waits, S) \in Nat
  <2>1. IsFiniteSet(S)
    BY <1>2, FS_Subset
  <2> QED
    BY <1>4, <2>1, SumIsNat
<1> QED
  BY <1>2, <1>3, <1>4, <1>5 DEF Reserved, Ids

LEMMA Positive ==
  \A n \in Int : AtLeast(n, 0) \in Nat
BY DEF AtLeast

LEMMA Monotone ==
  ASSUME NEW m \in Nat, NEW n \in Nat, m <= n, NEW k \in Nat
  PROVE  /\ AtLeast(m - k, 0) <= AtLeast(n - k, 0)
         /\ AtLeast(m - k, 0) \in Nat /\ AtLeast(n - k, 0) \in Nat
BY DEF AtLeast

LEMMA InitInv == Init => Inv
<1> SUFFICES ASSUME Init PROVE Inv
  OBVIOUS
<1>1. now = 0 /\ next_at = 0 /\ chunks = <<>> /\ DOMAIN chunks = {}
  BY DEF Init
<1>2. Reserved = {} /\ \A since : Arrived(since) = {} /\ Asleep(since) = {}
  BY <1>1 DEF Reserved, Ids, Arrived, Asleep
<1>3. Typed
  BY <1>1, <1>2 DEF Typed
<1>4. \A since, time : /\ Sum(Waits, Arrived(since)) = 0 /\ Sum(Waits, Asleep(time)) = 0
                       /\ Sum(Waits, Arrived(since) \ Asleep(time)) = 0
  <2> TAKE since, time
  <2>1. Arrived(since) = {} /\ Asleep(time) = {} /\ Arrived(since) \ Asleep(time) = {}
    BY <1>2
  <2> QED
    BY <2>1, SumOfNone
<1>5. ASSUME NEW since \in Nat, NEW time \in Nat
      PROVE  AtLeast(next_at - since, 0) >= 0 /\ AtLeast(time - since, 0) >= 0
  <2>1. next_at - since \in Int /\ time - since \in Int
    BY <1>1
  <2> QED
    BY <2>1, Positive
<1>6. SlotsFit /\ WokenFit
  BY <1>4, <1>5 DEF SlotsFit, WokenFit
<1>7. LeftIsOwed
  BY <1>1, <1>4 DEF LeftIsOwed
<1> QED
  BY <1>3, <1>6, <1>7 DEF Inv

\* A step that reserves no slot and does not turn back the clock.
LEMMA QuietKeeps ==
  ASSUME Inv, Typed', Reserved' = Reserved, next_at' = next_at, now' >= now,
         \A c \in Reserved :
           /\ chunks'[c].wait = chunks[c].wait
           /\ chunks'[c].seen = chunks[c].seen
           /\ chunks'[c].wake = chunks[c].wake
  PROVE  Inv'
<1> USE DEF Inv
<1>1. /\ \A since : Arrived(since)' = Arrived(since)
      /\ \A time : Asleep(time)' = Asleep(time)
  BY DEF Arrived, Asleep
<1>2. ASSUME NEW S \in SUBSET Reserved PROVE Sum(Waits', S) = Sum(Waits, S)
  <2>1. /\ Reserved \subseteq DOMAIN chunks /\ Reserved \subseteq DOMAIN chunks'
        /\ IsFiniteSet(S)
    BY ChunkSets DEF Reserved, Ids
  <2>2. \A c \in S : Waits[c] \in Nat /\ Waits'[c] = Waits[c]
    BY <2>1, ChunkSets DEF Waits
  <2> QED
    BY <2>1, <2>2, SumOfSame
<1>3. \A since, time \in Nat :
        /\ Arrived(since) \in SUBSET Reserved /\ Asleep(time) \in SUBSET Reserved
        /\ Arrived(since) \ Asleep(time) \in SUBSET Reserved
  BY DEF Arrived, Asleep
<1>4. SlotsFit'
  BY <1>1, <1>2, <1>3 DEF SlotsFit
<1>5. WokenFit'
  BY <1>1, <1>2, <1>3 DEF WokenFit
<1>6. LeftIsOwed'
  <2> SUFFICES ASSUME NEW time \in Nat, now' <= time
               PROVE  next_at' - time <= Sum(Waits', Asleep(time)')
    BY DEF LeftIsOwed
  <2>1. now <= time
    BY DEF Typed
  <2> QED
    BY <1>1, <1>2, <1>3, <2>1 DEF LeftIsOwed
<1> QED
  BY <1>4, <1>5, <1>6

\* What a chunk that reserves its slot gets.
LEMMA ReserveTyped ==
  ASSUME Inv, NEW c \in DOMAIN chunks, Reserve(c)
  PROVE  /\ Typed' /\ c \notin Reserved /\ Reserved' = Reserved \cup {c}
         /\ now' = now /\ chunks[c].seen \in Nat /\ chunks[c].seen <= now
         /\ \E wait \in Nat :
              /\ wait >= 1 /\ chunks'[c].wait = wait /\ chunks'[c].seen = chunks[c].seen
              /\ next_at' = AtLeast(next_at, chunks[c].seen) + wait
              /\ chunks'[c].wake = now + (next_at' - chunks[c].seen)
         /\ \A d \in DOMAIN chunks \ {c} : chunks'[d] = chunks[d]
         /\ DOMAIN chunks' = DOMAIN chunks
<1> DEFINE wait == Wait(chunks[c].bytes)
           seen == chunks[c].seen
           wake == now + (next_at' - seen)
<1>1. chunks[c] \in Chunks /\ seen \in Nat /\ seen <= now /\ now \in Nat /\ next_at \in Nat
      /\ chunks[c].bytes \in Nat \ {0} /\ chunks[c].pc = "seen"
  BY ChunkSets DEF Inv, Typed, Chunks, Reserve
<1>2. wait \in Nat /\ wait >= 1
  BY <1>1, WaitIsNat
<1>3. next_at' = AtLeast(next_at, seen) + wait /\ now' = now
  BY DEF Reserve, SlotStart
<1>4. next_at' \in Nat /\ next_at' > seen /\ wake \in Nat
  <2> HIDE DEF wait, seen
  <2> QED
    BY <1>1, <1>2, <1>3 DEF AtLeast
<1>5. chunks' = [chunks EXCEPT ![c].pc = "sleep", ![c].wait = wait, ![c].wake = wake]
  BY <1>3, <1>4 DEF Reserve, SlotStart
<1>6. chunks \in Seq(Chunks) /\ chunks = [d \in 1 .. Len(chunks) |-> chunks[d]]
      /\ DOMAIN chunks = 1 .. Len(chunks)
  BY DEF Inv, Typed
<1> HIDE DEF wait, seen, wake
<1> DEFINE new == [chunks[c] EXCEPT !.pc = "sleep", !.wait = wait, !.wake = wake]
<1>7. new \in Chunks /\ new.pc = "sleep" /\ new.wait = wait /\ new.wake = wake
      /\ new.seen = chunks[c].seen /\ new.bytes = chunks[c].bytes
  BY <1>1, <1>2, <1>4 DEF Chunks
<1>8. /\ chunks' = [chunks EXCEPT ![c] = new]
  BY <1>5, <1>6
<1> HIDE DEF new
<1>9. /\ DOMAIN chunks' = DOMAIN chunks /\ chunks' \in Seq(Chunks)
      /\ chunks'[c] = new /\ \A d \in DOMAIN chunks \ {c} : chunks'[d] = chunks[d]
  BY <1>6, <1>7, <1>8
<1>10. c \notin Reserved /\ Reserved' = Reserved \cup {c}
  BY <1>1, <1>7, <1>9 DEF Reserved, Ids
<1>11. Typed'
  <2>1. ASSUME NEW d \in DOMAIN chunks
        PROVE  /\ chunks'[d].seen <= now
               /\ d \in Reserved' => chunks'[d].wait = Wait(chunks'[d].bytes)
               /\ chunks'[d].pc = "through" => chunks'[d].wake <= now
    <3>1. CASE d = c
      BY <1>1, <1>7, <1>9, <3>1 DEF wait, seen
    <3>2. CASE d # c
      BY <1>9, <1>10, <3>2 DEF Inv, Typed
    <3> QED
      BY <3>1, <3>2
  <2> QED
    BY <1>1, <1>3, <1>4, <1>9, <2>1 DEF Typed
<1> QED
  BY <1>1, <1>2, <1>3, <1>4, <1>7, <1>9, <1>10, <1>11 DEF seen, wake

\* A slot that is reserved begins at the end of the last one or after it, and
\* ends when its chunk wakes or before.
LEMMA ReserveKeeps ==
  ASSUME Inv, NEW c \in DOMAIN chunks, Reserve(c)
  PROVE  Inv'
<1> DEFINE seen == chunks[c].seen
           wake == chunks'[c].wake
<1>1. PICK wait \in Nat :
        /\ wait >= 1 /\ chunks'[c].wait = wait /\ chunks'[c].seen = seen
        /\ next_at' = AtLeast(next_at, seen) + wait
        /\ wake = now + (next_at' - seen)
  BY ReserveTyped
<1>2. /\ Typed' /\ c \notin Reserved /\ Reserved' = Reserved \cup {c} /\ now' = now
      /\ seen \in Nat /\ seen <= now /\ now \in Nat /\ next_at \in Nat
      /\ \A d \in DOMAIN chunks \ {c} : chunks'[d] = chunks[d]
      /\ DOMAIN chunks' = DOMAIN chunks
  BY ReserveTyped DEF Inv, Typed
<1>3. /\ next_at' \in Nat /\ wake \in Nat /\ next_at' <= wake /\ next_at + wait <= next_at'
      /\ seen + wait <= next_at'
      /\ next_at' = next_at + wait \/ (next_at < seen /\ next_at' = seen + wait)
  <2> HIDE DEF seen, wake
  <2> QED
    BY <1>1, <1>2 DEF AtLeast
<1>4. ASSUME NEW S \in SUBSET Reserved
      PROVE  /\ Sum(Waits', S) = Sum(Waits, S) /\ Sum(Waits, S) \in Nat
             /\ Sum(Waits', S \cup {c}) = Sum(Waits, S) + wait
  <2>1. S \subseteq DOMAIN chunks /\ IsFiniteSet(S) /\ Sum(Waits, S) \in Nat /\ c \notin S
    BY <1>2, ChunkSets DEF Inv
  <2>2. \A d \in S : Waits[d] \in Nat /\ Waits'[d] = Waits[d]
    BY <1>2, <2>1, ChunkSets DEF Waits, Inv
  <2>3. Sum(Waits', S) = Sum(Waits, S)
    BY <2>1, <2>2, SumOfSame
  <2>4. Waits'[c] = wait /\ \A d \in S : Waits'[d] \in Nat
    BY <1>1, <1>2, <2>2 DEF Waits
  <2>5. Sum(Waits', S \cup {c}) = Sum(Waits', S) + Waits'[c]
    BY <2>1, <2>4, SumOfOneMore
  <2> QED
    BY <2>1, <2>3, <2>4, <2>5
<1>5. \A d \in Reserved : chunks'[d] = chunks[d] /\ d # c
  BY <1>2 DEF Reserved, Ids
<1>6. ASSUME NEW since \in Nat, NEW time \in Nat
      PROVE  /\ Arrived(since)' = Arrived(since) \cup (IF seen >= since THEN {c} ELSE {})
             /\ Asleep(time)' = Asleep(time) \cup (IF wake > time THEN {c} ELSE {})
             /\ Arrived(since) \in SUBSET Reserved /\ Asleep(time) \in SUBSET Reserved
             /\ c \notin Arrived(since) /\ c \notin Asleep(time)
  BY <1>1, <1>2, <1>5 DEF Arrived, Asleep
<1> HIDE DEF seen, wake
<1>7. SlotsFit'
  <2> SUFFICES ASSUME NEW since \in Nat
               PROVE  Sum(Waits', Arrived(since)') <= AtLeast(next_at' - since, 0)
    BY DEF SlotsFit
  <2>1. /\ Sum(Waits, Arrived(since)) <= AtLeast(next_at - since, 0)
        /\ Sum(Waits, Arrived(since)) \in Nat
    BY <1>4, <1>6 DEF Inv, SlotsFit
  <2>2. CASE seen >= since
    <3>1. Sum(Waits', Arrived(since)') = Sum(Waits, Arrived(since)) + wait
      BY <1>4, <1>6, <2>2
    <3> QED
      BY <1>2, <1>3, <2>1, <2>2, <3>1 DEF AtLeast
  <2>3. CASE ~(seen >= since)
    <3>1. Sum(Waits', Arrived(since)') = Sum(Waits, Arrived(since))
      BY <1>4, <1>6, <2>3
    <3>2. next_at <= next_at'
      BY <1>2, <1>3
    <3>3. next_at \in Nat /\ next_at' \in Nat
      BY <1>2, <1>3
    <3>4. /\ AtLeast(next_at - since, 0) <= AtLeast(next_at' - since, 0)
          /\ AtLeast(next_at - since, 0) \in Nat /\ AtLeast(next_at' - since, 0) \in Nat
      BY <3>2, <3>3, Monotone
    <3> QED
      BY <2>1, <3>1, <3>4
  <2> QED
    BY <2>2, <2>3
<1>8. WokenFit'
  <2> SUFFICES ASSUME NEW since \in Nat, NEW time \in Nat
               PROVE  Sum(Waits', Arrived(since)' \ Asleep(time)') <= AtLeast(time - since, 0)
    BY DEF WokenFit
  <2> DEFINE Woken == Arrived(since) \ Asleep(time)
  <2>1. /\ Sum(Waits, Woken) <= AtLeast(time - since, 0) /\ Woken \in SUBSET Reserved
        /\ Sum(Waits, Woken) \in Nat
    BY <1>4, <1>6 DEF Inv, WokenFit
  <2>2. CASE seen >= since /\ wake <= time
    <3>1. Arrived(since)' \ Asleep(time)' = Woken \cup {c}
      BY <1>2, <1>3, <1>6, <2>2
    <3>2. Sum(Waits', Arrived(since)' \ Asleep(time)') = Sum(Waits, Woken) + wait
      BY <1>4, <2>1, <3>1
    <3>3. Sum(Waits, Woken) <= Sum(Waits, Arrived(since)) /\ Sum(Waits, Arrived(since)) \in Nat
      <4>1. IsFiniteSet(Arrived(since)) /\ \A d \in Arrived(since) : Waits[d] \in Nat
        BY <1>6, ChunkSets DEF Inv
      <4> QED
        BY <1>4, <1>6, <4>1, SumGrows
    <3>4. Sum(Waits, Arrived(since)) <= AtLeast(next_at - since, 0)
      BY DEF Inv, SlotsFit
    <3> QED
      BY <1>2, <1>3, <2>1, <2>2, <3>2, <3>3, <3>4 DEF AtLeast
  <2>3. CASE ~(seen >= since /\ wake <= time)
    <3>1. Arrived(since)' \ Asleep(time)' = Woken
      BY <1>2, <1>3, <1>6, <2>3
    <3> QED
      BY <1>4, <2>1, <3>1
  <2> QED
    BY <2>2, <2>3
<1>9. LeftIsOwed'
  <2> SUFFICES ASSUME NEW time \in Nat, now <= time
               PROVE  next_at' - time <= Sum(Waits', Asleep(time)')
    BY <1>2 DEF LeftIsOwed
  <2>1. next_at - time <= Sum(Waits, Asleep(time)) /\ Sum(Waits, Asleep(time)) \in Nat
    BY <1>4, <1>6 DEF Inv, LeftIsOwed
  <2>2. CASE wake > time
    <3>1. Sum(Waits', Asleep(time)') = Sum(Waits, Asleep(time)) + wait
      BY <1>4, <1>6, <2>2
    <3> QED
      BY <1>2, <1>3, <2>1, <3>1
  <2>3. CASE wake <= time
    <3>1. Asleep(time)' = Asleep(time) \cup {}
      BY <1>3, <1>6, <2>3, ~(wake > time)
    <3>2. Sum(Waits', Asleep(time)') = Sum(Waits, Asleep(time))
      BY <1>4, <1>6, <3>1
    <3> QED
      BY <1>2, <1>3, <2>1, <2>3, <3>2
  <2> QED
    BY <1>3, <2>2, <2>3
<1> QED
  BY <1>2, <1>7, <1>8, <1>9 DEF Inv

LEMMA NextInv == Inv /\ [Next]_vars => Inv'
<1> SUFFICES ASSUME Inv, [Next]_vars PROVE Inv'
  OBVIOUS
<1>0. /\ now \in Nat /\ next_at \in Nat /\ chunks \in Seq(Chunks)
      /\ Len(chunks) \in Nat /\ DOMAIN chunks = 1 .. Len(chunks)
  BY DEF Inv, Typed
<1>1. CASE Arrive
  <2>1. PICK bytes \in ChunkSizes : chunks' = Append(chunks, Chunk(bytes))
    BY <1>1 DEF Arrive
  <2>2. now' = now /\ next_at' = next_at
    BY <1>1 DEF Arrive
  <2>3. Chunk(bytes) \in Chunks /\ Chunk(bytes).pc = "seen" /\ Chunk(bytes).seen = now
    BY <1>0, LimiterAssumption DEF Chunk, Chunks
  <2> DEFINE new == Len(chunks) + 1
  <2> HIDE DEF new
  <2>4. /\ chunks' \in Seq(Chunks) /\ DOMAIN chunks' = DOMAIN chunks \cup {new}
        /\ new \notin DOMAIN chunks /\ chunks'[new] = Chunk(bytes)
        /\ \A c \in DOMAIN chunks : chunks'[c] = chunks[c]
    BY <1>0, <2>1, <2>3 DEF new
  <2>5. Reserved' = Reserved /\ Reserved \subseteq DOMAIN chunks
    BY <2>3, <2>4 DEF Reserved, Ids
  <2>6. ASSUME NEW c \in DOMAIN chunks'
        PROVE  /\ chunks'[c].seen <= now
               /\ c \in Reserved => chunks'[c].wait = Wait(chunks'[c].bytes)
               /\ chunks'[c].pc = "through" => chunks'[c].wake <= now
    <3>1. CASE c = new
      BY <1>0, <2>3, <2>4, <2>5, <3>1
    <3>2. CASE c \in DOMAIN chunks
      BY <2>4, <3>2 DEF Inv, Typed
    <3> QED
      BY <2>4, <3>1, <3>2
  <2>7. Typed'
    BY <1>0, <2>2, <2>4, <2>5, <2>6 DEF Typed
  <2> QED
    BY <1>0, <2>2, <2>4, <2>5, <2>7, QuietKeeps
<1>2. ASSUME NEW c \in DOMAIN chunks, Reserve(c) PROVE Inv'
  BY <1>2, ReserveKeeps
<1>3. ASSUME NEW c \in DOMAIN chunks, LetThrough(c) PROVE Inv'
  <2>1. /\ now' = now /\ next_at' = next_at
        /\ chunks[c].pc = "sleep" /\ chunks[c].wake <= now
        /\ chunks' = [chunks EXCEPT ![c].pc = "through"]
    BY <1>0, <1>3, ChunkSets DEF LetThrough, Inv, Chunks
  <2> DEFINE new == [chunks[c] EXCEPT !.pc = "through"]
  <2>2. /\ chunks[c] \in Chunks /\ new \in Chunks /\ new.pc = "through" /\ new.wait = chunks[c].wait
        /\ new.seen = chunks[c].seen /\ new.wake = chunks[c].wake /\ new.bytes = chunks[c].bytes
    BY ChunkSets DEF Inv, Chunks
  <2>3. chunks' = [chunks EXCEPT ![c] = new]
    BY <1>0, <2>1
  <2> HIDE DEF new
  <2>4. /\ chunks' \in Seq(Chunks) /\ DOMAIN chunks' = DOMAIN chunks
        /\ chunks'[c] = new /\ \A d \in DOMAIN chunks \ {c} : chunks'[d] = chunks[d]
    BY <1>0, <2>2, <2>3
  <2>5. Reserved' = Reserved /\ Reserved \subseteq DOMAIN chunks /\ c \in Reserved
    BY <2>1, <2>2, <2>4 DEF Reserved, Ids
  <2>6. \A d \in DOMAIN chunks :
          /\ chunks'[d].wait = chunks[d].wait /\ chunks'[d].seen = chunks[d].seen
          /\ chunks'[d].wake = chunks[d].wake /\ chunks'[d].bytes = chunks[d].bytes
          /\ chunks'[d].pc = "through" => chunks[d].wake <= now
    BY <2>1, <2>2, <2>4 DEF Inv, Typed
  <2>7. \A d \in DOMAIN chunks :
          chunks[d].seen <= now /\ (d \in Reserved => chunks[d].wait = Wait(chunks[d].bytes))
    BY DEF Inv, Typed
  <2>8. Typed'
    BY <1>0, <2>1, <2>4, <2>5, <2>6, <2>7 DEF Typed
  <2> QED
    BY <1>0, <2>1, <2>5, <2>6, <2>8, QuietKeeps
<1>4. CASE Tick
  <2>1. now' = now + 1 /\ UNCHANGED <<next_at, chunks>> /\ Reserved' = Reserved
    BY <1>4 DEF Tick, Reserved, Ids
  <2>2. \A c \in DOMAIN chunks : chunks[c] \in Chunks
    BY ChunkSets DEF Inv
  <2>3. Typed'
    BY <1>0, <2>1, <2>2 DEF Inv, Typed, Chunks
  <2> QED
    BY <1>0, <2>1, <2>3, QuietKeeps
<1>5. CASE UNCHANGED vars
  <2>1. UNCHANGED <<now, next_at, chunks>> /\ Reserved' = Reserved
    BY <1>5 DEF vars, Reserved, Ids
  <2>2. Typed'
    BY <2>1 DEF Inv, Typed
  <2> QED
    BY <1>0, <2>1, <2>2, QuietKeeps
<1> QED
  BY <1>1, <1>2, <1>3, <1>4, <1>5 DEF Next

-----------------------------------------------------------------------------
(* The theorems *)

LEMMA InvIsPaced == Inv => Paced
<1> SUFFICES ASSUME Inv, NEW since \in 0 .. now
             PROVE  LET through == {c \in Ids("through") : chunks[c].seen >= since}
                    IN  Sum([c \in through |-> chunks[c].bytes], through) * Second
                          <= Rate * ((now - since) + Cardinality(through))
  BY DEF Paced
<1> DEFINE through == {c \in Ids("through") : chunks[c].seen >= since}
           bytes == [c \in through |-> chunks[c].bytes]
<1>1. now \in Nat /\ since \in Nat /\ since <= now
  BY DEF Inv, Typed
<1>2. /\ through \subseteq DOMAIN chunks /\ IsFiniteSet(through)
      /\ \A c \in through : chunks[c] \in Chunks /\ Waits[c] = chunks[c].wait /\ Waits[c] \in Nat
  <2>1. through \subseteq DOMAIN chunks
    BY DEF Ids
  <2> HIDE DEF through
  <2> QED
    BY <2>1, ChunkSets DEF Inv
<1>3. ASSUME NEW c \in through
      PROVE  bytes[c] \in Nat /\ bytes[c] * Second <= Rate * (Waits[c] + 1)
  <2>1. bytes[c] = chunks[c].bytes /\ bytes[c] \in Nat \ {0}
    BY <1>2 DEF Chunks
  <2>2. Waits[c] = Wait(chunks[c].bytes)
    BY <1>2 DEF Inv, Typed, Reserved, Ids
  <2> QED
    BY <2>1, <2>2, WaitIsNat
<1>4. through \subseteq Arrived(since) \ Asleep(now)
  BY <1>1, <1>2 DEF Inv, Typed, Chunks, Reserved, Ids, Arrived, Asleep
<1>5. Sum(Waits, through) <= now - since
  <2> DEFINE woken == Arrived(since) \ Asleep(now)
  <2>1. woken \subseteq DOMAIN chunks
    BY ChunkSets DEF Arrived, Inv
  <2>2. IsFiniteSet(woken) /\ (\A c \in woken : Waits[c] \in Nat) /\ Sum(Waits, woken) \in Nat
    <3> HIDE DEF woken
    <3> QED
      BY <2>1, ChunkSets DEF Inv
  <2>3. Sum(Waits, through) <= Sum(Waits, woken) /\ Sum(Waits, through) \in Nat
    <3>1. through \in SUBSET woken
      BY <1>4
    <3> HIDE DEF woken, through
    <3> QED
      BY <1>2, <2>2, <3>1, SumGrows, SumIsNat
  <2>4. Sum(Waits, woken) <= AtLeast(now - since, 0)
    BY <1>1 DEF Inv, WokenFit
  <2> HIDE DEF woken, through
  <2> QED
    BY <1>1, <2>2, <2>3, <2>4 DEF AtLeast
<1> HIDE DEF through, bytes
<1>6. Second \in Nat /\ Rate \in Nat
  BY LimiterAssumption
<1>7. Sum(bytes, through) * Second <= Rate * (Sum(Waits, through) + Cardinality(through))
  BY <1>2, <1>3, <1>6, SumIsBounded
<1>8. /\ Sum(bytes, through) \in Nat /\ Sum(Waits, through) \in Nat /\ Cardinality(through) \in Nat
  BY <1>2, <1>3, SumIsNat, FS_CardinalityType
<1>9. Sum(bytes, through) * Second <= Rate * ((now - since) + Cardinality(through))
  <2> DEFINE paid == Sum(bytes, through) * Second
             n == Sum(Waits, through) + Cardinality(through)
             k == (now - since) + Cardinality(through)
             rest == k - n
  <2>1. n \in Nat /\ rest \in Nat /\ k = n + rest
    BY <1>1, <1>5, <1>8
  <2>2. paid \in Nat
    BY <1>6, <1>8, Distributes
  <2>3. paid <= Rate * n
    BY <1>7
  <2> HIDE DEF n, k, rest, paid
  <2>4. Rate * k = Rate * n + Rate * rest /\ Rate * rest \in Nat /\ Rate * n \in Nat
    BY <1>6, <2>1, Distributes
  <2>5. paid <= Rate * k
    <3> DEFINE a == Rate * n  b == Rate * rest  t == Rate * k
    <3>1. a \in Nat /\ b \in Nat /\ t = a + b /\ paid <= a
      BY <2>3, <2>4
    <3> HIDE DEF a, b, t
    <3>2. paid <= t
      BY <2>2, <3>1
    <3> QED
      BY <3>2 DEF t
  <2> QED
    BY <2>5 DEF paid, k
<1> QED
  BY <1>9 DEF through, bytes

LEMMA InvHasNoDebt == Inv => NoDebt
<1> SUFFICES ASSUME Inv PROVE NoDebt
  OBVIOUS
<1> DEFINE sleepers == Ids("sleep")
           owed == [c \in sleepers |-> chunks[c].wait]
<1>1. now \in Nat /\ next_at \in Nat
  BY DEF Inv, Typed
<1>2. /\ sleepers \subseteq DOMAIN chunks /\ IsFiniteSet(sleepers)
      /\ \A c \in sleepers : Waits[c] \in Nat /\ owed[c] = Waits[c]
  <2>1. sleepers \subseteq DOMAIN chunks
    BY DEF Ids
  <2> HIDE DEF sleepers
  <2> QED
    BY <2>1, ChunkSets DEF Inv
<1>3. Asleep(now) \subseteq sleepers
  <2>1. \A c \in Reserved : chunks[c] \in Chunks
    BY ChunkSets DEF Inv
  <2> QED
    BY <1>1, <2>1 DEF Inv, Typed, Chunks, Reserved, Ids, Asleep
<1> HIDE DEF sleepers, owed
<1>4. Sum(owed, sleepers) = Sum(Waits, sleepers)
  BY <1>2, SumOfSame
<1>5. Sum(Waits, Asleep(now)) <= Sum(Waits, sleepers) /\ Sum(Waits, Asleep(now)) \in Nat
      /\ Sum(Waits, sleepers) \in Nat
  BY <1>2, <1>3, SumGrows, SumIsNat, FS_Subset
<1>6. next_at - now <= Sum(Waits, Asleep(now))
  BY <1>1 DEF Inv, LeftIsOwed
<1> QED
  BY <1>1, <1>4, <1>5, <1>6 DEF NoDebt, sleepers, owed

\* Whatever came before and however late the workers get the lock, the bytes that
\* have arrived since a time and been let through are no more than the rate
\* allows (rate_limit.rs:20-34).
THEOREM RateIsKept == Spec => []Paced
BY InitInv, NextInv, InvIsPaced, PTL DEF Spec

\* No chunk waits for traffic that is over (rate_limit.rs:26-31).
THEOREM NobodyOwes == Spec => []NoDebt
BY InitInv, NextInv, InvHasNoDebt, PTL DEF Spec
=============================================================================
