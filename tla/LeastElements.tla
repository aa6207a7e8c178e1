--------------------------- MODULE LeastElements ---------------------------
(***************************************************************************)
(* Finite sets have least elements: SessionPool looks for the first free   *)
(* slot, VirtualDisplayJob's model for the first free process id.  So what *)
(* holds at 0 and is handed on from each number to the next holds up to n, *)
(* and a loop of n turns has a function of its states.                     *)
(***************************************************************************)
EXTENDS Integers, FiniteSets, FiniteSetsExt, FiniteSetTheorems, TLAPS

\* A function from a finite set to the integers is least somewhere.
LEMMA Least ==
  ASSUME NEW S, IsFiniteSet(S), S # {}, NEW f \in [S -> Int]
  PROVE  \E x \in S : \A y \in S : f[x] <= f[y]
  <1> DEFINE Down(x) == {y \in S : f[y] <= f[x]}
             T == {Down(x) : x \in S}
  <1>1. T # {} /\ T \subseteq FiniteSubsetsOf(S)
    <2>1. \A x \in S : Down(x) \in SUBSET S
      OBVIOUS
    <2>2. \A D \in SUBSET S : IsFiniteSet(D)
      BY FS_Subset
    <2>3. \A x \in S : Down(x) \in FiniteSubsetsOf(S)
      BY <2>1, <2>2 DEF FiniteSubsetsOf
    <2> HIDE DEF Down
    <2>4. QED
      BY <2>3
  <1>2. PICK D \in T : \A E \in T : <<E, D>> \notin StrictSubsetOrdering(S)
    <2> HIDE DEF T
    <2>1. QED
      BY <1>1, FS_StrictSubsetOrderingWellFounded, WFMin
  <1>3. PICK x \in S : D = Down(x)
    BY <1>2
  <1>4. ASSUME NEW y \in S, ~(f[x] <= f[y]) PROVE FALSE
    <2>1. Down(y) \subseteq Down(x) /\ x \in Down(x) /\ x \notin Down(y) /\ Down(y) \in T
      BY <1>4
    <2>2. Down(y) # Down(x) /\ Down(x) \subseteq S
      BY <2>1
    <2> HIDE DEF Down
    <2>3. <<Down(y), Down(x)>> \in (SUBSET S) \X (SUBSET S)
      BY <2>1, <2>2
    <2>4. <<Down(y), D>> \in StrictSubsetOrdering(S)
      BY <1>3, <2>1, <2>2, <2>3 DEF StrictSubsetOrdering
    <2>5. QED
      BY <1>2, <2>1, <2>4
  <1>5. QED
    BY <1>4

\* Min finds the least element of a finite set of integers.
LEMMA MinOf ==
  ASSUME NEW S \in SUBSET Int, S # {}, IsFiniteSet(S)
  PROVE  Min(S) \in S /\ \A y \in S : Min(S) <= y
  <1>1. \E x \in S : \A y \in S : x <= y
    <2> DEFINE id == [x \in S |-> x]
    <2>1. id \in [S -> Int]
      OBVIOUS
    <2> HIDE DEF id
    <2>2. \E x \in S : \A y \in S : id[x] <= id[y]
      BY <2>1, Least
    <2>3. QED
      BY <2>2 DEF id
  <1>2. QED
    BY <1>1 DEF Min

\* What holds at 0 and is handed on holds up to n.
LEMMA Upward ==
  ASSUME NEW n \in Nat, NEW S, 0 \in S, \A i \in 1..n : i - 1 \in S => i \in S
  PROVE  \A i \in 0..n : i \in S
  <1> DEFINE D == {i \in 0..n : i \notin S}
  <1>1. SUFFICES ASSUME D # {} PROVE FALSE
    OBVIOUS
  <1>2. D \in SUBSET Int /\ IsFiniteSet(D)
    <2>1. IsFiniteSet(0..n) /\ D \subseteq 0..n
      BY FS_Interval
    <2>2. QED
      BY <2>1, FS_Subset
  <1> DEFINE k == Min(D)
  <1>3. k \in D /\ \A i \in D : k <= i
    <2> HIDE DEF D
    <2>1. QED
      BY <1>1, <1>2, MinOf
  <1> HIDE DEF k
  <1>4. k \in 1..n /\ k \notin S
    BY <1>3
  <1>5. k - 1 \in 0..n /\ k - 1 \notin D
    BY <1>3, <1>4
  <1>6. QED
    BY <1>4, <1>5

\* A loop of n turns that starts in b and whose i-th turn goes from x to G[i][x],
\* all of them in M, and the states it passes.
Turns(n, M, b, G) == n \in Nat /\ b \in M /\ G \in [1..n -> [M -> M]]
Passes(n, M, b, G, f) == f \in [0..n -> M] /\ f[0] = b /\ \A i \in 1..n : f[i] = G[i][f[i - 1]]

\* Such a loop comes to its end.
LEMMA Loop ==
  ASSUME NEW n, NEW M, NEW b, NEW G, Turns(n, M, b, G)
  PROVE  \E f : Passes(n, M, b, G, f)
  <1>0. n \in Nat /\ b \in M /\ G \in [1..n -> [M -> M]]
    BY DEF Turns
  <1> DEFINE Runs(k, f) == f \in [0..k -> M] /\ f[0] = b /\ \A i \in 1..k : f[i] = G[i][f[i - 1]]
             S == {k \in 0..n : \E f : Runs(k, f)}
  <1>1. 0 \in S
    <2> DEFINE f == [i \in 0..0 |-> b]
    <2>1. Runs(0, f)
      BY <1>0
    <2>2. 0 \in 0..n
      BY <1>0
    <2> HIDE DEF f, Runs
    <2>3. QED
      BY <2>1, <2>2
  <1>2. ASSUME NEW k \in 1..n, k - 1 \in S PROVE k \in S
    <2>1. PICK f : Runs(k - 1, f)
      BY <1>2
    <2> DEFINE g == [i \in 0..k |-> IF i = k THEN G[k][f[k - 1]] ELSE f[i]]
    <2>2. G[k][f[k - 1]] \in M
      BY <1>0, <2>1
    <2>3. g \in [0..k -> M]
      BY <2>1, <2>2
    <2>4. g[0] = b
      BY <2>1
    <2>5. ASSUME NEW i \in 1..k PROVE g[i] = G[i][g[i - 1]]
      <3>1. i - 1 \in 0..k /\ i - 1 # k /\ g[i - 1] = f[i - 1]
        OBVIOUS
      <3>2. CASE i = k
        BY <3>1, <3>2
      <3>3. CASE i # k
        <4>1. i \in 1..(k - 1) /\ g[i] = f[i]
          BY <3>3
        <4>2. QED
          BY <2>1, <3>1, <4>1
      <3>4. QED
        BY <3>2, <3>3
    <2> HIDE DEF g
    <2>6. Runs(k, g)
      BY <2>3, <2>4, <2>5
    <2> HIDE DEF Runs
    <2>7. k \in 0..n
      BY <1>0
    <2>8. QED
      BY <2>6, <2>7
  <1> HIDE DEF Runs
  <1>3. n \in 0..n /\ (\A i \in 0..n : i \in S => \E f : Runs(i, f))
    BY <1>0
  <1> HIDE DEF S
  <1>4. n \in S
    BY <1>0, <1>1, <1>2, <1>3, Upward
  <1>5. PICK f : Runs(n, f)
    BY <1>3, <1>4
  <1>6. Passes(n, M, b, G, f)
    BY <1>5 DEF Runs, Passes
  <1>7. QED
    BY <1>6

\* A function that starts in b and takes the turns of such a loop stays in M.
Takes(n, M, b, G, g) == g[0] = b /\ \A i \in 1..n : g[i - 1] \in M => g[i] = G[i][g[i - 1]]

\* Where the turns lead.
LEMMA Stays ==
  ASSUME NEW n, NEW M, NEW b, NEW G, NEW g, Turns(n, M, b, G), Takes(n, M, b, G, g)
  PROVE  \A i \in 0..n : g[i] \in M
  <1>1. n \in Nat /\ b \in M /\ G \in [1..n -> [M -> M]]
    BY DEF Turns
  <1>2. g[0] = b /\ \A i \in 1..n : g[i - 1] \in M => g[i] = G[i][g[i - 1]]
    BY DEF Takes
  <1> DEFINE I == {i \in 0..n : g[i] \in M}
  <1>3. 0 \in I
    BY <1>1, <1>2
  <1>4. ASSUME NEW i \in 1..n, i - 1 \in I PROVE i \in I
    BY <1>1, <1>2, <1>4
  <1>5. \A i \in I : g[i] \in M
    OBVIOUS
  <1> HIDE DEF I
  <1>6. QED
    BY <1>1, <1>3, <1>4, <1>5, Upward
=============================================================================
