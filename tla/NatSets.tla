------------------------------- MODULE NatSets -------------------------------
(***************************************************************************)
(* Facts about numbers.  Bounded sets of them have a largest and a         *)
(* smallest member: the newest of some ids, and the oldest.  From the      *)
(* smallest follow induction up to a number, stated with a set instead of  *)
(* a predicate, and that a recursion up to a number has a solution.        *)
(***************************************************************************)
EXTENDS Integers, WellFoundedInduction, TLAPS

\* A set of natural numbers that is not empty has a smallest member.
LEMMA SmallestExists ==
    ASSUME NEW S \in SUBSET Nat, S # {}
    PROVE  \E j \in S : \A k \in S : j <= k
<1>1. PICK j \in S : \A k \in S : <<k, j>> \notin OpToRel(<, Nat)
  BY NatLessThanWellFounded, WFMin
<1>2. \A k \in S : ~ (k < j)
  BY <1>1 DEF OpToRel
<1>. QED BY <1>2

\* If it has an upper bound, it has a largest one: the least upper bound, which
\* is a member, since otherwise the number below it were a bound as well.
LEMMA LargestExists ==
    ASSUME NEW S \in SUBSET Nat, S # {},
           NEW bound \in Nat, \A k \in S : k <= bound
    PROVE  \E j \in S : \A k \in S : k <= j
<1>. DEFINE U == {n \in Nat : \A k \in S : k <= n}
<1>1. PICK u \in U : \A n \in U : u <= n
  <2>1. U \in SUBSET Nat /\ U # {}
    OBVIOUS
  <2>. QED BY <2>1, SmallestExists
<1>2. u \in S
  <2>. SUFFICES ASSUME u \notin S PROVE FALSE
    OBVIOUS
  <2>1. \A k \in S : k <= u - 1
    OBVIOUS
  <2>2. u - 1 \in Nat
    <3>1. PICK k \in S : k <= u - 1
      BY <2>1
    <3>. QED BY <3>1
  <2>3. u - 1 \in U
    BY <2>1, <2>2
  <2>. QED BY <2>3, <1>1
<1>. QED BY <1>1, <1>2

\* Induction up to n, over a set instead of a predicate: what 0 is in, and what
\* passes from k - 1 to k, holds of every number up to n.
LEMMA Induction ==
    ASSUME NEW n \in Nat, NEW S, 0 \in S,
           \A k \in 1..n : k - 1 \in S => k \in S
    PROVE  \A k \in 0..n : k \in S
<1>. DEFINE Bad == {k \in 0..n : k \notin S}
<1>. SUFFICES ASSUME Bad # {} PROVE FALSE
  OBVIOUS
<1>1. PICK j \in Bad : \A k \in Bad : j <= k
  <2>1. Bad \in SUBSET Nat
    OBVIOUS
  <2>. QED BY <2>1, SmallestExists
<1>2. j \in 1..n
  BY <1>1
<1>3. j - 1 \in 0..n /\ j - 1 \notin Bad
  BY <1>1, <1>2
<1>. QED BY <1>1, <1>2, <1>3

\* f starts with b, and its values up to n follow from one another by G.
Recursive(f, n, X, b, G) ==
  /\ f \in [0..n -> X]
  /\ f[0] = b
  /\ \A k \in 1..n : f[k] = G[k][f[k - 1]]

\* Such a function exists.
LEMMA Recursion ==
    ASSUME NEW n \in Nat, NEW X, NEW b \in X,
           NEW G \in [1..n -> [X -> X]]
    PROVE  \E f : Recursive(f, n, X, b, G)
<1>. DEFINE Good(f, m) == f[0] = b /\ \A k \in 1..m : f[k] = G[k][f[k - 1]]
            S == {m \in 0..n : \E f \in [0..m -> X] : Good(f, m)}
<1>1. 0 \in S
  <2>. DEFINE g == [k \in 0..0 |-> b]
  <2>1. g \in [0..0 -> X] /\ Good(g, 0)
    OBVIOUS
  <2>. HIDE DEF g, Good
  <2>2. 0 \in 0..n
    OBVIOUS
  <2>. QED BY <2>1, <2>2
<1>2. ASSUME NEW m \in 1..n, m - 1 \in S
      PROVE  m \in S
  <2>1. PICK f \in [0..m - 1 -> X] : Good(f, m - 1)
    BY <1>2
  <2>. DEFINE g == [k \in 0..m |-> IF k = m THEN G[m][f[m - 1]] ELSE f[k]]
  <2>2. m - 1 \in 0..m - 1 /\ f[m - 1] \in X
    BY <2>1
  <2>3. G[m] \in [X -> X]
    OBVIOUS
  <2>4. G[m][f[m - 1]] \in X
    BY <2>2, <2>3
  <2>5. g \in [0..m -> X]
    BY <2>1, <2>4
  <2>6. g[0] = b
    BY <2>1
  <2>7. ASSUME NEW k \in 1..m PROVE g[k] = G[k][g[k - 1]]
    <3>1. g[k - 1] = f[k - 1]
      OBVIOUS
    <3>2. CASE k = m
      <4>1. g[k] = G[m][f[m - 1]]
        BY <3>2
      <4>. QED BY <3>1, <3>2, <4>1
    <3>3. CASE k # m
      <4>1. k \in 1..m - 1
        BY <3>3
      <4>2. g[k] = f[k]
        BY <3>3
      <4>. QED BY <3>1, <4>1, <4>2, <2>1
    <3>. QED BY <3>2, <3>3
  <2>8. Good(g, m)
    BY <2>6, <2>7
  <2>. HIDE DEF g, Good
  <2>. QED BY <2>5, <2>8
<1>. HIDE DEF Good
<1>3. \A k \in 0..n : k \in S
  <2>. HIDE DEF S
  <2>. QED BY <1>1, <1>2, Induction
<1>4. n \in S
  BY <1>3
<1>5. PICK f \in [0..n -> X] : Good(f, n)
  BY <1>4
<1>. QED BY <1>5 DEF Good, Recursive

=============================================================================
