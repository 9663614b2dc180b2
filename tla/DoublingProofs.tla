--------------------------- MODULE DoublingProofs ---------------------------
(***************************************************************************)
(* Induction over the natural numbers for sets, which the provers can      *)
(* instantiate, that a function defined by recursion over them exists, and *)
(* what TwoTo is.                                                          *)
(***************************************************************************)
EXTENDS Doubling, WellFoundedInduction, TLAPS

\* A set that has 0 and with each number the next one has all of them: a number
\* that is missing would have a least one before it.
LEMMA SetInduction ==
  ASSUME NEW S, 0 \in S, \A n \in Nat : n \in S => n + 1 \in S
  PROVE  \A n \in Nat : n \in S
<1> DEFINE T == Nat \ S
<1> SUFFICES ASSUME T # {} PROVE FALSE
  OBVIOUS
<1>1. \E x \in T : \A y \in T : ~(<<y, x>> \in OpToRel(<, Nat))
  BY NatLessThanWellFounded, WFMin
<1>2. PICK x \in T : \A y \in T : ~(y < x)
  BY <1>1 DEF OpToRel
<1>3. x # 0 /\ x - 1 \in Nat
  BY <1>2
<1>4. x - 1 \in S
  BY <1>2, <1>3
<1> QED BY <1>3, <1>4

\* The first values of the function that starts with b and goes on with F.
Prefix(g, n, b, F, V) ==
  /\ g \in [0..n -> V]
  /\ g[0] = b
  /\ \A i \in Nat : i < n => g[i + 1] = F[g[i]]

\* Two such prefixes agree where both are defined.
LEMMA PrefixUnique ==
  ASSUME NEW V, NEW b \in V, NEW F \in [V -> V], NEW n \in Nat, NEW m \in Nat, NEW g, NEW h,
         Prefix(g, n, b, F, V), Prefix(h, m, b, F, V)
  PROVE  \A i \in Nat : i <= n /\ i <= m => g[i] = h[i]
<1> DEFINE S == {i \in Nat : i <= n /\ i <= m => g[i] = h[i]}
<1>1. 0 \in S
  BY DEF Prefix
<1>2. \A i \in Nat : i \in S => i + 1 \in S
  BY DEF Prefix
<1> HIDE DEF S
<1>3. \A i \in Nat : i \in S
  BY <1>1, <1>2, SetInduction
<1> QED BY <1>3 DEF S

\* There is one of every length.
LEMMA PrefixExists ==
  ASSUME NEW V, NEW b \in V, NEW F \in [V -> V]
  PROVE  \A n \in Nat : \E g : Prefix(g, n, b, F, V)
<1> DEFINE S == {n \in Nat : \E g : Prefix(g, n, b, F, V)}
<1>1. 0 \in S
  <2> DEFINE g == [i \in 0..0 |-> b]
  <2>1. Prefix(g, 0, b, F, V)
    BY DEF Prefix
  <2> QED BY <2>1
<1>2. ASSUME NEW n \in Nat, n \in S PROVE n + 1 \in S
  <2>1. PICK g : Prefix(g, n, b, F, V)
    BY <1>2
  <2> DEFINE h == [i \in 0..(n + 1) |-> IF i = n + 1 THEN F[g[n]] ELSE g[i]]
  <2>2. g \in [0..n -> V] /\ g[n] \in V /\ F[g[n]] \in V
    BY <2>1 DEF Prefix
  <2>3. h \in [0..(n + 1) -> V] /\ h[0] = b
    BY <2>1, <2>2 DEF Prefix
  <2>4. ASSUME NEW i \in Nat, i < n + 1 PROVE h[i + 1] = F[h[i]]
    <3>1. h[i] = g[i]
      BY <2>4
    <3>2. CASE i = n
      BY <3>1, <3>2
    <3>3. CASE i < n
      <4>1. h[i + 1] = g[i + 1]
        BY <3>3
      <4> QED BY <2>1, <3>1, <3>3, <4>1 DEF Prefix
    <3> QED BY <2>4, <3>2, <3>3
  <2> HIDE DEF h
  <2>5. Prefix(h, n + 1, b, F, V)
    BY <2>3, <2>4 DEF Prefix
  <2> QED BY <2>5
<1> HIDE DEF S
<1>3. \A n \in Nat : n \in S
  BY <1>1, <1>2, SetInduction
<1> QED BY <1>3 DEF S

\* Recursion over the natural numbers: the function exists.
LEMMA Recursion ==
  ASSUME NEW V, NEW b \in V, NEW F \in [V -> V]
  PROVE  \E f \in [Nat -> V] : f[0] = b /\ \A n \in Nat : f[n + 1] = F[f[n]]
<1> DEFINE G(n) == CHOOSE g : Prefix(g, n, b, F, V)
           f == [n \in Nat |-> G(n)[n]]
<1>1. \A n \in Nat : Prefix(G(n), n, b, F, V)
  BY PrefixExists
<1> HIDE DEF G
<1>2. ASSUME NEW n \in Nat PROVE f[n] \in V
  BY <1>1 DEF Prefix
<1>3. f[0] = b
  BY <1>1 DEF Prefix
<1>4. ASSUME NEW n \in Nat PROVE f[n + 1] = F[f[n]]
  <2>1. Prefix(G(n), n, b, F, V) /\ Prefix(G(n + 1), n + 1, b, F, V)
    BY <1>1
  <2>2. G(n)[n] = G(n + 1)[n]
    BY <2>1, PrefixUnique
  <2>3. G(n + 1)[n + 1] = F[G(n + 1)[n]]
    BY <2>1 DEF Prefix
  <2> QED BY <2>2, <2>3
<1> QED BY <1>2, <1>3, <1>4

\* TwoTo is what its definition says, for every n.
THEOREM TwoToValues ==
  /\ TwoTo \in [Nat -> Nat \ {0}]
  /\ TwoTo[0] = 1
  /\ \A n \in Nat : TwoTo[n + 1] = 2 * TwoTo[n]
<1> DEFINE V == Nat \ {0}
           F == [x \in V |-> 2 * x]
           Is(g) == g = [n \in Nat |-> IF n = 0 THEN 1 ELSE 2 * g[n - 1]]
<1>1. F \in [V -> V] /\ 1 \in V
  OBVIOUS
<1>2. PICK f \in [Nat -> V] : f[0] = 1 /\ \A n \in Nat : f[n + 1] = F[f[n]]
  <2> DEFINE one == 1
  <2>1. F \in [V -> V] /\ one \in V
    BY <1>1
  <2> HIDE DEF F, V, one
  <2>2. \E f \in [Nat -> V] : f[0] = one /\ \A n \in Nat : f[n + 1] = F[f[n]]
    BY <2>1, Recursion
  <2> QED BY <2>2 DEF one
<1>3. ASSUME NEW n \in Nat PROVE f[n] = IF n = 0 THEN 1 ELSE 2 * f[n - 1]
  <2>1. CASE n # 0
    <3>1. n - 1 \in Nat /\ (n - 1) + 1 = n
      BY <2>1
    <3>2. f[n] = F[f[n - 1]]
      BY <1>2, <3>1
    <3> QED BY <1>2, <2>1, <3>1, <3>2
  <2> QED BY <1>2, <2>1
<1>4. Is(f)
  BY <1>3
<1>5. TwoTo = [n \in Nat |-> IF n = 0 THEN 1 ELSE 2 * TwoTo[n - 1]]
  <2>1. TwoTo = CHOOSE g : Is(g)
    BY DEF TwoTo
  <2> HIDE DEF Is
  <2>2. Is(TwoTo)
    BY <1>4, <2>1
  <2> QED BY <2>2 DEF Is
<1>6. \A n \in Nat : TwoTo[n] = IF n = 0 THEN 1 ELSE 2 * TwoTo[n - 1]
  BY <1>5
<1>7. TwoTo[0] = 1 /\ \A n \in Nat : TwoTo[n + 1] = 2 * TwoTo[n]
  BY <1>6
<1>8. \A n \in Nat : TwoTo[n] \in V
  <2> DEFINE S == {n \in Nat : TwoTo[n] \in V}
  <2>1. 0 \in S /\ \A n \in Nat : n \in S => n + 1 \in S
    BY <1>7
  <2> HIDE DEF S
  <2>2. \A n \in Nat : n \in S
    BY <2>1, SetInduction
  <2> QED BY <2>2 DEF S
<1> QED BY <1>5, <1>7, <1>8
=============================================================================
