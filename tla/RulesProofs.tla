---------------------------- MODULE RulesProofs ----------------------------
(***************************************************************************)
(* Proofs about the operators of Rules, for inputs of any size: a score    *)
(* never falls when findings are added, and the banded edit distance is    *)
(* the textbook one up to the maximum.                                     *)
(*                                                                         *)
(* Products and distances are recursive functions, so these are inductions *)
(* over data.  They are taken from the well-foundedness of < on Nat and of *)
(* strict inclusion on a finite set: what is missing from the set of those *)
(* that have a property has a minimal element, which is refuted.           *)
(***************************************************************************)
EXTENDS Rules, FiniteSetTheorems, WellFoundedInduction, TLAPS

-----------------------------------------------------------------------------
(* Induction. *)

(* Induction over the natural numbers. *)
LEMMA Induction ==
  ASSUME NEW S \in SUBSET Nat, 0 \in S, \A n \in S : n + 1 \in S
  PROVE  S = Nat
<1> DEFINE R == {x \in Nat \X Nat : x[1] < x[2]}
           Missing == Nat \ S
<1>1. IsWellFoundedOn(R, Nat)
  BY NatLessThanWellFounded DEF OpToRel
<1>2. SUFFICES ASSUME Missing # {} PROVE FALSE
  OBVIOUS
<1>3. PICK n \in Missing : \A m \in Missing : <<m, n>> \notin R
  <2> HIDE DEF R
  <2> Missing \subseteq Nat
    OBVIOUS
  <2> HIDE DEF Missing
  <2> QED
    BY <1>1, <1>2, WFMin
<1>4. n # 0 /\ n \in Nat
  OBVIOUS
<1>5. <<n - 1, n>> \in R
  BY <1>4
<1>6. n - 1 \notin Missing
  BY <1>3, <1>5
<1>7. QED
  BY <1>4, <1>6

(* Induction over the subsets of a finite set, by removing elements. *)
LEMMA SetInduction ==
  ASSUME NEW S, IsFiniteSet(S), NEW Q \in SUBSET SUBSET S,
         \A T \in SUBSET S : (\A x \in T : T \ {x} \in Q) => T \in Q
  PROVE  Q = SUBSET S
<1> DEFINE R == StrictSubsetOrdering(S)
           Missing == (SUBSET S) \ Q
<1>1. IsWellFoundedOn(R, SUBSET S)
  BY FS_StrictSubsetOrderingWellFounded, FS_FiniteSubsetsOfFinite
<1>2. SUFFICES ASSUME Missing # {} PROVE FALSE
  OBVIOUS
<1>3. PICK T \in Missing : \A U \in Missing : <<U, T>> \notin R
  <2> HIDE DEF R
  <2> Missing \subseteq SUBSET S
    OBVIOUS
  <2> HIDE DEF Missing
  <2> QED
    BY <1>1, <1>2, WFMin
<1>4. PICK x \in T : T \ {x} \notin Q
  OBVIOUS
<1>5. <<T \ {x}, T>> \in R
  BY DEF StrictSubsetOrdering
<1>6. QED
  BY <1>3, <1>4, <1>5

(* A function defined by iteration from a base exists. *)
Iterates(f, n, S, base, step) ==
  /\ f \in [0..n -> S]
  /\ f[0] = base
  /\ \A i \in 1..n : f[i] = step[<<i, f[i - 1]>>]

LEMMA IterationExists ==
  ASSUME NEW n \in Nat, NEW S, NEW base \in S, NEW step \in [(1..n) \X S -> S]
  PROVE  \E f : Iterates(f, n, S, base, step)
<1> DEFINE Done == {k \in Nat : k <= n => \E f : Iterates(f, k, S, base, step)}
<1>1. 0 \in Done
  <2> DEFINE f == [i \in 0..0 |-> base]
  <2>1. Iterates(f, 0, S, base, step)
    BY DEF Iterates
  <2>2. QED
    BY <2>1
<1>2. ASSUME NEW k \in Done PROVE k + 1 \in Done
  <2> SUFFICES ASSUME k + 1 <= n PROVE \E g : Iterates(g, k + 1, S, base, step)
    OBVIOUS
  <2> k \in Nat
    OBVIOUS
  <2>1. PICK f : Iterates(f, k, S, base, step)
    BY <1>2
  <2> DEFINE g == [i \in 0..(k + 1) |-> IF i <= k THEN f[i] ELSE step[<<k + 1, f[k]>>]]
  <2>2. f[k] \in S /\ <<k + 1, f[k]>> \in (1..n) \X S
    BY <2>1 DEF Iterates
  <2>3. step[<<k + 1, f[k]>>] \in S
    BY <2>2
  <2>4. g \in [0..(k + 1) -> S]
    BY <2>1, <2>3 DEF Iterates
  <2>5. g[0] = base
    BY <2>1 DEF Iterates
  <2>6. ASSUME NEW i \in 1..(k + 1) PROVE g[i] = step[<<i, g[i - 1]>>]
    <3>1. CASE i \in 1..k
      <4>1. g[i] = f[i] /\ g[i - 1] = f[i - 1]
        BY <3>1
      <4>2. QED
        BY <2>1, <3>1, <4>1 DEF Iterates
    <3>2. CASE i = k + 1
      <4>1. g[k + 1] = step[<<k + 1, f[k]>>] /\ g[k] = f[k] /\ i - 1 = k
        BY <3>2
      <4> HIDE DEF g
      <4>2. QED
        BY <3>2, <4>1
    <3>3. QED
      BY <3>1, <3>2
  <2>7. Iterates(g, k + 1, S, base, step)
    <3> HIDE DEF g
    <3>1. QED
      BY <2>4, <2>5, <2>6 DEF Iterates
  <2>8. QED
    BY <2>7
<1>3. Done = Nat
  <2>1. \A k \in Done : k + 1 \in Done
    BY <1>2
  <2> Done \subseteq Nat
    OBVIOUS
  <2> HIDE DEF Done
  <2>2. QED
    BY <1>1, <2>1, Induction
<1>4. QED
  BY <1>3

-----------------------------------------------------------------------------
(* Products over finite sets of factors: FoldFunction picks one element after  *)
(* another.  Multiplies says what its recursion computes.                     *)
Picked(s) == CHOOSE x \in s : TRUE

Multiplies(it, w, S) ==
  it = [s \in SUBSET S |-> IF s = {} THEN 1 ELSE w[Picked(s)] * it[s \ {Picked(s)}]]

LEMMA ProductUnfolds ==
  ASSUME NEW S, NEW w, DOMAIN w = S
  PROVE  Product(w) = (CHOOSE it : Multiplies(it, w, S))[S]
  BY DEF Product, FoldFunction, FoldFunctionOnSet, MapThenFoldSet, Multiplies, Picked

Unfolds(it, w, s) ==
  /\ s = {} => it[s] = 1
  /\ s # {} => Picked(s) \in s /\ it[s] = w[Picked(s)] * it[s \ {Picked(s)}]

LEMMA Multiplied ==
  ASSUME NEW S, NEW w, NEW it, Multiplies(it, w, S), NEW s \in SUBSET S
  PROVE  Unfolds(it, w, s)
<1> DEFINE body == [t \in SUBSET S |-> IF t = {} THEN 1 ELSE w[Picked(t)] * it[t \ {Picked(t)}]]
<1>1. it[s] = body[s]
  BY Zenon DEF Multiplies
<1>2. s # {} => Picked(s) \in s
  BY DEF Picked
<1>3. QED
  BY <1>1, <1>2 DEF Unfolds

(* Two products with the same factors agree, whatever they are part of. *)
LEMMA ProductsAgree ==
  ASSUME NEW S, NEW T, NEW w, NEW v, NEW it, NEW jt,
         Multiplies(it, w, S), Multiplies(jt, v, T),
         NEW U, IsFiniteSet(U), U \subseteq S \cap T, \A x \in U : w[x] = v[x]
  PROVE  it[U] = jt[U]
<1> DEFINE Q == {s \in SUBSET U : it[s] = jt[s]}
<1>1. ASSUME NEW s \in SUBSET U, \A x \in s : s \ {x} \in Q PROVE s \in Q
  <2>0. Unfolds(it, w, s) /\ Unfolds(jt, v, s)
    <3> HIDE DEF Q
    <3>1. s \in SUBSET S /\ s \in SUBSET T
      OBVIOUS
    <3>2. QED
      BY <3>1, Multiplied, Zenon
  <2>1. CASE s = {}
    BY <2>0, <2>1 DEF Unfolds
  <2>2. CASE s # {}
    <3>1. /\ Picked(s) \in s
          /\ it[s] = w[Picked(s)] * it[s \ {Picked(s)}]
          /\ jt[s] = v[Picked(s)] * jt[s \ {Picked(s)}]
      BY <2>0, <2>2 DEF Unfolds
    <3>2. it[s \ {Picked(s)}] = jt[s \ {Picked(s)}]
      BY <1>1, <3>1
    <3>3. w[Picked(s)] = v[Picked(s)]
      BY <3>1
    <3>4. QED
      BY <3>1, <3>2, <3>3
  <2>3. QED
    BY <2>1, <2>2
<1>2. Q = SUBSET U
  <2> Q \in SUBSET SUBSET U
    OBVIOUS
  <2>1. \A s \in SUBSET U : (\A x \in s : s \ {x} \in Q) => s \in Q
    BY <1>1
  <2> HIDE DEF Q
  <2>2. QED
    BY <2>1, SetInduction
<1>3. QED
  BY <1>2

(* The recursion is well-founded: the function CHOOSE takes exists. *)
LEMMA ProductsExist ==
  ASSUME NEW S, IsFiniteSet(S), NEW w
  PROVE  \E it : Multiplies(it, w, S)
<1> DEFINE Q == {s \in SUBSET S : \E it : Multiplies(it, w, s)}
<1>1. ASSUME NEW T \in SUBSET S, \A x \in T : T \ {x} \in Q PROVE T \in Q
  <2> DEFINE G(x) == CHOOSE it : Multiplies(it, w, T \ {x})
             Outside(s) == CHOOSE x \in T : x \notin s
             f == [s \in SUBSET T |-> IF s = {} THEN 1
                                      ELSE IF s = T
                                      THEN w[Picked(T)] * G(Picked(T))[T \ {Picked(T)}]
                                      ELSE G(Outside(s))[s]]
  <2>1. \A x \in T : Multiplies(G(x), w, T \ {x})
    BY <1>1
  <2>2. \A s \in SUBSET T : s # T => Outside(s) \in T /\ Outside(s) \notin s
    OBVIOUS
  <2> HIDE DEF G, Outside
  <2>3. ASSUME NEW x \in T, NEW y \in T, NEW s \in SUBSET (T \ {x, y})
        PROVE  G(x)[s] = G(y)[s]
    <3>1. IsFiniteSet(s) /\ s \subseteq (T \ {x}) \cap (T \ {y})
      BY FS_Subset
    <3>2. Multiplies(G(x), w, T \ {x}) /\ Multiplies(G(y), w, T \ {y})
      BY <2>1
    <3> DEFINE V == T \ {x}
               U == T \ {y}
    <3> HIDE DEF f, V, U
    <3>3. IsFiniteSet(s) /\ s \subseteq V \cap U
      BY <3>1 DEF U, V
    <3>4. Multiplies(G(x), w, V) /\ Multiplies(G(y), w, U)
      BY <3>2 DEF U, V
    <3>5. QED
      BY <3>3, <3>4, ProductsAgree
  <2>4. ASSUME NEW x \in T, NEW s \in SUBSET (T \ {x})
        PROVE  G(x)[s] = f[s]
    <3>1. CASE s = {}
      BY <2>1, <3>1, Multiplied DEF Unfolds
    <3>2. CASE s # {}
      <4>1. f[s] = G(Outside(s))[s]
        BY <3>2
      <4>2. Outside(s) \in T /\ s \in SUBSET (T \ {x, Outside(s)})
        BY <2>2
      <4>3. QED
        BY <4>1, <4>2, <2>3
    <3>3. QED
      BY <3>1, <3>2
  <2>5. ASSUME NEW s \in SUBSET T, s # {}
        PROVE  f[s] = w[Picked(s)] * f[s \ {Picked(s)}]
    <3>1. Picked(s) \in s
      BY <2>5 DEF Picked
    <3>2. CASE s = T
      <4>1. f[s] = w[Picked(T)] * G(Picked(T))[T \ {Picked(T)}]
        BY <2>5, <3>2
      <4>2. G(Picked(T))[T \ {Picked(T)}] = f[T \ {Picked(T)}]
        BY <2>4, <3>1, <3>2
      <4> HIDE DEF f
      <4>3. QED
        BY <4>1, <4>2, <3>2
    <3>3. CASE s # T
      <4>0. PICK x \in T : x \notin s
        BY <3>3
      <4>1. Multiplies(G(x), w, T \ {x}) /\ s \in SUBSET (T \ {x})
        BY <4>0, <2>1
      <4>2. G(x)[s] = w[Picked(s)] * G(x)[s \ {Picked(s)}]
        BY <4>1, <2>5, Multiplied DEF Unfolds
      <4>3. G(x)[s] = f[s] /\ G(x)[s \ {Picked(s)}] = f[s \ {Picked(s)}]
        BY <4>1, <2>4
      <4> HIDE DEF f
      <4>4. QED
        BY <4>2, <4>3
    <3>4. QED
      BY <3>2, <3>3
  <2>6. f[{}] = 1
    OBVIOUS
  <2>7. f = [s \in SUBSET T |-> f[s]]
    OBVIOUS
  <2> HIDE DEF f
  <2>8. Multiplies(f, w, T)
    BY <2>5, <2>6, <2>7, Zenon DEF Multiplies
  <2>9. QED
    BY <2>8
<1>2. Q = SUBSET S
  <2> Q \in SUBSET SUBSET S
    OBVIOUS
  <2>1. \A s \in SUBSET S : (\A x \in s : s \ {x} \in Q) => s \in Q
    BY <1>1
  <2> HIDE DEF Q
  <2>2. QED
    BY <2>1, SetInduction
<1>3. QED
  BY <1>2

(* What a factor of a product takes out of it. *)
Factors(it, w, s) == it[s] \in Int /\ \A x \in s : it[s] = w[x] * it[s \ {x}]

LEMMA MultipliedInAnyOrder ==
  ASSUME NEW S, IsFiniteSet(S), NEW w, w \in [S -> Int], NEW it, Multiplies(it, w, S)
  PROVE  \A s \in SUBSET S : Factors(it, w, s)
<1> DEFINE Q == {s \in SUBSET S : Factors(it, w, s) /\ \A x \in s : it[s \ {x}] \in Int}
<1>1. ASSUME NEW s \in SUBSET S, \A x \in s : s \ {x} \in Q PROVE s \in Q
  <2>0. Unfolds(it, w, s)
    <3> HIDE DEF Q
    <3>1. QED
      BY Multiplied, Zenon
  <2>1. CASE s = {}
    <3>1. it[s] = 1
      BY <2>0, <2>1 DEF Unfolds
    <3>2. QED
      BY <3>1, <2>1 DEF Factors
  <2>2. CASE s # {}
    <3> DEFINE p == Picked(s)
    <3>1. p \in s /\ it[s] = w[p] * it[s \ {p}]
      BY <2>0, <2>2 DEF Unfolds
    <3> HIDE DEF p
    <3> USE DEF Factors
    <3>2. /\ it[s \ {p}] \in Int
          /\ \A x \in s \ {p} : it[s \ {p}] = w[x] * it[(s \ {p}) \ {x}]
          /\ \A x \in s \ {p} : it[(s \ {p}) \ {x}] \in Int
      BY <1>1, <3>1
    <3>3. ASSUME NEW x \in s, x # p PROVE it[s] = w[x] * it[s \ {x}]
      <4>1. it[s \ {p}] = w[x] * it[(s \ {p}) \ {x}]
        BY <3>2, <3>3
      <4>2. it[s \ {x}] = w[p] * it[(s \ {x}) \ {p}] /\ it[s \ {x}] \in Int
        BY <1>1, <3>1, <3>3
      <4>3. (s \ {p}) \ {x} = (s \ {x}) \ {p} /\ (s \ {p}) \ {x} \in SUBSET S
        OBVIOUS
      <4>4. it[(s \ {p}) \ {x}] \in Int
        BY <3>2, <3>3
      <4> DEFINE c == it[(s \ {p}) \ {x}]
      <4>5. it[s] = w[p] * (w[x] * c) /\ w[x] * it[s \ {x}] = w[x] * (w[p] * c)
        BY <3>1, <4>1, <4>2, <4>3
      <4>6. w[p] \in Int /\ w[x] \in Int /\ c \in Int
        BY <3>1, <4>4
      <4> HIDE DEF c
      <4>7. QED
        BY <4>5, <4>6
    <3>4. it[s] \in Int
      BY <3>1, <3>2
    <3>5. \A x \in s : it[s \ {x}] \in Int
      BY <1>1
    <3>6. QED
      BY <3>1, <3>3, <3>4, <3>5
  <2>3. QED
    BY <2>1, <2>2
<1>2. Q = SUBSET S
  <2> Q \in SUBSET SUBSET S
    OBVIOUS
  <2>1. \A s \in SUBSET S : (\A x \in s : s \ {x} \in Q) => s \in Q
    BY <1>1
  <2> HIDE DEF Q
  <2>2. QED
    BY <2>1, SetInduction
<1>3. QED
  BY <1>2

LEMMA ProductIs ==
  ASSUME NEW S, IsFiniteSet(S), NEW w, DOMAIN w = S
  PROVE  \E it : Multiplies(it, w, S) /\ Product(w) = it[S]
<1>1. \E it : Multiplies(it, w, S)
  BY ProductsExist
<1>2. Multiplies(CHOOSE it : Multiplies(it, w, S), w, S)
  BY <1>1, Zenon
<1>3. QED
  BY <1>2, ProductUnfolds, Zenon

(* Any factor can be taken out of a product first. *)
LEMMA ProductStep ==
  ASSUME NEW S, IsFiniteSet(S), NEW w, w \in [S -> Int]
  PROVE  /\ Product(w) \in Int
         /\ S = {} => Product(w) = 1
         /\ \A x \in S : Product(w) = w[x] * Product([y \in S \ {x} |-> w[y]])
<1>1. PICK it : Multiplies(it, w, S) /\ Product(w) = it[S]
  BY ProductIs
<1>2. Factors(it, w, S)
  BY <1>1, MultipliedInAnyOrder, S \in SUBSET S, Zenon
<1>3. S = {} => it[S] = 1
  <2>1. Unfolds(it, w, S)
    BY <1>1, Multiplied, S \in SUBSET S, Zenon
  <2>2. QED
    BY <2>1 DEF Unfolds
<1>4. ASSUME NEW x \in S
      PROVE  it[S \ {x}] = Product([y \in S \ {x} |-> w[y]])
  <2> DEFINE T == S \ {x}
             v == [y \in T |-> w[y]]
  <2>1. IsFiniteSet(T) /\ DOMAIN v = T /\ \A y \in T : w[y] = v[y]
    BY FS_Subset
  <2> T \subseteq S \cap T
    OBVIOUS
  <2> HIDE DEF v, T
  <2>2. PICK jt : Multiplies(jt, v, T) /\ Product(v) = jt[T]
    BY <2>1, ProductIs
  <2>3. it[T] = jt[T]
    BY <1>1, <2>1, <2>2, ProductsAgree
  <2>4. QED
    BY <2>2, <2>3 DEF v, T
<1>5. QED
  BY <1>1, <1>2, <1>3, <1>4 DEF Factors

-----------------------------------------------------------------------------
(* Scores.  Left is the part of All that no finding takes. *)
Left(fs) == Product([x \in fs |-> 20 - x.weight])
All(fs) == Product([x \in fs |-> 20])

LEMMA ScoreIs ==
  ASSUME NEW fs
  PROVE  Score(fs) = (10000 * (All(fs) - Left(fs)) + All(fs) \div 2) \div All(fs)
  BY Zenon DEF Score, Left, All

Weighted(fs) == IsFiniteSet(fs) /\ \A x \in fs : x.weight \in 0..20

(* What a new finding does to both products. *)
LEMMA LeftStep ==
  ASSUME NEW fs, Weighted(fs), NEW x, x.weight \in 0..20, x \notin fs
  PROVE  /\ Weighted(fs \cup {x})
         /\ All(fs \cup {x}) = 20 * All(fs)
         /\ Left(fs \cup {x}) = (20 - x.weight) * Left(fs)
<1>1. IsFiniteSet(fs \cup {x}) /\ fs = (fs \cup {x}) \ {x}
  BY FS_AddElement DEF Weighted
<1>2. All(fs \cup {x}) = 20 * All(fs)
  <2> DEFINE w == [y \in fs \cup {x} |-> 20]
  <2>1. w \in [fs \cup {x} -> Int]
    OBVIOUS
  <2>2. w[x] = 20 /\ [y \in (fs \cup {x}) \ {x} |-> w[y]] = [y \in fs |-> 20]
    BY <1>1
  <2>3. All(fs \cup {x}) = Product(w) /\ All(fs) = Product([y \in fs |-> 20])
    BY DEF All
  <2> HIDE DEF w
  <2>4. Product(w) = w[x] * Product([y \in (fs \cup {x}) \ {x} |-> w[y]])
    BY <1>1, <2>1, ProductStep, x \in fs \cup {x}
  <2>5. QED
    BY <2>2, <2>3, <2>4
<1>3. Left(fs \cup {x}) = (20 - x.weight) * Left(fs)
  <2> DEFINE w == [y \in fs \cup {x} |-> 20 - y.weight]
  <2>1. w \in [fs \cup {x} -> Int]
    BY DEF Weighted
  <2>2. w[x] = 20 - x.weight /\ [y \in (fs \cup {x}) \ {x} |-> w[y]] = [y \in fs |-> 20 - y.weight]
    BY <1>1
  <2>3. Left(fs \cup {x}) = Product(w) /\ Left(fs) = Product([y \in fs |-> 20 - y.weight])
    BY DEF Left
  <2> HIDE DEF w
  <2>4. Product(w) = w[x] * Product([y \in (fs \cup {x}) \ {x} |-> w[y]])
    BY <1>1, <2>1, ProductStep, x \in fs \cup {x}
  <2>5. QED
    BY <2>2, <2>3, <2>4
<1>4. QED
  BY <1>1, <1>2, <1>3 DEF Weighted

LEMMA LeftRange ==
  ASSUME NEW fs, Weighted(fs)
  PROVE  All(fs) \in Nat \ {0} /\ Left(fs) \in 0..All(fs)
<1> DEFINE Q == {s \in SUBSET fs : All(s) \in Nat \ {0} /\ Left(s) \in 0..All(s)}
<1>1. ASSUME NEW s \in SUBSET fs, \A x \in s : s \ {x} \in Q PROVE s \in Q
  <2>1. CASE s = {}
    <3>1. IsFiniteSet({})
      BY FS_EmptySet
    <3>2. \A w : w \in [{} -> Int] => Product(w) = 1
      BY <3>1, ProductStep
    <3>3. Left({}) = 1
      BY <3>2 DEF Left
    <3>4. All({}) = 1
      BY <3>2 DEF All
    <3>5. QED
      BY <2>1, <3>3, <3>4
  <2>2. CASE s # {}
    <3>1. PICK x \in s : TRUE
      BY <2>2
    <3> DEFINE r == s \ {x}
    <3>2. All(r) \in Nat \ {0} /\ Left(r) \in 0..All(r)
      BY <1>1, <3>1
    <3>3. Weighted(r) /\ x.weight \in 0..20 /\ x \notin r /\ s = r \cup {x}
      BY FS_Subset DEF Weighted
    <3> HIDE DEF r, Q
    <3>4. All(s) = 20 * All(r) /\ Left(s) = (20 - x.weight) * Left(r)
      BY <3>3, LeftStep
    <3>5. ASSUME NEW a \in Nat \ {0}, NEW l \in 0..a, NEW w \in 0..20
          PROVE  20 * a \in Nat \ {0} /\ (20 - w) * l \in 0..(20 * a)
      <4>1. (20 - w) * l >= 0 /\ (20 - w) * l <= 20 * l
        OBVIOUS
      <4>2. QED
        BY <4>1
    <3>6. All(s) \in Nat \ {0} /\ Left(s) \in 0..All(s)
      BY <3>2, <3>3, <3>4, <3>5
    <3>7. QED
      BY <3>6 DEF Q
  <2>3. QED
    BY <2>1, <2>2
<1>2. Q = SUBSET fs
  <2> Q \in SUBSET SUBSET fs
    OBVIOUS
  <2>1. \A s \in SUBSET fs : (\A x \in s : s \ {x} \in Q) => s \in Q
    BY <1>1
  <2> HIDE DEF Q
  <2>2. QED
    BY <2>1, SetInduction DEF Weighted
<1>3. QED
  BY <1>2

(* Rounding keeps the order. *)
LEMMA RoundedGrows ==
  ASSUME NEW a \in Nat \ {0}, NEW l \in 0..a, NEW w \in 0..20
  PROVE  (10000 * (a - l) + a \div 2) \div a
           <= (10000 * (20 * a - (20 - w) * l) + (20 * a) \div 2) \div (20 * a)
<1> DEFINE X == 10000 * (a - l) + a \div 2
           b == 20 * a
           m == (20 - w) * l
           Y == 10000 * (b - m) + b \div 2
           q == X \div a
<1>1. m \in Int /\ m <= 20 * l
  OBVIOUS
<1>2. a \div 2 \in Int /\ 20 * (a \div 2) <= 10 * a /\ b \div 2 = 10 * a
  OBVIOUS
<1>3. X \in Nat /\ Y \in Int /\ b \in Nat \ {0}
  BY <1>1, <1>2
<1>4. 20 * X <= Y
  <2> HIDE DEF m
  <2>1. QED
    BY <1>1, <1>2
<1> HIDE DEF X, Y
<1>5. q \in Nat /\ a * q <= X
  BY <1>3
<1> HIDE DEF q
<1>6. b * q <= Y
  BY <1>4, <1>5, <1>3
<1> HIDE DEF b
<1>7. q <= Y \div b
  BY <1>3, <1>5, <1>6
<1>8. QED
  BY <1>7 DEF q, X, Y, b, m

LEMMA ScoreStep ==
  ASSUME NEW fs, Weighted(fs), NEW x, x.weight \in 0..20
  PROVE  Score(fs) <= Score(fs \cup {x}) /\ Score(fs) \in Int
  <1>1. All(fs) \in Nat \ {0} /\ Left(fs) \in 0..All(fs)
    BY LeftRange
  <1>2. Score(fs) \in Int
    BY <1>1, ScoreIs
  <1>3. CASE x \in fs
    <2>1. fs \cup {x} = fs
      BY <1>3
    <2>2. QED
      BY <1>2, <2>1
  <1>4. CASE x \notin fs
    <2>1. /\ All(fs \cup {x}) = 20 * All(fs)
          /\ Left(fs \cup {x}) = (20 - x.weight) * Left(fs)
      BY <1>4, LeftStep
    <2>2. Score(fs \cup {x}) = (10000 * (20 * All(fs) - (20 - x.weight) * Left(fs))
                                   + (20 * All(fs)) \div 2) \div (20 * All(fs))
      BY <2>1, ScoreIs
    <2>3. Score(fs) = (10000 * (All(fs) - Left(fs)) + All(fs) \div 2) \div All(fs)
      BY ScoreIs
    <2> DEFINE a == All(fs)
               l == Left(fs)
               w == x.weight
    <2> HIDE DEF a, l, w
    <2>4. a \in Nat \ {0} /\ l \in 0..a /\ w \in 0..20
      BY <1>1 DEF a, l, w
    <2>5. (10000 * (a - l) + a \div 2) \div a
            <= (10000 * (20 * a - (20 - w) * l) + (20 * a) \div 2) \div (20 * a)
      BY <2>4, RoundedGrows
    <2>6. QED
      BY <1>2, <2>2, <2>3, <2>5 DEF a, l, w
  <1>5. QED
    BY <1>3, <1>4

(* Adding findings to finitely many never lowers a score: the combination     *)
(* 1 - prod(1 - w) only grows, and rounding to ten-thousandths keeps that.    *)
THEOREM ScoreMonotone ==
  ASSUME NEW T, Weighted(T), NEW S \in SUBSET T
  PROVE  Score(S) <= Score(T)
<1> DEFINE D == T \ S
           Q == {U \in SUBSET D : Score(S) <= Score(S \cup U)}
<1>0. IsFiniteSet(D) /\ Weighted(S)
  BY FS_Subset DEF Weighted
<1>1. ASSUME NEW U \in SUBSET D, \A x \in U : U \ {x} \in Q PROVE U \in Q
  <2>1. CASE U = {}
    <3>1. S \cup U = S
      BY <2>1
    <3>2. Score(S) \in Int
      BY <1>0, LeftRange, ScoreIs
    <3>3. QED
      BY <3>1, <3>2
  <2>2. CASE U # {}
    <3>1. PICK x \in U : TRUE
      BY <2>2
    <3> DEFINE V == S \cup (U \ {x})
    <3>2. Score(S) <= Score(V)
      BY <1>1
    <3>3. Weighted(V) /\ x.weight \in 0..20 /\ S \cup U = V \cup {x}
      BY FS_Subset DEF Weighted
    <3>4. Weighted(V \cup {x})
      BY FS_Subset DEF Weighted
    <3> HIDE DEF V, Q
    <3>5. Score(V) <= Score(V \cup {x}) /\ Score(V) \in Int
      BY <3>3, ScoreStep
    <3>6. Score(V \cup {x}) \in Int /\ Score(S) \in Int
      BY <1>0, <3>4, LeftRange, ScoreIs
    <3>7. Score(S) <= Score(S \cup U)
      BY <3>2, <3>3, <3>5, <3>6
    <3>8. QED
      BY <3>7 DEF Q
  <2>3. QED
    BY <2>1, <2>2
<1>2. Q = SUBSET D
  <2> Q \in SUBSET SUBSET D
    OBVIOUS
  <2>1. \A s \in SUBSET D : (\A x \in s : s \ {x} \in Q) => s \in Q
    BY <1>1
  <2> HIDE DEF Q, D
  <2>2. QED
    BY <1>0, <2>1, SetInduction
<1>3. S \cup D = T /\ D \in SUBSET D
  OBVIOUS
<1>4. QED
  BY <1>2, <1>3

-----------------------------------------------------------------------------
(* Edit distance: tools. *)

(* Induction over the cells of a grid, along its rows and columns. *)
LEMMA GridInduction ==
  ASSUME NEW n \in Nat, NEW q \in Nat, NEW G \in SUBSET ((0..n) \X (0..q)),
         \A i \in 0..n, j \in 0..q :
           (/\ i > 0 /\ j > 0 => <<i - 1, j>> \in G /\ <<i, j - 1>> \in G
                               /\ <<i - 1, j - 1>> \in G) => <<i, j>> \in G
  PROVE  \A i \in 0..n, j \in 0..q : <<i, j>> \in G
<1> DEFINE S == {k \in Nat : \A i \in 0..n, j \in 0..q : i + j <= k => <<i, j>> \in G}
<1>1. 0 \in S
  <2>1. ASSUME NEW i \in 0..n, NEW j \in 0..q, i + j <= 0 PROVE <<i, j>> \in G
    <3>1. ~(i > 0 /\ j > 0)
      BY <2>1
    <3>2. QED
      BY <3>1
  <2>2. QED
    BY <2>1
<1>2. ASSUME NEW k \in S PROVE k + 1 \in S
  <2>1. k \in Nat /\ \A i \in 0..n, j \in 0..q : i + j <= k => <<i, j>> \in G
    OBVIOUS
  <2> HIDE DEF S
  <2>2. ASSUME NEW i \in 0..n, NEW j \in 0..q, i + j <= k + 1 PROVE <<i, j>> \in G
    <3>1. i > 0 /\ j > 0 => i - 1 \in 0..n /\ j - 1 \in 0..q
      OBVIOUS
    <3>2. i > 0 /\ j > 0 => <<i - 1, j>> \in G /\ <<i, j - 1>> \in G /\ <<i - 1, j - 1>> \in G
      BY <2>1, <2>2, <3>1
    <3>3. QED
      BY <3>2
  <2>3. QED
    BY <2>1, <2>2 DEF S
<1>3. S = Nat
  <2>1. \A k \in S : k + 1 \in S
    BY <1>2
  <2> S \subseteq Nat
    OBVIOUS
  <2> HIDE DEF S
  <2>2. QED
    BY <1>1, <2>1, Induction
<1>4. QED
  <2>1. ASSUME NEW i \in 0..n, NEW j \in 0..q PROVE <<i, j>> \in G
    <3>1. i + j \in Nat
      OBVIOUS
    <3>2. \A k \in Nat : \A a \in 0..n, b \in 0..q : a + b <= k => <<a, b>> \in G
      BY <1>3
    <3> HIDE DEF S
    <3>3. \A a \in 0..n, b \in 0..q : a + b <= i + j => <<a, b>> \in G
      BY <3>1, <3>2, Zenon
    <3>4. QED
      BY <3>3
  <2>2. QED
    BY <2>1

LEMMA Iterated ==
  ASSUME NEW n \in Nat, NEW S, NEW base, NEW step, NEW f, Iterates(f, n, S, base, step),
         NEW i \in 1..n
  PROVE  f[i] = step[<<i, f[i - 1]>>] /\ f[i - 1] \in S
  BY DEF Iterates

LEMMA LeastOfThree ==
  ASSUME NEW a \in Int, NEW b \in Int, NEW c \in Int
  PROVE  /\ Least({a, b, c}) \in {a, b, c}
         /\ Least({a, b, c}) <= a /\ Least({a, b, c}) <= b /\ Least({a, b, c}) <= c
<1> DEFINE S == {a, b, c}
<1>1. \E x \in S : \A y \in S : x <= y
  OBVIOUS
<1>2. QED
  BY <1>1 DEF Least, Min

LEMMA LeastOfTwo ==
  ASSUME NEW a \in Int, NEW b \in Int
  PROVE  Least({a, b}) = IF a <= b THEN a ELSE b
<1> DEFINE S == {a, b}
<1>1. \E x \in S : \A y \in S : x <= y
  OBVIOUS
<1>2. Least(S) \in S /\ \A y \in S : Least(S) <= y
  BY <1>1 DEF Least, Min
<1>3. QED
  BY <1>2

-----------------------------------------------------------------------------
(* The textbook distances: Distances is the equation of their recursion,     *)
(* DistanceLine that of one line given the previous one.                     *)
Differ(l, r, i, j) == IF l[i] = r[j] THEN 0 ELSE 1

Distances(D, l, r) ==
  D = [x \in (0..Len(l)) \X (0..Len(r)) |->
         IF x[1] = 0 THEN x[2] ELSE IF x[2] = 0 THEN x[1]
         ELSE Least({D[<<x[1] - 1, x[2]>>] + 1, D[<<x[1], x[2] - 1>>] + 1,
                     D[<<x[1] - 1, x[2] - 1>>] + (IF l[x[1]] = r[x[2]] THEN 0 ELSE 1)})]

LEMMA LevenshteinIs ==
  ASSUME NEW l, NEW r
  PROVE  Levenshtein(l, r) = (CHOOSE D : Distances(D, l, r))[<<Len(l), Len(r)>>]
  BY Zenon DEF Levenshtein, Distances

DistanceLine(l, r, p, f, i) ==
  /\ f \in [0..Len(r) -> Nat]
  /\ f[0] = i
  /\ \A j \in 1..Len(r) :
       f[j] = Least({p[j] + 1, f[j - 1] + 1, p[j - 1] + Differ(l, r, i, j)})

LEMMA LinesExist ==
  ASSUME NEW l, NEW r, Len(r) \in Nat, NEW p \in [0..Len(r) -> Nat], NEW i \in Nat
  PROVE  \E f : DistanceLine(l, r, p, f, i)
<1> DEFINE q == Len(r)
           step == [x \in (1..q) \X Nat |->
                      Least({p[x[1]] + 1, x[2] + 1, p[x[1] - 1] + Differ(l, r, i, x[1])})]
<1>1. ASSUME NEW x \in (1..q) \X Nat PROVE step[x] \in Nat
  <2>1. /\ p[x[1]] + 1 \in Nat /\ x[2] + 1 \in Nat
        /\ p[x[1] - 1] + Differ(l, r, i, x[1]) \in Nat
    BY DEF Differ
  <2>2. step[x] = Least({p[x[1]] + 1, x[2] + 1, p[x[1] - 1] + Differ(l, r, i, x[1])})
    OBVIOUS
  <2> DEFINE a == p[x[1]] + 1
             b == x[2] + 1
             c == p[x[1] - 1] + Differ(l, r, i, x[1])
  <2> HIDE DEF a, b, c, step
  <2>3. a \in Nat /\ b \in Nat /\ c \in Nat /\ step[x] = Least({a, b, c})
    BY <2>1, <2>2 DEF a, b, c
  <2>4. QED
    BY <2>3, LeastOfThree
<1>2. step \in [(1..q) \X Nat -> Nat]
  BY <1>1
<1>3. PICK f : Iterates(f, q, Nat, i, step)
  <2> HIDE DEF step
  <2>1. QED
    BY <1>2, IterationExists
<1>4. \A j \in 1..q : f[j] = Least({p[j] + 1, f[j - 1] + 1, p[j - 1] + Differ(l, r, i, j)})
  <2>1. ASSUME NEW j \in 1..q
        PROVE  f[j] = Least({p[j] + 1, f[j - 1] + 1, p[j - 1] + Differ(l, r, i, j)})
    <3>1. f[j] = step[<<j, f[j - 1]>>] /\ f[j - 1] \in Nat
      <4> HIDE DEF step
      <4>1. QED
        BY <1>3, Iterated
    <3>2. <<j, f[j - 1]>> \in (1..q) \X Nat
      BY <3>1
    <3>3. QED
      BY <3>1, <3>2
  <2>2. QED
    BY <2>1
<1>5. QED
  BY <1>3, <1>4 DEF Iterates, DistanceLine

(* Line after line, the distances of all prefixes exist. *)
LEMMA DistancesExist ==
  ASSUME NEW l, NEW r, Len(l) \in Nat, Len(r) \in Nat
  PROVE  \E D : Distances(D, l, r)
<1> DEFINE n == Len(l)
           q == Len(r)
           Lines == [0..q -> Nat]
           line(i, p) == CHOOSE f : DistanceLine(l, r, p, f, i)
           top == [j \in 0..q |-> j]
           step == [x \in (1..n) \X Lines |-> line(x[1], x[2])]
<1>1. ASSUME NEW i \in Nat, NEW p \in Lines PROVE DistanceLine(l, r, p, line(i, p), i)
  <2>1. \E f : DistanceLine(l, r, p, f, i)
    BY LinesExist
  <2>2. QED
    BY <2>1, Zenon
<1> HIDE DEF line
<1>2. step \in [(1..n) \X Lines -> Lines]
  BY <1>1 DEF DistanceLine
<1>3. PICK F : Iterates(F, n, Lines, top, step)
  <2>1. top \in Lines
    OBVIOUS
  <2> HIDE DEF step, top, Lines
  <2>2. QED
    BY <1>2, <2>1, IterationExists
<1>4. ASSUME NEW i \in 1..n PROVE DistanceLine(l, r, F[i - 1], F[i], i)
  <2>1. F[i] = step[<<i, F[i - 1]>>] /\ F[i - 1] \in Lines
    <3> HIDE DEF step, Lines
    <3>1. QED
      BY <1>3, Iterated
  <2>2. step[<<i, F[i - 1]>>] = line(i, F[i - 1])
    BY <2>1
  <2>3. QED
    BY <1>1, <2>1, <2>2
<1> DEFINE D == [x \in (0..n) \X (0..q) |-> F[x[1]][x[2]]]
<1>5. ASSUME NEW x \in (0..n) \X (0..q)
      PROVE  D[x] = IF x[1] = 0 THEN x[2] ELSE IF x[2] = 0 THEN x[1]
                    ELSE Least({D[<<x[1] - 1, x[2]>>] + 1, D[<<x[1], x[2] - 1>>] + 1,
                                D[<<x[1] - 1, x[2] - 1>>] + (IF l[x[1]] = r[x[2]] THEN 0 ELSE 1)})
  <2> DEFINE i == x[1]
             j == x[2]
  <2>0. i \in 0..n /\ j \in 0..q /\ D[x] = F[i][j]
    OBVIOUS
  <2>1. CASE i = 0
    <3>1. F[0] = top
      BY <1>3 DEF Iterates
    <3>2. QED
      BY <2>0, <2>1, <3>1
  <2>2. CASE i # 0 /\ j = 0
    <3>1. F[i][0] = i
      BY <1>4, <2>0, <2>2 DEF DistanceLine
    <3>2. QED
      BY <2>0, <2>2, <3>1
  <2>3. CASE i # 0 /\ j # 0
    <3>0. i \in 1..n /\ j \in 1..q
      BY <2>0, <2>3
    <3>1. F[i][j] = Least({F[i - 1][j] + 1, F[i][j - 1] + 1, F[i - 1][j - 1] + Differ(l, r, i, j)})
      <4> HIDE DEF D, i, j
      <4>1. DistanceLine(l, r, F[i - 1], F[i], i)
        BY <3>0, <1>4
      <4>2. QED
        BY <3>0, <4>1 DEF DistanceLine
    <3>2. /\ D[<<i - 1, j>>] = F[i - 1][j] /\ D[<<i, j - 1>>] = F[i][j - 1]
          /\ D[<<i - 1, j - 1>>] = F[i - 1][j - 1]
      BY <2>0, <2>3
    <3> HIDE DEF D
    <3>3. QED
      BY <2>0, <2>3, <3>1, <3>2 DEF Differ
  <2>4. QED
    BY <2>1, <2>2, <2>3
<1>6. D = [x \in (0..n) \X (0..q) |-> D[x]]
  OBVIOUS
<1> HIDE DEF D
<1>7. Distances(D, l, r)
  BY <1>5, <1>6, Zenon DEF Distances
<1>8. QED
  BY <1>7

(* The equation at one cell. *)
CellRule(D, l, r, i, j) ==
  /\ i = 0 => D[<<i, j>>] = j
  /\ i # 0 /\ j = 0 => D[<<i, j>>] = i
  /\ i # 0 /\ j # 0 =>
       D[<<i, j>>] = Least({D[<<i - 1, j>>] + 1, D[<<i, j - 1>>] + 1,
                            D[<<i - 1, j - 1>>] + Differ(l, r, i, j)})

LEMMA DistanceAt ==
  ASSUME NEW l, NEW r, NEW D, Distances(D, l, r),
         NEW i \in 0..Len(l), NEW j \in 0..Len(r)
  PROVE  CellRule(D, l, r, i, j)
<1> DEFINE body == [x \in (0..Len(l)) \X (0..Len(r)) |->
         IF x[1] = 0 THEN x[2] ELSE IF x[2] = 0 THEN x[1]
         ELSE Least({D[<<x[1] - 1, x[2]>>] + 1, D[<<x[1], x[2] - 1>>] + 1,
                     D[<<x[1] - 1, x[2] - 1>>] + (IF l[x[1]] = r[x[2]] THEN 0 ELSE 1)})]
<1>1. D = body
  BY Zenon DEF Distances
<1>2. body[<<i, j>>] = IF i = 0 THEN j ELSE IF j = 0 THEN i
         ELSE Least({D[<<i - 1, j>>] + 1, D[<<i, j - 1>>] + 1,
                     D[<<i - 1, j - 1>>] + Differ(l, r, i, j)})
  BY DEF Differ
<1>3. D[<<i, j>>] = body[<<i, j>>]
  BY <1>1, Zenon
<1> HIDE DEF body
<1>4. QED
  BY <1>2, <1>3 DEF CellRule

(* A distance is a number, and no less than the difference of the lengths. *)
LEMMA DistanceBounds ==
  ASSUME NEW l, NEW r, Len(l) \in Nat, Len(r) \in Nat, NEW D, Distances(D, l, r)
  PROVE  \A i \in 0..Len(l), j \in 0..Len(r) :
           D[<<i, j>>] \in Nat /\ D[<<i, j>>] >= i - j /\ D[<<i, j>>] >= j - i
<1> DEFINE n == Len(l)
           q == Len(r)
           G == {x \in (0..n) \X (0..q) :
                   D[x] \in Nat /\ D[x] >= x[1] - x[2] /\ D[x] >= x[2] - x[1]}
<1>1. ASSUME NEW i \in 0..n, NEW j \in 0..q,
             i > 0 /\ j > 0 => <<i - 1, j>> \in G /\ <<i, j - 1>> \in G
                              /\ <<i - 1, j - 1>> \in G
      PROVE  <<i, j>> \in G
  <2>0. CellRule(D, l, r, i, j)
    <3> HIDE DEF G
    <3>1. QED
      BY DistanceAt, Zenon
  <2>1. CASE i = 0 \/ j = 0
    <3>1. D[<<i, j>>] = i + j
      BY <2>0, <2>1 DEF CellRule
    <3>2. QED
      BY <2>1, <3>1
  <2>2. CASE i # 0 /\ j # 0
    <3> DEFINE a == D[<<i - 1, j>>]
               b == D[<<i, j - 1>>]
               c == D[<<i - 1, j - 1>>]
    <3>1. /\ a \in Nat /\ a >= (i - 1) - j /\ a >= j - (i - 1)
          /\ b \in Nat /\ b >= i - (j - 1) /\ b >= (j - 1) - i
          /\ c \in Nat /\ c >= (i - 1) - (j - 1) /\ c >= (j - 1) - (i - 1)
      BY <1>1, <2>2
    <3>2. D[<<i, j>>] = Least({a + 1, b + 1, c + Differ(l, r, i, j)})
      BY <2>0, <2>2 DEF CellRule
    <3>3. Differ(l, r, i, j) \in {0, 1}
      BY DEF Differ
    <3> DEFINE d == Differ(l, r, i, j)
               e == D[<<i, j>>]
    <3> HIDE DEF a, b, c, d
    <3>4. Least({a + 1, b + 1, c + d}) \in {a + 1, b + 1, c + d}
      <4>1. a + 1 \in Int /\ b + 1 \in Int /\ c + d \in Int
        BY <3>1, <3>3 DEF d
      <4>2. QED
        BY <4>1, LeastOfThree, Zenon
    <3>5. e \in {a + 1, b + 1, c + d} /\ d \in {0, 1}
      BY <3>2, <3>3, <3>4 DEF d
    <3> HIDE DEF e, G
    <3>6. e \in Nat /\ e >= i - j /\ e >= j - i
      BY <3>1, <3>5
    <3>7. QED
      BY <3>6 DEF e, G
  <2>3. QED
    BY <2>1, <2>2
<1>2. \A i \in 0..n, j \in 0..q : <<i, j>> \in G
  <2>1. \A i \in 0..n, j \in 0..q :
          (/\ i > 0 /\ j > 0 => <<i - 1, j>> \in G /\ <<i, j - 1>> \in G
                               /\ <<i - 1, j - 1>> \in G) => <<i, j>> \in G
    BY <1>1
  <2> G \in SUBSET ((0..n) \X (0..q))
    OBVIOUS
  <2> HIDE DEF G
  <2>2. QED
    BY <2>1, GridInduction
<1>3. QED
  BY <1>2

Mirrored(D, E, l, r) == \A i \in 0..Len(l), j \in 0..Len(r) : D[<<i, j>>] = E[<<j, i>>]

(* Exchanging the words mirrors the distances. *)
LEMMA DistanceMirrored ==
  ASSUME NEW l, NEW r, Len(l) \in Nat, Len(r) \in Nat,
         NEW D, Distances(D, l, r), NEW E, Distances(E, r, l)
  PROVE  Mirrored(D, E, l, r)
<1> DEFINE n == Len(l)
           q == Len(r)
           G == {x \in (0..n) \X (0..q) : D[x] = E[<<x[2], x[1]>>]}
<1>1. ASSUME NEW i \in 0..n, NEW j \in 0..q,
             i > 0 /\ j > 0 => <<i - 1, j>> \in G /\ <<i, j - 1>> \in G
                              /\ <<i - 1, j - 1>> \in G
      PROVE  <<i, j>> \in G
  <2>0. CellRule(D, l, r, i, j)
    <3> HIDE DEF G
    <3>1. QED
      BY DistanceAt, Zenon
  <2>4. CellRule(E, r, l, j, i)
    <3> HIDE DEF G
    <3>1. QED
      BY DistanceAt, Zenon
  <2>1. CASE i = 0 \/ j = 0
    <3>1. D[<<i, j>>] = i + j
      BY <2>0, <2>1 DEF CellRule
    <3>2. E[<<j, i>>] = i + j
      BY <2>4, <2>1 DEF CellRule
    <3>3. QED
      BY <3>1, <3>2
  <2>2. CASE i # 0 /\ j # 0
    <3> DEFINE a == D[<<i - 1, j>>] + 1
               b == D[<<i, j - 1>>] + 1
               c == D[<<i - 1, j - 1>>] + Differ(l, r, i, j)
    <3>1. D[<<i, j>>] = Least({a, b, c})
      BY <2>0, <2>2 DEF CellRule
    <3>2. E[<<j, i>>] = Least({E[<<j - 1, i>>] + 1, E[<<j, i - 1>>] + 1,
                               E[<<j - 1, i - 1>>] + Differ(r, l, j, i)})
      BY <2>4, <2>2 DEF CellRule
    <3>3. /\ D[<<i - 1, j>>] = E[<<j, i - 1>>] /\ D[<<i, j - 1>>] = E[<<j - 1, i>>]
          /\ D[<<i - 1, j - 1>>] = E[<<j - 1, i - 1>>]
      BY <1>1, <2>2
    <3>4. Differ(l, r, i, j) = Differ(r, l, j, i)
      BY DEF Differ
    <3>5. E[<<j, i>>] = Least({b, a, c})
      BY <3>2, <3>3, <3>4
    <3>6. {b, a, c} = {a, b, c}
      OBVIOUS
    <3> HIDE DEF a, b, c
    <3>7. D[<<i, j>>] = E[<<j, i>>]
      BY <3>1, <3>5, <3>6
    <3>8. QED
      BY <3>7
  <2>3. QED
    BY <2>1, <2>2
<1>2. \A i \in 0..n, j \in 0..q : <<i, j>> \in G
  <2>1. \A i \in 0..n, j \in 0..q :
          (/\ i > 0 /\ j > 0 => <<i - 1, j>> \in G /\ <<i, j - 1>> \in G
                               /\ <<i - 1, j - 1>> \in G) => <<i, j>> \in G
    BY <1>1
  <2> G \in SUBSET ((0..n) \X (0..q))
    OBVIOUS
  <2> HIDE DEF G
  <2>2. QED
    BY <2>1, GridInduction
<1>3. QED
  BY <1>2 DEF Mirrored

(* A row that is beyond the maximum keeps all that follow beyond it. *)
LEMMA BeyondStays ==
  ASSUME NEW l, NEW r, Len(l) \in Nat, Len(r) \in Nat, NEW D, Distances(D, l, r),
         NEW m \in Nat, NEW k \in 0..Len(l), \A j \in 0..Len(r) : D[<<k, j>>] > m
  PROVE  \A i \in k..Len(l), j \in 0..Len(r) : D[<<i, j>>] > m
<1> DEFINE n == Len(l)
           q == Len(r)
           G == {x \in (0..n) \X (0..q) : x[1] >= k => D[x] > m}
<1>0. \A i \in 0..n, j \in 0..q : D[<<i, j>>] \in Nat
  BY DistanceBounds
<1>1. ASSUME NEW i \in 0..n, NEW j \in 0..q,
             i > 0 /\ j > 0 => <<i - 1, j>> \in G /\ <<i, j - 1>> \in G
                              /\ <<i - 1, j - 1>> \in G
      PROVE  <<i, j>> \in G
  <2>0. CellRule(D, l, r, i, j)
    <3> HIDE DEF G
    <3>1. QED
      BY DistanceAt, Zenon
  <2> SUFFICES ASSUME i >= k PROVE D[<<i, j>>] > m
    OBVIOUS
  <2>1. CASE i = k
    BY <2>1
  <2>2. CASE i # k /\ j = 0
    <3>1. D[<<i, 0>>] = i
      BY <2>0, <2>2 DEF CellRule
    <3>2. CellRule(D, l, r, k, 0)
      <4> 0 \in 0..Len(r)
        OBVIOUS
      <4> HIDE DEF G
      <4>1. QED
        BY DistanceAt, Zenon
    <3>3. D[<<k, 0>>] = k
      BY <3>2 DEF CellRule
    <3>4. QED
      BY <2>2, <3>1, <3>3
  <2>3. CASE i # k /\ j # 0
    <3> DEFINE a == D[<<i - 1, j>>]
               b == D[<<i, j - 1>>]
               c == D[<<i - 1, j - 1>>]
               d == Differ(l, r, i, j)
    <3>1. a > m /\ b > m /\ c > m /\ a \in Nat /\ b \in Nat /\ c \in Nat
      BY <1>0, <1>1, <2>3
    <3>2. D[<<i, j>>] = Least({a + 1, b + 1, c + d})
      BY <2>0, <2>3 DEF CellRule
    <3>3. d \in {0, 1}
      BY DEF Differ
    <3> HIDE DEF a, b, c, d
    <3>4. Least({a + 1, b + 1, c + d}) \in {a + 1, b + 1, c + d}
      <4>1. a + 1 \in Int /\ b + 1 \in Int /\ c + d \in Int
        BY <3>1, <3>3
      <4>2. QED
        BY <4>1, LeastOfThree, Zenon
    <3>5. QED
      BY <3>1, <3>2, <3>3, <3>4
  <2>4. QED
    BY <2>1, <2>2, <2>3
<1>2. \A i \in 0..n, j \in 0..q : <<i, j>> \in G
  <2>1. \A i \in 0..n, j \in 0..q :
          (/\ i > 0 /\ j > 0 => <<i - 1, j>> \in G /\ <<i, j - 1>> \in G
                               /\ <<i - 1, j - 1>> \in G) => <<i, j>> \in G
    BY <1>1
  <2> G \in SUBSET ((0..n) \X (0..q))
    OBVIOUS
  <2> HIDE DEF G
  <2>2. QED
    BY <2>1, GridInduction
<1>3. QED
  <2>1. ASSUME NEW i \in k..n, NEW j \in 0..q PROVE D[<<i, j>>] > m
    <3>1. i \in 0..n /\ i >= k
      OBVIOUS
    <3>2. <<i, j>> \in G
      BY <1>2, <3>1
    <3>3. QED
      BY <3>1, <3>2
  <2>2. QED
    BY <2>1

-----------------------------------------------------------------------------
(* Distances are compared up to the maximum m: Cut forgets the rest. *)
Cut(x, m) == IF x <= m THEN x ELSE m + 1

SameCut(a, x, m) == a \in Nat /\ x \in Nat /\ Cut(a, m) = Cut(x, m)

LEMMA CutLeast ==
  ASSUME NEW m \in Nat, NEW d \in {0, 1}, NEW a, NEW b, NEW c, NEW x, NEW y, NEW z,
         SameCut(a, x, m), SameCut(b, y, m), SameCut(c, z, m)
  PROVE  SameCut(Least({a + 1, b + 1, c + d}), Least({x + 1, y + 1, z + d}), m)
<1> DEFINE s == Least({a + 1, b + 1, c + d})
           t == Least({x + 1, y + 1, z + d})
<1>1. a + 1 \in Int /\ b + 1 \in Int /\ c + d \in Int
      /\ x + 1 \in Int /\ y + 1 \in Int /\ z + d \in Int
  BY DEF SameCut
<1>2. s \in {a + 1, b + 1, c + d} /\ s <= a + 1 /\ s <= b + 1 /\ s <= c + d
  BY <1>1, LeastOfThree, Zenon
<1>3. t \in {x + 1, y + 1, z + d} /\ t <= x + 1 /\ t <= y + 1 /\ t <= z + d
  BY <1>1, LeastOfThree, Zenon
<1> HIDE DEF s, t
<1>4. SameCut(s, t, m)
  BY <1>2, <1>3 DEF Cut, SameCut
<1>5. QED
  BY <1>4 DEF s, t

-----------------------------------------------------------------------------
(* The band of columns that the next row keeps. *)
Band(i, r, m) == {j \in 1..Len(r) : i - m <= j /\ j <= i + m}
Zero(i, m) == IF i <= m THEN {0} ELSE {}

(* The cells of the next row, before those outside the band are dropped. *)
BandLine(c, row, i, l, r, m) ==
  c = [j \in 0..Len(r) |->
        IF j = 0 THEN IF Zero(i, m) = {} THEN m + 1 ELSE i
        ELSE IF j \notin Band(i, r, m) THEN m + 1
        ELSE Least({c[j - 1] + 1, Cell(row, j, m + 1) + 1,
                    Cell(row, j - 1, m + 1) + (IF l[i] = r[j] THEN 0 ELSE 1)})]

LEMMA NextRowIs ==
  ASSUME NEW row, NEW i, NEW l, NEW r, NEW m
  PROVE  NextRow(row, i, l, r, m) =
           [j \in Band(i, r, m) \cup Zero(i, m) |-> (CHOOSE c : BandLine(c, row, i, l, r, m))[j]]
  BY DEF NextRow, BandLine, Band, Zero

(* The same cell by cell. *)
BandRule(c, row, i, l, r, m) ==
  /\ c \in [0..Len(r) -> Nat]
  /\ c[0] = IF i <= m THEN i ELSE m + 1
  /\ \A j \in 1..Len(r) :
       c[j] = IF i - m <= j /\ j <= i + m
              THEN Least({c[j - 1] + 1, Cell(row, j, m + 1) + 1,
                          Cell(row, j - 1, m + 1) + Differ(l, r, i, j)})
              ELSE m + 1

(* Rows keep any of the columns up to q. *)
KeptRows(q) == UNION {[T -> Nat] : T \in SUBSET (0..q)}

LEMMA CellType ==
  ASSUME NEW q \in Nat, NEW row \in KeptRows(q), NEW j, NEW m \in Nat
  PROVE  Cell(row, j, m + 1) \in Nat
<1>1. PICK T \in SUBSET (0..q) : row \in [T -> Nat]
  BY DEF KeptRows
<1>2. DOMAIN row = T /\ \A x \in T : row[x] \in Nat
  BY <1>1
<1>3. m + 1 \in Nat
  OBVIOUS
<1>4. QED
  BY <1>2, <1>3, Zenon DEF Cell

LEMMA BandLineExists ==
  ASSUME NEW l, NEW r, Len(r) \in Nat, NEW row \in KeptRows(Len(r)), NEW i \in Nat, NEW m \in Nat
  PROVE  \E c : BandLine(c, row, i, l, r, m) /\ BandRule(c, row, i, l, r, m)
<1> DEFINE q == Len(r)
           base == IF i <= m THEN i ELSE m + 1
           step == [x \in (1..q) \X Nat |->
                      IF i - m <= x[1] /\ x[1] <= i + m
                      THEN Least({x[2] + 1, Cell(row, x[1], m + 1) + 1,
                                  Cell(row, x[1] - 1, m + 1) + Differ(l, r, i, x[1])})
                      ELSE m + 1]
<1>1. ASSUME NEW x \in (1..q) \X Nat PROVE step[x] \in Nat
  <2> DEFINE a == x[2] + 1
             b == Cell(row, x[1], m + 1) + 1
             c == Cell(row, x[1] - 1, m + 1) + Differ(l, r, i, x[1])
  <2>1. a \in Nat /\ b \in Nat /\ c \in Nat
    BY CellType DEF Differ
  <2>2. step[x] = Least({a, b, c}) \/ step[x] = m + 1
    OBVIOUS
  <2> HIDE DEF a, b, c, step
  <2>3. Least({a, b, c}) \in {a, b, c}
    <3>1. a \in Int /\ b \in Int /\ c \in Int
      BY <2>1
    <3>2. QED
      BY <3>1, LeastOfThree, Zenon
  <2>4. QED
    BY <2>1, <2>2, <2>3
<1>2. step \in [(1..q) \X Nat -> Nat]
  BY <1>1
<1>3. PICK c : Iterates(c, q, Nat, base, step)
  <2>1. base \in Nat
    OBVIOUS
  <2> HIDE DEF step, base
  <2>2. QED
    BY <1>2, <2>1, IterationExists
<1>4. c \in [0..q -> Nat] /\ c[0] = base
  BY <1>3 DEF Iterates
<1>5. ASSUME NEW j \in 1..q
      PROVE  c[j] = IF i - m <= j /\ j <= i + m
                    THEN Least({c[j - 1] + 1, Cell(row, j, m + 1) + 1,
                                Cell(row, j - 1, m + 1) + Differ(l, r, i, j)})
                    ELSE m + 1
  <2>1. c[j] = step[<<j, c[j - 1]>>] /\ c[j - 1] \in Nat
    <3> HIDE DEF step, base
    <3>1. QED
      BY <1>3, Iterated
  <2>2. <<j, c[j - 1]>> \in (1..q) \X Nat
    BY <2>1
  <2>3. QED
    BY <2>1, <2>2
<1>6. BandRule(c, row, i, l, r, m)
  BY <1>4, <1>5 DEF BandRule
<1>7. c = [j \in 0..q |-> c[j]]
  BY <1>4
<1>8. ASSUME NEW j \in 0..q
      PROVE  c[j] = IF j = 0 THEN IF Zero(i, m) = {} THEN m + 1 ELSE i
                    ELSE IF j \notin Band(i, r, m) THEN m + 1
                    ELSE Least({c[j - 1] + 1, Cell(row, j, m + 1) + 1,
                                Cell(row, j - 1, m + 1) + (IF l[i] = r[j] THEN 0 ELSE 1)})
  <2>1. CASE j = 0
    BY <1>4, <2>1 DEF Zero
  <2>2. CASE j # 0
    <3>1. j \in 1..q /\ (j \in Band(i, r, m) <=> i - m <= j /\ j <= i + m)
      BY <2>2 DEF Band
    <3>2. QED
      BY <1>5, <2>2, <3>1 DEF Differ
  <2>3. QED
    BY <2>1, <2>2
<1>9. BandLine(c, row, i, l, r, m)
  BY <1>7, <1>8, Zenon DEF BandLine
<1>10. QED
  BY <1>6, <1>9

LEMMA BandLineRules ==
  ASSUME NEW l, NEW r, Len(r) \in Nat, NEW row, NEW i \in Nat, NEW m \in Nat,
         NEW c, BandLine(c, row, i, l, r, m), row \in KeptRows(Len(r))
  PROVE  BandRule(c, row, i, l, r, m)
<1> DEFINE q == Len(r)
           body == [j \in 0..q |->
                     IF j = 0 THEN IF Zero(i, m) = {} THEN m + 1 ELSE i
                     ELSE IF j \notin Band(i, r, m) THEN m + 1
                     ELSE Least({c[j - 1] + 1, Cell(row, j, m + 1) + 1,
                                 Cell(row, j - 1, m + 1) + (IF l[i] = r[j] THEN 0 ELSE 1)})]
<1>1. c = body
  BY Zenon DEF BandLine
<1>2. c[0] = IF i <= m THEN i ELSE m + 1
  <2>1. body[0] = IF i <= m THEN i ELSE m + 1
    BY DEF Zero
  <2> HIDE DEF body
  <2>2. QED
    BY <1>1, <2>1
<1>3. ASSUME NEW j \in 1..q
      PROVE  c[j] = IF i - m <= j /\ j <= i + m
                    THEN Least({c[j - 1] + 1, Cell(row, j, m + 1) + 1,
                                Cell(row, j - 1, m + 1) + Differ(l, r, i, j)})
                    ELSE m + 1
  <2>1. j \in Band(i, r, m) <=> i - m <= j /\ j <= i + m
    BY DEF Band
  <2>2. body[j] = IF i - m <= j /\ j <= i + m
                  THEN Least({c[j - 1] + 1, Cell(row, j, m + 1) + 1,
                              Cell(row, j - 1, m + 1) + Differ(l, r, i, j)})
                  ELSE m + 1
    BY <2>1 DEF Differ
  <2> HIDE DEF body
  <2>3. QED
    BY <1>1, <2>2
<1> DEFINE S == {j \in Nat : j <= q => c[j] \in Nat}
<1>4. S = Nat
  <2>1. 0 \in S
    BY <1>2
  <2>2. ASSUME NEW j \in S PROVE j + 1 \in S
    <3> SUFFICES ASSUME j + 1 <= q PROVE c[j + 1] \in Nat
      OBVIOUS
    <3>1. j \in Nat /\ c[j] \in Nat /\ j + 1 \in 1..q /\ (j + 1) - 1 = j
      OBVIOUS
    <3> HIDE DEF S, body
    <3> DEFINE x == c[j] + 1
               y == Cell(row, j + 1, m + 1) + 1
               z == Cell(row, j, m + 1) + Differ(l, r, i, j + 1)
    <3>2. c[j + 1] = Least({x, y, z}) \/ c[j + 1] = m + 1
      BY <1>3, <3>1
    <3>3. x \in Nat /\ y \in Nat /\ z \in Nat
      BY <3>1, CellType DEF Differ
    <3> HIDE DEF x, y, z
    <3>4. Least({x, y, z}) \in {x, y, z}
      <4>1. x \in Int /\ y \in Int /\ z \in Int
        BY <3>3
      <4>2. QED
        BY <4>1, LeastOfThree, Zenon
    <3>5. QED
      BY <3>2, <3>3, <3>4
  <2>3. \A j \in S : j + 1 \in S
    BY <2>2
  <2> S \subseteq Nat
    OBVIOUS
  <2> HIDE DEF S
  <2>4. QED
    BY <2>1, <2>3, Induction
<1>5. c \in [0..q -> Nat]
  <2>1. \A j \in 0..q : c[j] \in Nat
    BY <1>4
  <2>2. c = [j \in 0..q |-> c[j]]
    BY <1>1
  <2> HIDE DEF body
  <2>3. QED
    BY <2>1, <2>2
<1>6. QED
  BY <1>2, <1>3, <1>5 DEF BandRule

(* c holds the cells of the row next to row. *)
CellsOf(next, c, row, i, l, r, m) ==
  BandRule(c, row, i, l, r, m) /\ \A j \in 0..Len(r) : Cell(next, j, m + 1) = c[j]

LEMMA NextRowCells ==
  ASSUME NEW l, NEW r, Len(r) \in Nat, NEW row \in KeptRows(Len(r)), NEW i \in Nat, NEW m \in Nat
  PROVE  /\ NextRow(row, i, l, r, m) \in KeptRows(Len(r))
         /\ DOMAIN NextRow(row, i, l, r, m) = Band(i, r, m) \cup Zero(i, m)
         /\ \E c : CellsOf(NextRow(row, i, l, r, m), c, row, i, l, r, m)
<1> DEFINE q == Len(r)
           c == CHOOSE c : BandLine(c, row, i, l, r, m)
           T == Band(i, r, m) \cup Zero(i, m)
           next == NextRow(row, i, l, r, m)
<1>1. BandLine(c, row, i, l, r, m)
  <2>1. \E x : BandLine(x, row, i, l, r, m)
    BY BandLineExists
  <2>2. QED
    BY <2>1, Zenon
<1>2. next = [j \in T |-> c[j]]
  BY NextRowIs, Zenon
<1> HIDE DEF c, next
<1>3. BandRule(c, row, i, l, r, m)
  BY <1>1, BandLineRules
<1>4. T \in SUBSET (0..q)
  BY DEF Band, Zero
<1>5. next \in [T -> Nat]
  <2>1. \A j \in T : c[j] \in Nat
    BY <1>3, <1>4 DEF BandRule
  <2> HIDE DEF T
  <2>2. QED
    BY <1>2, <2>1
<1>6. next \in KeptRows(q) /\ DOMAIN next = T
  <2> HIDE DEF T, q
  <2>1. DOMAIN next = T
    BY <1>5
  <2>2. QED
    BY <1>4, <1>5, <2>1, Zenon DEF KeptRows
<1>7. ASSUME NEW j \in 0..q PROVE Cell(next, j, m + 1) = c[j]
  <2>1. CASE j \in T
    <3>1. next[j] = c[j]
      BY <1>2, <2>1, Zenon
    <3>2. QED
      BY <1>6, <2>1, <3>1, Zenon DEF Cell
  <2>2. CASE j \notin T
    <3>1. c[j] = m + 1
      <4>1. CASE j = 0
        BY <1>3, <2>2, <4>1 DEF BandRule, Zero
      <4>2. CASE j # 0
        <5>1. j \in 1..Len(r) /\ ~(i - m <= j /\ j <= i + m)
          BY <2>2, <4>2 DEF Band
        <5>2. QED
          BY <1>3, <5>1 DEF BandRule
      <4>3. QED
        BY <4>1, <4>2
    <3>2. QED
      BY <1>6, <2>2, <3>1, Zenon DEF Cell
  <2>3. QED
    BY <2>1, <2>2
<1>8. CellsOf(next, c, row, i, l, r, m)
  BY <1>3, <1>7 DEF CellsOf
<1>9. QED
  BY <1>6, <1>8 DEF next

(* A row of the band agrees with the distances up to the maximum. *)
Agrees(row, D, i, q, m) == \A j \in 0..q : Cut(Cell(row, j, m + 1), m) = Cut(D[<<i, j>>], m)

(* Outside the band every distance is beyond the maximum. *)
LEMMA NextRowAgrees ==
  ASSUME NEW l, NEW r, Len(l) \in Nat, Len(r) \in Nat, NEW D, Distances(D, l, r),
         NEW m \in Nat, NEW i \in 1..Len(l), NEW row \in KeptRows(Len(r)),
         Agrees(row, D, i - 1, Len(r), m)
  PROVE  Agrees(NextRow(row, i, l, r, m), D, i, Len(r), m)
<1> DEFINE q == Len(r)
           next == NextRow(row, i, l, r, m)
<1>0. PICK c : CellsOf(NextRow(row, i, l, r, m), c, row, i, l, r, m)
  <2>1. i \in Nat
    OBVIOUS
  <2> HIDE DEF q, next
  <2>2. QED
    BY <2>1, NextRowCells, Zenon
<1>1. BandRule(c, row, i, l, r, m) /\ \A j \in 0..q : Cell(next, j, m + 1) = c[j]
  BY <1>0 DEF CellsOf
<1> DEFINE S == {j \in Nat : j <= q => Cut(c[j], m) = Cut(D[<<i, j>>], m)}
<1>2. \A j \in 0..q : CellRule(D, l, r, i, j)
  <2>1. i \in 0..Len(l)
    OBVIOUS
  <2>2. QED
    BY <2>1, DistanceAt, Zenon
<1>3. \A a \in 0..Len(l), b \in 0..q :
        D[<<a, b>>] \in Nat /\ D[<<a, b>>] >= a - b /\ D[<<a, b>>] >= b - a
  BY DistanceBounds
<1>4. 0 \in S
  <2>1. D[<<i, 0>>] = i
    <3>1. CellRule(D, l, r, i, 0)
      BY <1>2
    <3>2. QED
      BY <3>1 DEF CellRule
  <2>2. QED
    BY <1>1, <2>1 DEF BandRule, Cut
<1>5. ASSUME NEW j \in S PROVE j + 1 \in S
  <2> SUFFICES ASSUME j + 1 <= q PROVE Cut(c[j + 1], m) = Cut(D[<<i, j + 1>>], m)
    OBVIOUS
  <2>0. j \in Nat /\ Cut(c[j], m) = Cut(D[<<i, j>>], m) /\ j + 1 \in 1..q /\ (j + 1) - 1 = j
    OBVIOUS
  <2> HIDE DEF S, next
  <2>1. CASE ~(i - m <= j + 1 /\ j + 1 <= i + m)
    <3>1. c[j + 1] = m + 1
      BY <1>1, <2>0, <2>1 DEF BandRule
    <3>2. D[<<i, j + 1>>] > m
      BY <1>3, <2>0, <2>1
    <3>3. QED
      BY <1>3, <2>0, <3>1, <3>2 DEF Cut
  <2>2. CASE i - m <= j + 1 /\ j + 1 <= i + m
    <3> DEFINE d == Differ(l, r, i, j + 1)
               a == c[j]
               b == Cell(row, j + 1, m + 1)
               e == Cell(row, j, m + 1)
               x == D[<<i, j>>]
               y == D[<<i - 1, j + 1>>]
               z == D[<<i - 1, j>>]
    <3>1. c[j + 1] = Least({a + 1, b + 1, e + d})
      BY <1>1, <2>0, <2>2 DEF BandRule
    <3>2. D[<<i, j + 1>>] = Least({y + 1, x + 1, z + d})
      <4>1. CellRule(D, l, r, i, j + 1)
        BY <1>2, <2>0
      <4>2. D[<<i, j + 1>>] =
              Least({D[<<i - 1, j + 1>>] + 1, D[<<i, (j + 1) - 1>>] + 1,
                     D[<<i - 1, (j + 1) - 1>>] + Differ(l, r, i, j + 1)})
        <5>1. i # 0 /\ j + 1 # 0
          BY <2>0
        <5>2. QED
          BY <4>1, <5>1, Zenon DEF CellRule
      <4>3. QED
        BY <2>0, <4>2, Zenon
    <3>3. {y + 1, x + 1, z + d} = {x + 1, y + 1, z + d}
      OBVIOUS
    <3>4. d \in {0, 1}
      BY DEF Differ
    <3>5. a \in Nat /\ b \in Nat /\ e \in Nat
      <4>1. a \in Nat
        BY <1>1, <2>0 DEF BandRule
      <4>2. b \in Nat /\ e \in Nat
        BY CellType, Zenon
      <4>3. QED
        BY <4>1, <4>2
    <3>6. x \in Nat /\ y \in Nat /\ z \in Nat
      <4>1. i \in 0..Len(l) /\ i - 1 \in 0..Len(l) /\ j \in 0..q /\ j + 1 \in 0..q
        BY <2>0
      <4>2. QED
        BY <1>3, <4>1, Zenon
    <3>7. Cut(a, m) = Cut(x, m) /\ Cut(b, m) = Cut(y, m) /\ Cut(e, m) = Cut(z, m)
      BY <2>0 DEF Agrees
    <3> HIDE DEF a, b, e, x, y, z, d
    <3>8. SameCut(a, x, m) /\ SameCut(b, y, m) /\ SameCut(e, z, m)
      BY <3>5, <3>6, <3>7 DEF SameCut
    <3>9. SameCut(Least({a + 1, b + 1, e + d}), Least({x + 1, y + 1, z + d}), m)
      BY <3>4, <3>8, CutLeast, Zenon
    <3>10. QED
      BY <3>1, <3>2, <3>3, <3>9 DEF SameCut
  <2>3. QED
    BY <2>1, <2>2
<1>6. S = Nat
  <2>1. \A j \in S : j + 1 \in S
    BY <1>5
  <2> S \subseteq Nat
    OBVIOUS
  <2> HIDE DEF S
  <2>2. QED
    BY <1>4, <2>1, Induction
<1>7. \A j \in 0..q : Cut(c[j], m) = Cut(D[<<i, j>>], m)
  BY <1>6
<1>8. QED
  BY <1>1, <1>7 DEF Agrees

-----------------------------------------------------------------------------
(* The rows of the banded computation. *)
Top(r, m) == [j \in 0..Least({Len(r), m}) |-> j]

Rowed(R, l, r, m) ==
  R = [i \in 0..Len(l) |-> IF i = 0 THEN Top(r, m) ELSE NextRow(R[i - 1], i, l, r, m)]

Verdict(R, l, r, m) ==
  IF \E i \in 1..Len(l) : \A j \in DOMAIN R[i] : R[i][j] > m THEN m + 1
  ELSE Least({Cell(R[Len(l)], Len(r), m + 1), m + 1})

LEMMA BandedIs ==
  ASSUME NEW l, NEW r, NEW m
  PROVE  Banded(l, r, m) = Verdict(CHOOSE R : Rowed(R, l, r, m), l, r, m)
  BY Zenon DEF Banded, Verdict, Rowed, Top

RowStep(R, l, r, m, i) == R[i] = IF i = 0 THEN Top(r, m) ELSE NextRow(R[i - 1], i, l, r, m)

LEMMA TopRow ==
  ASSUME NEW r, Len(r) \in Nat, NEW m \in Nat
  PROVE  /\ Top(r, m) \in KeptRows(Len(r))
         /\ \A j \in 0..Len(r) : Cell(Top(r, m), j, m + 1) = IF j <= m THEN j ELSE m + 1
<1> DEFINE q == Len(r)
           k == Least({q, m})
           top == Top(r, m)
<1>1. k = IF q <= m THEN q ELSE m
  <2>1. q \in Int /\ m \in Int
    OBVIOUS
  <2>2. QED
    BY <2>1, LeastOfTwo, Zenon
<1>2. top = [j \in 0..k |-> j]
  BY Zenon DEF Top
<1> HIDE DEF k, top
<1>3. top \in [0..k -> Nat] /\ 0..k \in SUBSET (0..q) /\ k \in Nat
  BY <1>1, <1>2
<1>4. top \in KeptRows(q)
  BY <1>3, Zenon DEF KeptRows
<1>5. ASSUME NEW j \in 0..q PROVE Cell(top, j, m + 1) = IF j <= m THEN j ELSE m + 1
  <2>1. j \in 0..k <=> j <= m
    BY <1>1, <1>3
  <2>2. DOMAIN top = 0..k /\ (j \in 0..k => top[j] = j)
    BY <1>2, Zenon
  <2>3. QED
    BY <2>1, <2>2, Zenon DEF Cell
<1>6. QED
  BY <1>4, <1>5 DEF top

LEMMA RowsExist ==
  ASSUME NEW l, NEW r, Len(l) \in Nat, Len(r) \in Nat, NEW m \in Nat
  PROVE  \E R : Rowed(R, l, r, m)
<1> DEFINE n == Len(l)
           Q == KeptRows(Len(r))
           step == [x \in (1..n) \X Q |-> NextRow(x[2], x[1], l, r, m)]
<1>1. step \in [(1..n) \X Q -> Q]
  <2>1. ASSUME NEW x \in (1..n) \X Q PROVE step[x] \in Q
    <3>1. x[1] \in Nat /\ x[2] \in KeptRows(Len(r))
      OBVIOUS
    <3>2. NextRow(x[2], x[1], l, r, m) \in KeptRows(Len(r))
      BY <3>1, NextRowCells
    <3>3. QED
      BY <3>2
  <2> HIDE DEF Q
  <2>2. QED
    BY <2>1
<1>2. Top(r, m) \in Q
  BY TopRow
<1>3. PICK R : Iterates(R, n, Q, Top(r, m), step)
  <2> HIDE DEF step, Q
  <2>1. QED
    BY <1>1, <1>2, IterationExists
<1>4. ASSUME NEW i \in 0..n PROVE RowStep(R, l, r, m, i)
  <2>1. CASE i = 0
    BY <1>3, <2>1 DEF Iterates, RowStep
  <2>2. CASE i # 0
    <3>0. i \in 1..n
      BY <2>2
    <3>1. R[i] = step[<<i, R[i - 1]>>] /\ R[i - 1] \in Q
      <4> HIDE DEF step, Q
      <4>1. QED
        BY <1>3, <3>0, Iterated
    <3>2. <<i, R[i - 1]>> \in (1..n) \X Q
      <4> HIDE DEF Q
      <4>1. QED
        BY <3>0, <3>1
    <3>3. R[i] = NextRow(R[i - 1], i, l, r, m)
      <4> HIDE DEF Q
      <4>1. QED
        BY <3>1, <3>2
    <3>4. QED
      BY <2>2, <3>3 DEF RowStep
  <2>3. QED
    BY <2>1, <2>2
<1>5. R = [i \in 0..n |-> R[i]]
  <2>1. R \in [0..n -> Q]
    <3> HIDE DEF Q, step
    <3>1. QED
      BY <1>3 DEF Iterates
  <2> HIDE DEF Q
  <2>2. QED
    BY <2>1
<1>6. Rowed(R, l, r, m)
  BY <1>4, <1>5, Zenon DEF Rowed, RowStep
<1>7. QED
  BY <1>6

LEMMA RowAt ==
  ASSUME NEW l, NEW r, NEW m, NEW R, Rowed(R, l, r, m), NEW i \in 0..Len(l)
  PROVE  RowStep(R, l, r, m, i)
<1> DEFINE body == [k \in 0..Len(l) |-> IF k = 0 THEN Top(r, m) ELSE NextRow(R[k - 1], k, l, r, m)]
<1>1. R = body
  BY Zenon DEF Rowed
<1>2. body[i] = IF i = 0 THEN Top(r, m) ELSE NextRow(R[i - 1], i, l, r, m)
  OBVIOUS
<1> HIDE DEF body
<1>3. QED
  BY <1>1, <1>2 DEF RowStep

(* Every row of the computation agrees with the distances. *)
LEMMA RowsAgree ==
  ASSUME NEW l, NEW r, Len(l) \in Nat, Len(r) \in Nat, NEW D, Distances(D, l, r),
         NEW m \in Nat, NEW R, Rowed(R, l, r, m)
  PROVE  \A i \in 0..Len(l) : R[i] \in KeptRows(Len(r)) /\ Agrees(R[i], D, i, Len(r), m)
<1> DEFINE n == Len(l)
           q == Len(r)
           S == {i \in Nat : i <= n => R[i] \in KeptRows(q) /\ Agrees(R[i], D, i, q, m)}
<1>1. 0 \in S
  <2>1. RowStep(R, l, r, m, 0)
    BY RowAt
  <2>2. R[0] = Top(r, m)
    BY <2>1 DEF RowStep
  <2>3. \A j \in 0..q : D[<<0, j>>] = j
    <3>1. \A j \in 0..q : CellRule(D, l, r, 0, j)
      <4>1. 0 \in 0..Len(l)
        OBVIOUS
      <4>2. QED
        BY <4>1, DistanceAt, Zenon
    <3>2. QED
      BY <3>1 DEF CellRule
  <2>4. Agrees(Top(r, m), D, 0, q, m)
    <3>1. ASSUME NEW j \in 0..q PROVE Cut(Cell(Top(r, m), j, m + 1), m) = Cut(D[<<0, j>>], m)
      <4>1. Cell(Top(r, m), j, m + 1) = IF j <= m THEN j ELSE m + 1
        BY TopRow
      <4>2. QED
        BY <2>3, <4>1 DEF Cut
    <3>2. QED
      BY <3>1 DEF Agrees
  <2>5. QED
    BY <2>2, <2>4, TopRow
<1>2. ASSUME NEW i \in S PROVE i + 1 \in S
  <2> SUFFICES ASSUME i + 1 <= n
               PROVE  R[i + 1] \in KeptRows(q) /\ Agrees(R[i + 1], D, i + 1, q, m)
    OBVIOUS
  <2>1. i \in Nat /\ R[i] \in KeptRows(q) /\ Agrees(R[i], D, i, q, m)
    OBVIOUS
  <2>2. i + 1 \in 1..n /\ i + 1 \in 0..n /\ (i + 1) - 1 = i /\ i + 1 # 0
    OBVIOUS
  <2> HIDE DEF S
  <2>3. R[i + 1] = NextRow(R[i], i + 1, l, r, m)
    <3>1. RowStep(R, l, r, m, i + 1)
      BY <2>2, RowAt
    <3>2. QED
      BY <2>2, <3>1 DEF RowStep
  <2>4. NextRow(R[i], i + 1, l, r, m) \in KeptRows(q)
    <3>1. i + 1 \in Nat
      BY <2>1
    <3>2. QED
      BY <2>1, <3>1, NextRowCells, Zenon
  <2>5. Agrees(NextRow(R[i], i + 1, l, r, m), D, i + 1, q, m)
    <3>1. Agrees(R[i], D, (i + 1) - 1, q, m)
      BY <2>1, <2>2
    <3>2. QED
      BY <2>1, <2>2, <3>1, NextRowAgrees
  <2>6. QED
    BY <2>3, <2>4, <2>5
<1>3. S = Nat
  <2>1. \A i \in S : i + 1 \in S
    BY <1>2
  <2> S \subseteq Nat
    OBVIOUS
  <2> HIDE DEF S
  <2>2. QED
    BY <1>1, <2>1, Induction
<1>4. QED
  BY <1>3

-----------------------------------------------------------------------------
LEMMA LeastIsCut ==
  ASSUME NEW x \in Nat, NEW m \in Nat
  PROVE  Least({x, m + 1}) = Cut(x, m)
<1>1. x \in Int /\ m + 1 \in Int
  OBVIOUS
<1>2. Least({x, m + 1}) = IF x <= m + 1 THEN x ELSE m + 1
  BY <1>1, LeastOfTwo, Zenon
<1>3. QED
  BY <1>2 DEF Cut

(* The banded computation returns the distance, or the maximum plus one. *)
LEMMA BandedIsExact ==
  ASSUME NEW l, NEW r, Len(l) \in Nat, Len(r) \in Nat, NEW D, Distances(D, l, r),
         NEW m \in Nat
  PROVE  Banded(l, r, m) = Cut(D[<<Len(l), Len(r)>>], m)
<1> DEFINE n == Len(l)
           q == Len(r)
           R == CHOOSE R : Rowed(R, l, r, m)
           last == D[<<n, q>>]
<1>1. Rowed(R, l, r, m)
  <2>1. \E x : Rowed(x, l, r, m)
    BY RowsExist
  <2>2. QED
    BY <2>1, Zenon
<1>2. Banded(l, r, m) = Verdict(R, l, r, m)
  BY BandedIs, Zenon
<1> HIDE DEF R
<1>3. \A i \in 0..n : R[i] \in KeptRows(q) /\ Agrees(R[i], D, i, q, m)
  BY <1>1, RowsAgree
<1>4. \A i \in 0..n, j \in 0..q :
        D[<<i, j>>] \in Nat /\ D[<<i, j>>] >= i - j /\ D[<<i, j>>] >= j - i
  BY DistanceBounds
<1>5. n \in 0..n /\ q \in 0..q
  OBVIOUS
<1>6. last \in Nat
  BY <1>4, <1>5, Zenon
<1>7. CASE \E i \in 1..n : \A j \in DOMAIN R[i] : R[i][j] > m
  <2>1. PICK i \in 1..n : \A j \in DOMAIN R[i] : R[i][j] > m
    BY <1>7
  <2>2. i \in 0..n /\ i - 1 \in 0..n /\ i - 1 \in Nat /\ i \in Nat
    OBVIOUS
  <2>3. R[i] = NextRow(R[i - 1], i, l, r, m)
    <3>1. RowStep(R, l, r, m, i)
      BY <1>1, <2>2, RowAt
    <3>2. QED
      BY <3>1 DEF RowStep
  <2>5. ASSUME NEW j \in 0..q PROVE D[<<i, j>>] > m
    <3>1. Cut(Cell(R[i], j, m + 1), m) = Cut(D[<<i, j>>], m) /\ D[<<i, j>>] \in Nat
      BY <1>3, <1>4, <2>2 DEF Agrees
    <3>2. Cell(R[i], j, m + 1) \in Nat
      BY <1>3, <2>2, CellType, Zenon
    <3>3. Cell(R[i], j, m + 1) > m
      <4>1. m + 1 > m
        OBVIOUS
      <4>2. QED
        BY <2>1, <4>1, Zenon DEF Cell
    <3>4. QED
      BY <3>1, <3>2, <3>3 DEF Cut
  <2>6. last > m
    <3>1. \A a \in i..Len(l), b \in 0..Len(r) : D[<<a, b>>] > m
      BY <2>2, <2>5, BeyondStays
    <3>2. n \in i..Len(l)
      OBVIOUS
    <3>3. QED
      BY <1>5, <3>1, <3>2, Zenon
  <2>7. Verdict(R, l, r, m) = m + 1
    BY <1>7, Zenon DEF Verdict
  <2>8. QED
    BY <1>2, <1>6, <2>6, <2>7 DEF Cut
<1>8. CASE ~ \E i \in 1..n : \A j \in DOMAIN R[i] : R[i][j] > m
  <2> DEFINE x == Cell(R[n], q, m + 1)
  <2>1. Verdict(R, l, r, m) = Least({x, m + 1})
    BY <1>8, Zenon DEF Verdict
  <2>2. x \in Nat
    BY <1>3, <1>5, CellType, Zenon
  <2>3. Cut(x, m) = Cut(last, m)
    <3>1. Agrees(R[n], D, n, q, m)
      BY <1>3, <1>5, Zenon
    <3>2. QED
      BY <1>5, <3>1, Zenon DEF Agrees
  <2> HIDE DEF x, last, n
  <2>4. QED
    BY <1>2, <2>1, <2>2, <2>3, LeastIsCut DEF last, n
<1>9. QED
  BY <1>7, <1>8

(* _edit_distance(left, right, maximum) is min(distance, maximum + 1) for     *)
(* words over any alphabet, of any length, and for any maximum: skipping what *)
(* lies outside the band and giving up early never changes the answer.        *)
THEOREM BandIsExact ==
  ASSUME NEW S, NEW maximum \in Nat
  PROVE  BandSuffices(Seq(S), maximum)
<1> SUFFICES ASSUME NEW l \in Seq(S), NEW r \in Seq(S)
             PROVE  EditDistance(l, r, maximum) = Least({Levenshtein(l, r), maximum + 1})
  BY DEF BandSuffices
<1> DEFINE n == Len(l)
           q == Len(r)
           D == CHOOSE D : Distances(D, l, r)
           E == CHOOSE E : Distances(E, r, l)
           last == D[<<n, q>>]
<1>1. n \in Nat /\ q \in Nat
  OBVIOUS
<1>2. Distances(D, l, r) /\ Distances(E, r, l)
  <2>1. (\E x : Distances(x, l, r)) /\ (\E x : Distances(x, r, l))
    BY <1>1, DistancesExist
  <2>2. QED
    BY <2>1, Zenon
<1>3. Levenshtein(l, r) = last
  BY LevenshteinIs, Zenon
<1> HIDE DEF D, E
<1>4. n \in 0..n /\ q \in 0..q
  BY <1>1
<1>5. last \in Nat /\ last >= n - q /\ last >= q - n
  <2>1. \A i \in 0..n, j \in 0..q :
          D[<<i, j>>] \in Nat /\ D[<<i, j>>] >= i - j /\ D[<<i, j>>] >= j - i
    BY <1>1, <1>2, DistanceBounds
  <2>2. QED
    BY <1>4, <2>1, Zenon
<1>6. Banded(l, r, maximum) = Cut(last, maximum)
  BY <1>1, <1>2, BandedIsExact
<1>7. Banded(r, l, maximum) = Cut(last, maximum)
  <2>1. Banded(r, l, maximum) = Cut(E[<<q, n>>], maximum)
    BY <1>1, <1>2, BandedIsExact
  <2>2. Mirrored(D, E, l, r)
    BY <1>1, <1>2, DistanceMirrored
  <2>3. E[<<q, n>>] = last
    BY <1>4, <2>2, Zenon DEF Mirrored
  <2>4. QED
    BY <2>1, <2>3
<1>8. EditDistance(l, r, maximum) = Cut(last, maximum)
  <2> HIDE DEF last
  <2>1. CASE n - q > maximum \/ q - n > maximum
    <3>1. EditDistance(l, r, maximum) = maximum + 1
      BY <2>1, Zenon DEF EditDistance
    <3>2. QED
      BY <1>1, <1>5, <2>1, <3>1 DEF Cut
  <2>2. CASE ~(n - q > maximum \/ q - n > maximum)
    <3>1. \/ EditDistance(l, r, maximum) = Banded(l, r, maximum)
          \/ EditDistance(l, r, maximum) = Banded(r, l, maximum)
      BY <2>2, Zenon DEF EditDistance
    <3>2. QED
      BY <1>6, <1>7, <3>1
  <2>3. QED
    BY <2>1, <2>2
<1>9. Least({last, maximum + 1}) = Cut(last, maximum)
  BY <1>5, LeastIsCut, Zenon
<1>10. QED
  BY <1>3, <1>8, <1>9
=============================================================================
