--------------------------------- MODULE Sums ---------------------------------
(***************************************************************************)
(* What the proofs need of sums over finite sets: of the amounts of a set  *)
(* of entries, of the movements of a transfer, of the balances of a        *)
(* ledger.  The library sums with a recursive function; its equation is    *)
(* established here from the order of finite sets by inclusion, and the    *)
(* usual laws follow from it.                                              *)
(***************************************************************************)
EXTENDS Integers, FiniteSets, Functions, FiniteSetTheorems, TLAPS

(* The element the library takes out of a set first. *)
Pick(s) == CHOOSE x \in s : TRUE

(* g sums f over every subset of S, by the library's recursion. *)
Adds(f, S, g) ==
    g = [s \in SUBSET S |-> IF s = {} THEN 0 ELSE f[Pick(s)] + g[s \ {Pick(s)}]]

Adder(f, S) == CHOOSE g : Adds(f, S, g)

(* A finite family of finite sets has a member that includes no other: the *)
(* induction behind every lemma of this module.                            *)
LEMMA Smallest ==
    ASSUME NEW S, IsFiniteSet(S), NEW F, F \subseteq SUBSET S, F # {}
    PROVE  \E U \in F : \A V \in F : V \subseteq U => V = U
<1>1. IsWellFoundedOn(StrictSubsetOrdering(S), SUBSET S)
  BY FS_FiniteSubsetsOfFinite, FS_StrictSubsetOrderingWellFounded
<1>2. PICK U \in F : \A V \in F : ~ (<<V, U>> \in StrictSubsetOrdering(S))
  BY <1>1, WFMin
<1>3. ASSUME NEW V \in F, V \subseteq U, V # U PROVE FALSE
  <2>1. <<V, U>> \in (SUBSET S) \X (SUBSET S)
    OBVIOUS
  <2>2. <<V, U>> \in StrictSubsetOrdering(S)
    BY <2>1, <1>3 DEF StrictSubsetOrdering
  <2> QED  BY <1>2, <2>2
<1> QED  BY <1>3

(* Sum is the library's sum. *)
LEMMA SumIsAdder ==
    ASSUME NEW f, NEW S
    PROVE  SumFunctionOnSet(f, S) = Adder(f, S)[S]
BY DEF SumFunctionOnSet, FoldFunctionOnSet, MapThenFoldSet, Adder, Adds, Pick

(* Two functions that follow the recursion are the same function. *)
LEMMA AdderUnique ==
    ASSUME NEW f, NEW S, IsFiniteSet(S), NEW g, NEW h, Adds(f, S, g), Adds(f, S, h)
    PROVE  g = h
<1> DEFINE F == {s \in SUBSET S : g[s] # h[s]}
<1>1. ASSUME F # {} PROVE FALSE
  <2>1. PICK U \in F : \A V \in F : V \subseteq U => V = U
    <3>1. F \subseteq SUBSET S
      OBVIOUS
    <3> HIDE DEF F
    <3> QED  BY <1>1, <3>1, Smallest
  <2>2. U # {}
    BY <2>1 DEF Adds
  <2>3. Pick(U) \in U
    BY <2>2 DEF Pick
  <2>4. g[U \ {Pick(U)}] = h[U \ {Pick(U)}]
    BY <2>1, <2>3
  <2> QED  BY <2>1, <2>2, <2>4 DEF Adds
<1>2. \A s \in SUBSET S : g[s] = h[s]
  BY <1>1
<1>3. /\ g = [s \in SUBSET S |-> g[s]]
      /\ h = [s \in SUBSET S |-> h[s]]
  BY DEF Adds
<1> QED  BY <1>2, <1>3

(* What follows the recursion on a set follows it on each of its subsets. *)
LEMMA AdderOnSubset ==
    ASSUME NEW f, NEW S, NEW g, Adds(f, S, g), NEW T \in SUBSET S
    PROVE  Adds(f, T, [s \in SUBSET T |-> g[s]])
<1> DEFINE h == [s \in SUBSET T |-> g[s]]
<1>1. \A s \in SUBSET T : s \ {Pick(s)} \in SUBSET T
  OBVIOUS
<1>2. \A s \in SUBSET T :
        h[s] = IF s = {} THEN 0 ELSE f[Pick(s)] + h[s \ {Pick(s)}]
  BY <1>1 DEF Adds
<1> QED  BY <1>2 DEF Adds

(* The recursion has a solution on every finite set. *)
LEMMA AdderExists ==
    ASSUME NEW f, NEW S, IsFiniteSet(S)
    PROVE  Adds(f, S, Adder(f, S))
<1> DEFINE Bad == {U \in SUBSET S : ~ \E g : Adds(f, U, g)}
<1>1. ASSUME Bad # {} PROVE FALSE
  <2>1. PICK U \in Bad : \A V \in Bad : V \subseteq U => V = U
    <3>1. Bad \subseteq SUBSET S
      OBVIOUS
    <3> HIDE DEF Bad
    <3> QED  BY <1>1, <3>1, Smallest
  <2>2. \A V \in SUBSET U : V # U => \E g : Adds(f, V, g)
    BY <2>1
  <2>3. \A V \in SUBSET U : V # U => Adds(f, V, Adder(f, V))
    BY <2>2 DEF Adder
  <2>4. \A V \in SUBSET U : IsFiniteSet(V)
    BY FS_Subset
  <2>5. ASSUME NEW V \in SUBSET U, V # U, NEW W \in SUBSET V
        PROVE  Adder(f, V)[W] = Adder(f, W)[W]
    <3>1. Adds(f, W, [s \in SUBSET W |-> Adder(f, V)[s]])
      BY <2>3, <2>5, AdderOnSubset
    <3>2. Adds(f, W, Adder(f, W)) /\ IsFiniteSet(W)
      BY <2>3, <2>4, <2>5
    <3>3. [s \in SUBSET W |-> Adder(f, V)[s]] = Adder(f, W)
      BY <3>1, <3>2, AdderUnique
    <3> QED  BY <3>3
  <2> DEFINE g == [s \in SUBSET U |->
                     IF s = {} THEN 0
                     ELSE f[Pick(s)] + Adder(f, s \ {Pick(s)})[s \ {Pick(s)}]]
  <2>6. ASSUME NEW V \in SUBSET U, V # U PROVE g[V] = Adder(f, V)[V]
    <3>1. CASE V = {}
      BY <3>1, <2>3, <2>6 DEF Adds
    <3>2. CASE V # {}
      <4>1. Adder(f, V)[V] = f[Pick(V)] + Adder(f, V)[V \ {Pick(V)}]
        BY <3>2, <2>3, <2>6 DEF Adds
      <4> QED  BY <3>2, <4>1, <2>5, <2>6
    <3> QED  BY <3>1, <3>2
  <2>7. ASSUME NEW s \in SUBSET U, s # {}
        PROVE  /\ s \ {Pick(s)} \in SUBSET U
               /\ s \ {Pick(s)} # U
    BY <2>7 DEF Pick
  <2>8. \A s \in SUBSET U : s # {} =>
          g[s \ {Pick(s)}] = Adder(f, s \ {Pick(s)})[s \ {Pick(s)}]
    BY <2>6, <2>7
  <2>9. \A s \in SUBSET U :
          g[s] = IF s = {} THEN 0 ELSE f[Pick(s)] + g[s \ {Pick(s)}]
    BY <2>8
  <2>10. Adds(f, U, g)
    BY <2>9 DEF Adds
  <2> QED  BY <2>1, <2>10
<1>2. \E g : Adds(f, S, g)
  BY <1>1
<1> QED  BY <1>2 DEF Adder

------------------------------------------------------------------------------
Sum(f, S) == SumFunctionOnSet(f, S)

(* Nothing adds up to zero. *)
LEMMA SumEmpty ==
    ASSUME NEW f
    PROVE  Sum(f, {}) = 0
<1>1. Adds(f, {}, Adder(f, {}))
  BY AdderExists, FS_EmptySet
<1>2. {} \in SUBSET {}
  OBVIOUS
<1>3. Adder(f, {})[{}] = 0
  BY <1>1, <1>2 DEF Adds
<1> QED  BY <1>3, SumIsAdder DEF Sum

(* The equation the library's recursion stands for. *)
LEMMA SumTake ==
    ASSUME NEW f, NEW S, IsFiniteSet(S), S # {}
    PROVE  /\ Pick(S) \in S
           /\ IsFiniteSet(S \ {Pick(S)})
           /\ Sum(f, S) = f[Pick(S)] + Sum(f, S \ {Pick(S)})
<1> DEFINE T == S \ {Pick(S)}
<1>1. Pick(S) \in S /\ IsFiniteSet(T)
  BY FS_RemoveElement DEF Pick
<1>2. Adds(f, S, Adder(f, S)) /\ Adds(f, T, Adder(f, T))
  BY <1>1, AdderExists
<1>3. Adder(f, S)[S] = f[Pick(S)] + Adder(f, S)[T]
  BY <1>2 DEF Adds
<1>4. Adds(f, T, [s \in SUBSET T |-> Adder(f, S)[s]])
  BY <1>2, AdderOnSubset
<1>5. [s \in SUBSET T |-> Adder(f, S)[s]] = Adder(f, T)
  BY <1>1, <1>2, <1>4, AdderUnique
<1>6. Adder(f, S)[T] = Adder(f, T)[T]
  BY <1>5
<1> QED  BY <1>1, <1>3, <1>6, SumIsAdder DEF Sum

(* Integers add up to an integer. *)
LEMMA SumInt ==
    ASSUME NEW f, NEW S, IsFiniteSet(S), \A x \in S : f[x] \in Int
    PROVE  Sum(f, S) \in Int
<1> DEFINE Bad == {U \in SUBSET S : Sum(f, U) \notin Int}
<1>1. ASSUME Bad # {} PROVE FALSE
  <2>1. PICK U \in Bad : \A V \in Bad : V \subseteq U => V = U
    <3>1. Bad \subseteq SUBSET S
      OBVIOUS
    <3> HIDE DEF Bad
    <3> QED  BY <1>1, <3>1, Smallest
  <2>2. U # {}
    BY <2>1, SumEmpty
  <2>3. IsFiniteSet(U)
    BY <2>1, FS_Subset
  <2>4. Pick(U) \in U /\ Sum(f, U) = f[Pick(U)] + Sum(f, U \ {Pick(U)})
    BY <2>2, <2>3, SumTake
  <2>5. U \ {Pick(U)} \in SUBSET S /\ U \ {Pick(U)} # U
    BY <2>4
  <2>6. Sum(f, U \ {Pick(U)}) \in Int
    BY <2>1, <2>5
  <2> QED  BY <2>1, <2>4, <2>6
<1> QED  BY <1>1

(* It does not matter which element is taken out first. *)
LEMMA SumRemove ==
    ASSUME NEW f, NEW S, IsFiniteSet(S), \A x \in S : f[x] \in Int
    PROVE  \A x \in S : Sum(f, S) = f[x] + Sum(f, S \ {x})
<1> DEFINE Any(U) == \A x \in U : Sum(f, U) = f[x] + Sum(f, U \ {x})
           Bad == {U \in SUBSET S : ~ Any(U)}
<1>1. ASSUME Bad # {} PROVE FALSE
  <2>1. PICK U \in Bad : \A V \in Bad : V \subseteq U => V = U
    <3>1. Bad \subseteq SUBSET S
      OBVIOUS
    <3> HIDE DEF Bad
    <3> QED  BY <1>1, <3>1, Smallest
  <2>2. U \subseteq S /\ IsFiniteSet(U)
    BY <2>1, FS_Subset
  <2>3. PICK x \in U : Sum(f, U) # f[x] + Sum(f, U \ {x})
    BY <2>1
  <2>4. PICK y \in U : Sum(f, U) = f[y] + Sum(f, U \ {y})
    BY <2>2, <2>3, SumTake
  <2>5. x # y
    BY <2>3, <2>4
  <2>6. Any(U \ {x}) /\ Any(U \ {y})
    BY <2>1, <2>2
  <2>7. PICK n : n = Sum(f, (U \ {x}) \ {y})
    OBVIOUS
  <2>8. (U \ {y}) \ {x} = (U \ {x}) \ {y}
    OBVIOUS
  <2>9. Sum(f, U \ {x}) = f[y] + n /\ Sum(f, U \ {y}) = f[x] + n
    BY <2>5, <2>6, <2>7, <2>8
  <2>10. n \in Int
    <3>1. (U \ {x}) \ {y} \subseteq S /\ IsFiniteSet((U \ {x}) \ {y})
      BY <2>2, FS_Subset
    <3> QED  BY <2>7, <3>1, SumInt
  <2>11. f[x] \in Int /\ f[y] \in Int
    BY <2>2
  <2>12. f[x] + (f[y] + n) = f[y] + (f[x] + n)
    BY <2>10, <2>11
  <2> QED  BY <2>3, <2>4, <2>9, <2>12
<1>2. S \in SUBSET S
  OBVIOUS
<1> QED  BY <1>1, <1>2

(* One element more. *)
LEMMA SumAdd ==
    ASSUME NEW f, NEW S, IsFiniteSet(S), NEW x, x \notin S,
           f[x] \in Int, \A y \in S : f[y] \in Int
    PROVE  Sum(f, S \cup {x}) = f[x] + Sum(f, S)
<1>1. IsFiniteSet(S \cup {x}) /\ \A y \in S \cup {x} : f[y] \in Int
  BY FS_AddElement
<1>2. Sum(f, S \cup {x}) = f[x] + Sum(f, (S \cup {x}) \ {x})
  BY <1>1, SumRemove
<1>3. (S \cup {x}) \ {x} = S
  OBVIOUS
<1> QED  BY <1>2, <1>3

(* Two sets with nothing in common add up to what each adds up to. *)
LEMMA SumUnion ==
    ASSUME NEW f, NEW S, NEW T, IsFiniteSet(S), IsFiniteSet(T), S \cap T = {},
           \A x \in S \cup T : f[x] \in Int
    PROVE  Sum(f, S \cup T) = Sum(f, S) + Sum(f, T)
<1> DEFINE Bad == {U \in SUBSET T : Sum(f, S \cup U) # Sum(f, S) + Sum(f, U)}
<1>1. ASSUME Bad # {} PROVE FALSE
  <2>1. PICK U \in Bad : \A V \in Bad : V \subseteq U => V = U
    <3>1. Bad \subseteq SUBSET T
      OBVIOUS
    <3> HIDE DEF Bad
    <3> QED  BY <1>1, <3>1, Smallest
  <2>2. U \subseteq T /\ IsFiniteSet(U) /\ Sum(f, S \cup U) # Sum(f, S) + Sum(f, U)
    BY <2>1, FS_Subset
  <2>3. Sum(f, S) \in Int
    BY SumInt
  <2>4. CASE U = {}
    BY <2>2, <2>3, <2>4, SumEmpty
  <2>5. CASE U # {}
    <3>1. PICK x : x \in U
      BY <2>5
    <3> DEFINE V == U \ {x}
    <3>2. V \in SUBSET T /\ V # U /\ V \subseteq U /\ IsFiniteSet(V)
      BY <2>2, <3>1, FS_Subset
    <3>3. Sum(f, S \cup V) = Sum(f, S) + Sum(f, V)
      BY <2>1, <3>2
    <3>4. /\ IsFiniteSet(S \cup V) /\ x \notin S \cup V /\ f[x] \in Int
          /\ \A y \in S \cup V : f[y] \in Int
      BY <2>2, <3>1, <3>2, FS_Union
    <3>5. (S \cup V) \cup {x} = S \cup U /\ V \cup {x} = U
      BY <3>1
    <3>6. Sum(f, S \cup U) = f[x] + (Sum(f, S) + Sum(f, V))
      <4>1. Sum(f, (S \cup V) \cup {x}) = f[x] + Sum(f, S \cup V)
        BY <3>4, SumAdd
      <4> QED  BY <4>1, <3>3, <3>5
    <3>7. Sum(f, U) = f[x] + Sum(f, V)
      BY <3>2, <3>4, <3>5, SumAdd
    <3>8. Sum(f, V) \in Int
      BY <3>2, <3>4, SumInt
    <3>9. f[x] + (Sum(f, S) + Sum(f, V)) = Sum(f, S) + (f[x] + Sum(f, V))
      BY <2>3, <3>4, <3>8
    <3> QED  BY <2>2, <3>6, <3>7, <3>9
  <2> QED  BY <2>4, <2>5
<1>2. T \in SUBSET T
  OBVIOUS
<1> QED  BY <1>1, <1>2

(* Amounts that are never negative add up to one, and more of them to no   *)
(* less.                                                                   *)
LEMMA SumNat ==
    ASSUME NEW f, NEW S, IsFiniteSet(S), \A x \in S : f[x] \in Nat
    PROVE  Sum(f, S) \in Nat
<1> DEFINE Bad == {U \in SUBSET S : Sum(f, U) \notin Nat}
<1>1. ASSUME Bad # {} PROVE FALSE
  <2>1. PICK U \in Bad : \A V \in Bad : V \subseteq U => V = U
    <3>1. Bad \subseteq SUBSET S
      OBVIOUS
    <3> HIDE DEF Bad
    <3> QED  BY <1>1, <3>1, Smallest
  <2>2. U # {}
    <3>1. Sum(f, U) # 0
      BY <2>1
    <3> QED  BY <3>1, SumEmpty
  <2>3. IsFiniteSet(U)
    BY <2>1, FS_Subset
  <2>4. Pick(U) \in U /\ Sum(f, U) = f[Pick(U)] + Sum(f, U \ {Pick(U)})
    BY <2>2, <2>3, SumTake
  <2>5. Sum(f, U \ {Pick(U)}) \in Nat /\ f[Pick(U)] \in Nat
    BY <2>1, <2>4
  <2> QED  BY <2>1, <2>4, <2>5
<1>2. S \in SUBSET S
  OBVIOUS
<1> QED  BY <1>1, <1>2

(* Amounts that agree on a set add up to the same. *)
LEMMA SumSame ==
    ASSUME NEW f, NEW g, NEW S, IsFiniteSet(S), \A x \in S : f[x] = g[x]
    PROVE  Sum(f, S) = Sum(g, S)
<1> DEFINE Bad == {U \in SUBSET S : Sum(f, U) # Sum(g, U)}
<1>1. ASSUME Bad # {} PROVE FALSE
  <2>1. PICK U \in Bad : \A V \in Bad : V \subseteq U => V = U
    <3>1. Bad \subseteq SUBSET S
      OBVIOUS
    <3> HIDE DEF Bad
    <3> QED  BY <1>1, <3>1, Smallest
  <2>2. U # {}
    BY <2>1, SumEmpty
  <2>3. IsFiniteSet(U)
    BY <2>1, FS_Subset
  <2>4. /\ Pick(U) \in U
        /\ Sum(f, U) = f[Pick(U)] + Sum(f, U \ {Pick(U)})
        /\ Sum(g, U) = g[Pick(U)] + Sum(g, U \ {Pick(U)})
    BY <2>2, <2>3, SumTake
  <2>5. Sum(f, U \ {Pick(U)}) = Sum(g, U \ {Pick(U)})
    BY <2>1, <2>4
  <2> QED  BY <2>1, <2>4, <2>5
<1>2. S \in SUBSET S
  OBVIOUS
<1> QED  BY <1>1, <1>2

(* At most one each from the members of J, nothing from the others. *)
LEMMA SumOnes ==
    ASSUME NEW f, NEW S, IsFiniteSet(S), NEW J,
           \A x \in S : f[x] \in Nat,
           \A x \in S : f[x] <= IF x \in J THEN 1 ELSE 0
    PROVE  Sum(f, S) <= Cardinality(S \cap J)
<1> DEFINE Bad == {U \in SUBSET S : ~ (Sum(f, U) <= Cardinality(U \cap J))}
<1>1. ASSUME Bad # {} PROVE FALSE
  <2>1. PICK U \in Bad : \A V \in Bad : V \subseteq U => V = U
    <3>1. Bad \subseteq SUBSET S
      OBVIOUS
    <3> HIDE DEF Bad
    <3> QED  BY <1>1, <3>1, Smallest
  <2>2. U # {}
    <3>1. {} \cap J = {}
      OBVIOUS
    <3>2. Sum(f, {}) = 0 /\ Cardinality({} \cap J) = 0
      BY <3>1, SumEmpty, FS_EmptySet
    <3>3. Sum(f, {}) <= Cardinality({} \cap J)
      BY <3>2
    <3> QED  BY <2>1, <3>3
  <2>3. U \subseteq S /\ IsFiniteSet(U)
    BY <2>1, FS_Subset
  <2>4. PICK x \in U : IsFiniteSet(U \ {x}) /\ Sum(f, U) = f[x] + Sum(f, U \ {x})
    BY <2>2, <2>3, SumTake
  <2> DEFINE V == U \ {x}
  <2>5. V \in SUBSET S /\ V # U /\ V \subseteq U
    BY <2>3, <2>4
  <2>6. Sum(f, V) <= Cardinality(V \cap J)
    BY <2>1, <2>5
  <2>7. Sum(f, V) \in Nat
    BY <2>4, <2>5, SumNat
  <2>8. IsFiniteSet(V \cap J) /\ Cardinality(V \cap J) \in Nat
    BY <2>4, FS_Intersection, FS_CardinalityType
  <2>9. CASE x \in J
    <3>1. U \cap J = (V \cap J) \cup {x} /\ x \notin V \cap J
      BY <2>4, <2>9
    <3>2. Cardinality(U \cap J) = Cardinality(V \cap J) + 1
      BY <2>8, <3>1, FS_AddElement
    <3>3. f[x] \in Nat /\ f[x] <= 1
      BY <2>3, <2>9
    <3> QED  BY <2>1, <2>4, <2>6, <2>7, <2>8, <3>2, <3>3
  <2>10. CASE x \notin J
    <3>1. U \cap J = V \cap J
      BY <2>10
    <3>2. f[x] = 0
      BY <2>3, <2>10
    <3> QED  BY <2>1, <2>4, <2>6, <2>7, <3>1, <3>2
  <2> QED  BY <2>9, <2>10
<1>2. S \in SUBSET S
  OBVIOUS
<1> QED  BY <1>1, <1>2

(* The sum of two functions' values is the sum of their sums. *)
LEMMA SumPlus ==
    ASSUME NEW f, NEW g, NEW h, NEW S, IsFiniteSet(S),
           \A x \in S : f[x] \in Int /\ g[x] \in Int,
           \A x \in S : h[x] = f[x] + g[x]
    PROVE  Sum(h, S) = Sum(f, S) + Sum(g, S)
<1> DEFINE Bad == {U \in SUBSET S : Sum(h, U) # Sum(f, U) + Sum(g, U)}
<1>1. ASSUME Bad # {} PROVE FALSE
  <2>1. PICK U \in Bad : \A V \in Bad : V \subseteq U => V = U
    <3>1. Bad \subseteq SUBSET S
      OBVIOUS
    <3> HIDE DEF Bad
    <3> QED  BY <1>1, <3>1, Smallest
  <2>2. U # {}
    <3>1. Sum(f, {}) = 0 /\ Sum(g, {}) = 0 /\ Sum(h, {}) = 0
      BY SumEmpty
    <3>2. Sum(h, {}) = Sum(f, {}) + Sum(g, {})
      BY <3>1
    <3> QED  BY <2>1, <3>2
  <2>3. U \subseteq S /\ IsFiniteSet(U)
    BY <2>1, FS_Subset
  <2>4. PICK x : x \in U
    BY <2>2
  <2> DEFINE V == U \ {x}
  <2>5. V \in SUBSET S /\ V # U /\ V \subseteq U /\ IsFiniteSet(V)
    BY <2>3, <2>4, FS_Subset
  <2>6. Sum(h, V) = Sum(f, V) + Sum(g, V)
    BY <2>1, <2>5
  <2>7. \A y \in S : h[y] \in Int
    OBVIOUS
  <2>8. Sum(f, V) \in Int /\ Sum(g, V) \in Int
    BY <2>5, SumInt
  <2>9. /\ Sum(f, U) = f[x] + Sum(f, V)
        /\ Sum(g, U) = g[x] + Sum(g, V)
        /\ Sum(h, U) = h[x] + Sum(h, V)
    <3>1. /\ \A y \in U : f[y] \in Int
          /\ \A y \in U : g[y] \in Int
          /\ \A y \in U : h[y] \in Int
      BY <2>3, <2>7
    <3> QED  BY <2>3, <2>4, <3>1, SumRemove
  <2>10. f[x] \in Int /\ g[x] \in Int /\ h[x] = f[x] + g[x]
    BY <2>3, <2>4
  <2> QED  BY <2>1, <2>6, <2>8, <2>9, <2>10
<1>2. S \in SUBSET S
  OBVIOUS
<1> QED  BY <1>1, <1>2

(* A change at one place changes the sum by as much. *)
LEMMA SumChange ==
    ASSUME NEW f, NEW g, NEW S, IsFiniteSet(S), NEW x \in S,
           \A y \in S : f[y] \in Int /\ g[y] \in Int,
           \A y \in S : y # x => f[y] = g[y]
    PROVE  Sum(g, S) = Sum(f, S) + (g[x] - f[x])
<1>1. IsFiniteSet(S \ {x})
  BY FS_RemoveElement
<1>2. Sum(f, S) = f[x] + Sum(f, S \ {x}) /\ Sum(g, S) = g[x] + Sum(g, S \ {x})
  BY SumRemove
<1>3. Sum(f, S \ {x}) = Sum(g, S \ {x})
  BY <1>1, SumSame
<1>4. Sum(f, S \ {x}) \in Int
  BY <1>1, SumInt
<1> QED  BY <1>2, <1>3, <1>4

(* Nothing adds up to nothing. *)
LEMMA SumZero ==
    ASSUME NEW f, NEW S, IsFiniteSet(S), \A x \in S : f[x] = 0
    PROVE  Sum(f, S) = 0
<1>1. \A x \in S : f[x] \in Nat /\ f[x] <= IF x \in {} THEN 1 ELSE 0
  OBVIOUS
<1>2. S \cap {} = {}
  OBVIOUS
<1>3. Cardinality(S \cap {}) = 0
  BY <1>2, FS_EmptySet
<1>4. Sum(f, S) <= Cardinality(S \cap {})
  BY <1>1, SumOnes
<1>5. Sum(f, S) \in Nat
  BY <1>1, SumNat
<1> QED  BY <1>3, <1>4, <1>5

(* Zeros add nothing: a sum over S of what is in T is the sum over T. *)
LEMMA SumWhere ==
    ASSUME NEW f, NEW S, IsFiniteSet(S), NEW T \in SUBSET S,
           \A y \in S : f[y] \in Int
    PROVE  Sum([y \in S |-> IF y \in T THEN f[y] ELSE 0], S) = Sum(f, T)
<1> DEFINE g == [y \in S |-> IF y \in T THEN f[y] ELSE 0]
           Z == S \ T
<1>1. IsFiniteSet(T) /\ IsFiniteSet(Z)
  BY FS_Subset, FS_Difference
<1>2. T \cup Z = S /\ T \cap Z = {}
  OBVIOUS
<1>3. \A y \in S : g[y] \in Int
  OBVIOUS
<1>4. Sum(g, S) = Sum(g, T) + Sum(g, Z)
  <2> HIDE DEF g, Z
  <2> QED  BY <1>1, <1>2, <1>3, SumUnion
<1>5. Sum(g, T) = Sum(f, T)
  <2>1. \A y \in T : g[y] = f[y]
    OBVIOUS
  <2> HIDE DEF g
  <2> QED  BY <1>1, <2>1, SumSame
<1>6. Sum(g, Z) = 0
  <2>1. \A y \in Z : g[y] = 0
    OBVIOUS
  <2> HIDE DEF g, Z
  <2> QED  BY <1>1, <2>1, SumZero
<1>7. Sum(f, T) \in Int
  BY <1>1, SumInt
<1>8. Sum(g, S) = Sum(f, T)
  <2> HIDE DEF g, Z
  <2> QED  BY <1>4, <1>5, <1>6, <1>7
<1> QED  BY <1>8
===============================================================================
