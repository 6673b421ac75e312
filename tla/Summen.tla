------------------------------- MODULE Summen -------------------------------
(***************************************************************************)
(* Lemmas about sums over finite sets, SumFunctionOnSet of the community   *)
(* modules: the quantities of a set of orders, the stakes of all users.    *)
(*                                                                         *)
(* The sum is defined by a recursive function that takes one element       *)
(* after the other out of the set.  That there is such a function, and     *)
(* what it computes, is shown with smallest counterexamples: among sets    *)
(* for which a claim fails there is one without a smaller such set.        *)
(***************************************************************************)
EXTENDS Integers, FiniteSets, Functions, FiniteSetTheorems, WellFoundedInduction, TLAPS

(* Among subsets of a finite set there is one that has none of the others  *)
(* as a part.                                                              *)
LEMMA KleinsteMenge ==
    ASSUME NEW S, IsFiniteSet(S), NEW M \in SUBSET SUBSET S, M # {}
    PROVE  \E u \in M : \A v \in M : v \subseteq u => v = u
<1>1. IsWellFoundedOn(StrictSubsetOrdering(S), FiniteSubsetsOf(S))
  BY FS_StrictSubsetOrderingWellFounded
<1>2. FiniteSubsetsOf(S) = SUBSET S
  BY FS_FiniteSubsetsOfFinite
<1>3. PICK u \in M : \A v \in M : ~(<<v, u>> \in StrictSubsetOrdering(S))
  BY <1>1, <1>2, WFMin
<1> QED BY <1>3 DEF StrictSubsetOrdering

(* Among the numbers of a bounded set there is a smallest one.             *)
LEMMA KleinsteZahl ==
    ASSUME NEW n \in Nat, NEW K \in SUBSET (0 .. n), K # {}
    PROVE  \E k \in K : \A m \in K : k <= m
<1> DEFINE S == 1 .. n
           M == {T \in SUBSET S : \E k \in K : T = 1 .. k}
<1>1. \A k \in K : 1 .. k \in M
  <2> SUFFICES ASSUME NEW k \in K PROVE 1 .. k \in M
    OBVIOUS
  <2>1. k \in 0 .. n
    OBVIOUS
  <2>2. 1 .. k \subseteq S
    BY <2>1
  <2> QED BY <2>2
<1>2. \A T \in M : \E k \in K : T = 1 .. k
  OBVIOUS
<1>3. IsFiniteSet(S) /\ M \in SUBSET SUBSET S
  <2>1. IsFiniteSet(1 .. n)
    BY FS_Interval
  <2> QED BY <2>1
<1> HIDE DEF M, S
<1>4. PICK T \in M : \A v \in M : v \subseteq T => v = T
  <2>1. M # {}
    BY <1>1
  <2> QED BY <1>3, <2>1, KleinsteMenge
<1>5. PICK k \in K : T = 1 .. k
  BY <1>2
<1>6. ASSUME NEW m \in K PROVE k <= m
  <2>1. k \in 0 .. n /\ m \in 0 .. n
    OBVIOUS
  <2>2. ASSUME m < k PROVE FALSE
    <3>1. k \in 1 .. k /\ k \notin 1 .. m /\ 1 .. m \subseteq 1 .. k
      BY <2>1, <2>2
    <3>2. 1 .. m \in M
      BY <1>1
    <3> QED BY <1>4, <1>5, <3>1, <3>2
  <2> QED BY <2>1, <2>2
<1> QED BY <1>6
-----------------------------------------------------------------------------
(* The element the sum takes out of s next.                                *)
Wahl(s) == CHOOSE x \in s : TRUE

(* g adds up f over every subset of S.                                     *)
Summiert(g, f, S) ==
    g = [s \in SUBSET S |-> IF s = {} THEN 0 ELSE f[Wahl(s)] + g[s \ {Wahl(s)}]]

LEMMA WahlIstElement == ASSUME NEW s, s # {} PROVE Wahl(s) \in s
BY DEF Wahl

(* Two functions that add up f agree on every set both are defined on.     *)
LEMMA SummiertEindeutig ==
    ASSUME NEW f, NEW S, NEW T, IsFiniteSet(S), NEW g, NEW h,
           Summiert(g, f, S), Summiert(h, f, T), NEW u, u \subseteq S, u \subseteq T
    PROVE  g[u] = h[u]
<1> DEFINE M == {s \in SUBSET S : s \subseteq T /\ g[s] # h[s]}
<1>1. SUFFICES ASSUME M # {} PROVE FALSE
  OBVIOUS
<1>2. PICK s \in M : \A v \in M : v \subseteq s => v = s
  <2> HIDE DEF M
  <2>1. M \in SUBSET SUBSET S
    BY DEF M
  <2> QED BY <1>1, <2>1, KleinsteMenge
<1>3. s \subseteq S /\ s \subseteq T /\ g[s] # h[s]
  OBVIOUS
<1>4. s # {}
  BY <1>3 DEF Summiert
<1>5. Wahl(s) \in s
  BY <1>4, WahlIstElement
<1>6. s \ {Wahl(s)} \notin M
  BY <1>2, <1>5
<1>7. g[s \ {Wahl(s)}] = h[s \ {Wahl(s)}]
  BY <1>3, <1>6
<1>8. g[s] = f[Wahl(s)] + g[s \ {Wahl(s)}]
  BY <1>3, <1>4 DEF Summiert
<1>9. h[s] = f[Wahl(s)] + h[s \ {Wahl(s)}]
  BY <1>3, <1>4 DEF Summiert
<1> QED BY <1>3, <1>7, <1>8, <1>9

(* A function that adds up f over S does so over every part of S.          *)
LEMMA SummiertTeil ==
    ASSUME NEW f, NEW S, NEW T \in SUBSET S, NEW g, Summiert(g, f, S)
    PROVE  Summiert([s \in SUBSET T |-> g[s]], f, T)
<1> DEFINE h == [s \in SUBSET T |-> g[s]]
<1>1. ASSUME NEW s \in SUBSET T
      PROVE  h[s] = IF s = {} THEN 0 ELSE f[Wahl(s)] + h[s \ {Wahl(s)}]
  <2>1. g[s] = IF s = {} THEN 0 ELSE f[Wahl(s)] + g[s \ {Wahl(s)}]
    BY DEF Summiert
  <2>2. s \ {Wahl(s)} \in SUBSET T
    OBVIOUS
  <2> QED BY <2>1, <2>2
<1> QED BY <1>1 DEF Summiert

(* There is a function that adds up f over S.                              *)
LEMMA SummiertMoeglich ==
    ASSUME NEW f, NEW S, IsFiniteSet(S)
    PROVE  \E g : Summiert(g, f, S)
<1> DEFINE M == {T \in SUBSET S : ~ \E g : Summiert(g, f, T)}
<1>1. SUFFICES ASSUME M # {} PROVE FALSE
  OBVIOUS
<1>2. PICK T \in M : \A v \in M : v \subseteq T => v = T
  <2> HIDE DEF M
  <2>1. M \in SUBSET SUBSET S
    BY DEF M
  <2> QED BY <1>1, <2>1, KleinsteMenge
<1>3. T \subseteq S /\ ~ \E g : Summiert(g, f, T)
  OBVIOUS
<1>4. \A U \in SUBSET T : U # T => \E g : Summiert(g, f, U)
  BY <1>2, <1>3
<1> DEFINE G(U) == CHOOSE g : Summiert(g, f, U)
           h == [s \in SUBSET T |->
                   IF s = {} THEN 0 ELSE f[Wahl(s)] + G(s \ {Wahl(s)})[s \ {Wahl(s)}]]
<1>5. \A U \in SUBSET T : U # T => Summiert(G(U), f, U)
  BY <1>4
<1> HIDE DEF M
<1>6. ASSUME NEW s \in SUBSET T
      PROVE  h[s] = IF s = {} THEN 0 ELSE f[Wahl(s)] + h[s \ {Wahl(s)}]
  <2>1. CASE s = {}
    BY <2>1
  <2>2. CASE s # {}
    <3> DEFINE u == s \ {Wahl(s)}
    <3>1. Wahl(s) \in s /\ u \in SUBSET T /\ u # T
      BY <2>2, WahlIstElement
    <3>2. h[s] = f[Wahl(s)] + G(u)[u]
      BY <2>2
    <3>3. Summiert(G(u), f, u)
      BY <1>5, <3>1
    <3>4. h[u] = G(u)[u]
      <4> HIDE DEF G, u
      <4>1. G(u)[u] = IF u = {} THEN 0 ELSE f[Wahl(u)] + G(u)[u \ {Wahl(u)}]
        BY <3>3 DEF Summiert
      <4>2. h[u] = IF u = {} THEN 0 ELSE f[Wahl(u)] + G(u \ {Wahl(u)})[u \ {Wahl(u)}]
        BY <3>1
      <4>3. CASE u = {}
        BY <4>1, <4>2, <4>3
      <4>4. CASE u # {}
        <5> DEFINE w == u \ {Wahl(u)}
        <5>1. Wahl(u) \in u /\ w \in SUBSET T /\ w # T
          BY <3>1, <4>4, WahlIstElement
        <5>2. Summiert(G(w), f, w)
          BY <1>5, <5>1
        <5>3. IsFiniteSet(u)
          BY <1>3, <3>1, FS_Subset
        <5>4. G(u)[w] = G(w)[w]
          <6> HIDE DEF w
          <6>1. w \subseteq u
            BY DEF w
          <6> QED BY <3>3, <5>2, <5>3, <6>1, SummiertEindeutig
        <5> QED BY <4>1, <4>2, <4>4, <5>4
      <4> QED BY <4>3, <4>4
    <3> QED BY <2>2, <3>2, <3>4
  <2> QED BY <2>1, <2>2
<1>7. Summiert(h, f, T)
  <2>1. h = [s \in SUBSET T |-> h[s]]
    OBVIOUS
  <2> HIDE DEF h
  <2> QED BY <1>6, <2>1 DEF Summiert
<1> QED BY <1>3, <1>7
-----------------------------------------------------------------------------
(* The sum is what such a function says.                                   *)
LEMMA SummeIst ==
    ASSUME NEW f, NEW S, IsFiniteSet(S), NEW g, Summiert(g, f, S)
    PROVE  SumFunctionOnSet(f, S) = g[S]
<1> DEFINE iter == CHOOSE h : Summiert(h, f, S)
<1>1. Summiert(iter, f, S)
  OBVIOUS
<1>2. SumFunctionOnSet(f, S) = iter[S]
  BY DEF SumFunctionOnSet, FoldFunctionOnSet, MapThenFoldSet, Summiert, Wahl
<1> HIDE DEF iter
<1> QED BY <1>1, <1>2, SummiertEindeutig

(* Nothing adds up to nothing.                                             *)
LEMMA SummeLeer == ASSUME NEW f PROVE SumFunctionOnSet(f, {}) = 0
<1>1. IsFiniteSet({})
  BY FS_EmptySet
<1>2. PICK g : Summiert(g, f, {})
  BY <1>1, SummiertMoeglich
<1>3. g[{}] = 0
  BY <1>2 DEF Summiert
<1> QED BY <1>1, <1>2, <1>3, SummeIst

(* The recursion of the definition.                                        *)
LEMMA SummeWahl ==
    ASSUME NEW f, NEW S, IsFiniteSet(S), S # {}
    PROVE  SumFunctionOnSet(f, S) = f[Wahl(S)] + SumFunctionOnSet(f, S \ {Wahl(S)})
<1> DEFINE T == S \ {Wahl(S)}
<1>1. PICK g : Summiert(g, f, S)
  BY SummiertMoeglich
<1>2. T \in SUBSET S /\ IsFiniteSet(T)
  BY FS_Subset
<1>3. Summiert([s \in SUBSET T |-> g[s]], f, T)
  <2> HIDE DEF T
  <2> QED BY <1>1, <1>2, SummiertTeil
<1>4. SumFunctionOnSet(f, T) = g[T]
  <2> HIDE DEF T
  <2>1. SumFunctionOnSet(f, T) = [s \in SUBSET T |-> g[s]][T]
    BY <1>2, <1>3, SummeIst
  <2> QED BY <2>1
<1>5. g[S] = f[Wahl(S)] + g[T]
  BY <1>1 DEF Summiert
<1>6. SumFunctionOnSet(f, S) = g[S]
  BY <1>1, SummeIst
<1> QED BY <1>4, <1>5, <1>6

(* A sum of integers is an integer.                                        *)
LEMMA SummeInt ==
    ASSUME NEW f, NEW S, IsFiniteSet(S), \A x \in S : f[x] \in Int
    PROVE  SumFunctionOnSet(f, S) \in Int
<1> DEFINE M == {T \in SUBSET S : SumFunctionOnSet(f, T) \notin Int}
<1>1. SUFFICES ASSUME M # {} PROVE FALSE
  OBVIOUS
<1>2. PICK T \in M : \A v \in M : v \subseteq T => v = T
  <2> HIDE DEF M
  <2>1. M \in SUBSET SUBSET S
    BY DEF M
  <2> QED BY <1>1, <2>1, KleinsteMenge
<1>3. T \subseteq S /\ SumFunctionOnSet(f, T) \notin Int /\ IsFiniteSet(T)
  BY FS_Subset
<1>4. T # {}
  BY <1>3, SummeLeer
<1>5. Wahl(T) \in T /\ T \ {Wahl(T)} \notin M
  BY <1>2, <1>4, WahlIstElement
<1>6. SumFunctionOnSet(f, T) = f[Wahl(T)] + SumFunctionOnSet(f, T \ {Wahl(T)})
  BY <1>3, <1>4, SummeWahl
<1>7. SumFunctionOnSet(f, T \ {Wahl(T)}) \in Int /\ f[Wahl(T)] \in Int
  BY <1>3, <1>5
<1> QED BY <1>3, <1>6, <1>7

(* A sum of natural numbers is a natural number.                           *)
LEMMA SummeNat ==
    ASSUME NEW f, NEW S, IsFiniteSet(S), \A x \in S : f[x] \in Nat
    PROVE  SumFunctionOnSet(f, S) \in Nat
<1> DEFINE M == {T \in SUBSET S : SumFunctionOnSet(f, T) \notin Nat}
<1>1. SUFFICES ASSUME M # {} PROVE FALSE
  OBVIOUS
<1>2. PICK T \in M : \A v \in M : v \subseteq T => v = T
  <2> HIDE DEF M
  <2>1. M \in SUBSET SUBSET S
    BY DEF M
  <2> QED BY <1>1, <2>1, KleinsteMenge
<1>3. T \subseteq S /\ SumFunctionOnSet(f, T) \notin Nat /\ IsFiniteSet(T)
  BY FS_Subset
<1>4. T # {}
  BY <1>3, SummeLeer
<1>5. Wahl(T) \in T /\ T \ {Wahl(T)} \notin M
  BY <1>2, <1>4, WahlIstElement
<1>6. SumFunctionOnSet(f, T) = f[Wahl(T)] + SumFunctionOnSet(f, T \ {Wahl(T)})
  BY <1>3, <1>4, SummeWahl
<1>7. SumFunctionOnSet(f, T \ {Wahl(T)}) \in Nat /\ f[Wahl(T)] \in Nat
  BY <1>3, <1>5
<1> QED BY <1>3, <1>6, <1>7

(* Zeros add up to zero.                                                   *)
LEMMA SummeNull ==
    ASSUME NEW f, NEW S, IsFiniteSet(S), \A x \in S : f[x] = 0
    PROVE  SumFunctionOnSet(f, S) = 0
<1> DEFINE M == {T \in SUBSET S : SumFunctionOnSet(f, T) # 0}
<1>1. SUFFICES ASSUME M # {} PROVE FALSE
  OBVIOUS
<1>2. PICK T \in M : \A v \in M : v \subseteq T => v = T
  <2> HIDE DEF M
  <2>1. M \in SUBSET SUBSET S
    BY DEF M
  <2> QED BY <1>1, <2>1, KleinsteMenge
<1>3. T \subseteq S /\ SumFunctionOnSet(f, T) # 0 /\ IsFiniteSet(T)
  BY FS_Subset
<1>4. T # {}
  BY <1>3, SummeLeer
<1>5. Wahl(T) \in T /\ T \ {Wahl(T)} \notin M
  BY <1>2, <1>4, WahlIstElement
<1>6. SumFunctionOnSet(f, T) = f[Wahl(T)] + SumFunctionOnSet(f, T \ {Wahl(T)})
  BY <1>3, <1>4, SummeWahl
<1>7. SumFunctionOnSet(f, T \ {Wahl(T)}) = 0 /\ f[Wahl(T)] = 0
  BY <1>3, <1>5
<1> QED BY <1>3, <1>6, <1>7

(* Whatever element is taken out first, the sum is the same.               *)
LEMMA SummeOhne ==
    ASSUME NEW f, NEW S, IsFiniteSet(S), \A x \in S : f[x] \in Int, NEW x \in S
    PROVE  SumFunctionOnSet(f, S) = f[x] + SumFunctionOnSet(f, S \ {x})
<1> DEFINE M == {T \in SUBSET S : ~ \A y \in T :
                    SumFunctionOnSet(f, T) = f[y] + SumFunctionOnSet(f, T \ {y})}
<1>1. SUFFICES ASSUME M # {} PROVE FALSE
  OBVIOUS
<1>2. PICK T \in M : \A v \in M : v \subseteq T => v = T
  <2> HIDE DEF M
  <2>1. M \in SUBSET SUBSET S
    BY DEF M
  <2> QED BY <1>1, <2>1, KleinsteMenge
<1>3. T \subseteq S /\ IsFiniteSet(T)
  BY FS_Subset
<1>4. PICK y \in T : SumFunctionOnSet(f, T) # f[y] + SumFunctionOnSet(f, T \ {y})
  OBVIOUS
<1> DEFINE w == Wahl(T)
<1>5. w \in T
  BY <1>4, WahlIstElement
<1>6. SumFunctionOnSet(f, T) = f[w] + SumFunctionOnSet(f, T \ {w})
  BY <1>3, <1>4, SummeWahl
<1>7. y # w
  BY <1>4, <1>6
<1>8. ASSUME NEW a \in T, NEW b \in T, a # b
      PROVE  SumFunctionOnSet(f, T \ {a}) = f[b] + SumFunctionOnSet(f, (T \ {a}) \ {b})
  <2>1. T \ {a} \notin M
    BY <1>2
  <2> QED BY <1>3, <1>8, <2>1
<1>9. (T \ {w}) \ {y} = (T \ {y}) \ {w}
  OBVIOUS
<1>10. SumFunctionOnSet(f, T \ {w}) = f[y] + SumFunctionOnSet(f, (T \ {w}) \ {y})
  BY <1>4, <1>5, <1>7, <1>8
<1>11. SumFunctionOnSet(f, T \ {y}) = f[w] + SumFunctionOnSet(f, (T \ {w}) \ {y})
  BY <1>4, <1>5, <1>7, <1>8, <1>9
<1>12. f[w] \in Int /\ f[y] \in Int /\ SumFunctionOnSet(f, (T \ {w}) \ {y}) \in Int
  <2>1. IsFiniteSet((T \ {w}) \ {y}) /\ \A z \in (T \ {w}) \ {y} : f[z] \in Int
    BY <1>3, FS_Subset
  <2> HIDE DEF w
  <2> QED BY <1>3, <1>4, <1>5, <2>1, SummeInt
<1> HIDE DEF w
<1> QED BY <1>4, <1>6, <1>10, <1>11, <1>12

(* A new element adds its value.                                           *)
LEMMA SummeMit ==
    ASSUME NEW f, NEW S, IsFiniteSet(S), \A x \in S : f[x] \in Int,
           NEW y, y \notin S, f[y] \in Int
    PROVE  SumFunctionOnSet(f, S \cup {y}) = f[y] + SumFunctionOnSet(f, S)
<1> DEFINE T == S \cup {y}
<1>1. IsFiniteSet(T) /\ y \in T /\ \A x \in T : f[x] \in Int
  BY FS_AddElement
<1>2. T \ {y} = S
  OBVIOUS
<1> HIDE DEF T
<1>3. SumFunctionOnSet(f, T) = f[y] + SumFunctionOnSet(f, T \ {y})
  BY <1>1, SummeOhne
<1> QED BY <1>2, <1>3 DEF T

(* The sum depends on nothing but the values on its set.                   *)
LEMMA SummeGleich ==
    ASSUME NEW f, NEW h, NEW S, IsFiniteSet(S), \A x \in S : f[x] = h[x]
    PROVE  SumFunctionOnSet(f, S) = SumFunctionOnSet(h, S)
<1>1. PICK g : Summiert(g, f, S)
  BY SummiertMoeglich
<1>2. Summiert(g, h, S)
  <2>1. \A s \in SUBSET S : s # {} => f[Wahl(s)] = h[Wahl(s)]
    BY WahlIstElement
  <2>2. \A s \in SUBSET S : g[s] = IF s = {} THEN 0 ELSE h[Wahl(s)] + g[s \ {Wahl(s)}]
    BY <1>1, <2>1 DEF Summiert
  <2>3. g = [s \in SUBSET S |-> g[s]]
    BY <1>1 DEF Summiert
  <2> QED BY <2>2, <2>3 DEF Summiert
<1> QED BY <1>1, <1>2, SummeIst

(* One value changes, and the sum by as much.                              *)
LEMMA SummeGeaendert ==
    ASSUME NEW f, NEW h, NEW S, IsFiniteSet(S), NEW y \in S,
           \A x \in S : f[x] \in Int /\ h[x] \in Int,
           \A x \in S \ {y} : h[x] = f[x]
    PROVE  SumFunctionOnSet(h, S) = SumFunctionOnSet(f, S) - f[y] + h[y]
<1> DEFINE T == S \ {y}
<1>1. IsFiniteSet(T) /\ \A x \in T : f[x] \in Int /\ h[x] = f[x]
  BY FS_Subset
<1>2. SumFunctionOnSet(f, S) = f[y] + SumFunctionOnSet(f, T)
  BY SummeOhne
<1>3. SumFunctionOnSet(h, S) = h[y] + SumFunctionOnSet(h, T)
  BY SummeOhne
<1> HIDE DEF T
<1>4. SumFunctionOnSet(h, T) = SumFunctionOnSet(f, T)
  BY <1>1, SummeGleich
<1>5. SumFunctionOnSet(f, T) \in Int /\ f[y] \in Int /\ h[y] \in Int
  BY <1>1, SummeInt
<1> QED BY <1>2, <1>3, <1>4, <1>5

(* Disjoint sets add up.                                                   *)
LEMMA SummeVereint ==
    ASSUME NEW f, NEW S, NEW T, IsFiniteSet(S), IsFiniteSet(T), S \cap T = {},
           \A x \in S \cup T : f[x] \in Int
    PROVE  SumFunctionOnSet(f, S \cup T) = SumFunctionOnSet(f, S) + SumFunctionOnSet(f, T)
<1> DEFINE M == {U \in SUBSET T :
                   SumFunctionOnSet(f, S \cup U) # SumFunctionOnSet(f, S) + SumFunctionOnSet(f, U)}
<1>1. SUFFICES ASSUME M # {} PROVE FALSE
  OBVIOUS
<1>2. PICK U \in M : \A v \in M : v \subseteq U => v = U
  <2> HIDE DEF M
  <2>1. M \in SUBSET SUBSET T
    BY DEF M
  <2> QED BY <1>1, <2>1, KleinsteMenge
<1>3. /\ U \subseteq T /\ IsFiniteSet(U)
      /\ SumFunctionOnSet(f, S \cup U) # SumFunctionOnSet(f, S) + SumFunctionOnSet(f, U)
  BY FS_Subset
<1>4. SumFunctionOnSet(f, S) \in Int
  BY SummeInt
<1>5. U # {}
  <2>1. ASSUME U = {} PROVE FALSE
    <3> HIDE DEF M
    <3>1. S \cup U = S /\ SumFunctionOnSet(f, U) = 0
      BY <2>1, SummeLeer
    <3>2. SumFunctionOnSet(f, S \cup U) = SumFunctionOnSet(f, S)
      BY <3>1
    <3> QED BY <1>3, <1>4, <3>1, <3>2
  <2> QED BY <2>1
<1>6. PICK y \in U : TRUE
  BY <1>5
<1> DEFINE V == U \ {y}
<1>7. V \notin M /\ V \in SUBSET T
  BY <1>2, <1>3
<1>8. SumFunctionOnSet(f, S \cup V) = SumFunctionOnSet(f, S) + SumFunctionOnSet(f, V)
  BY <1>7
<1>9. /\ IsFiniteSet(V) /\ IsFiniteSet(S \cup V) /\ S \cup U = (S \cup V) \cup {y}
      /\ y \notin S \cup V /\ U = V \cup {y} /\ y \notin V
  <2>1. IsFiniteSet(V)
    BY <1>3, FS_Subset
  <2>2. IsFiniteSet(S \cup V)
    <3> HIDE DEF V
    <3> QED BY <2>1, FS_Union
  <2> QED BY <1>3, <2>1, <2>2
<1>10. f[y] \in Int /\ (\A x \in V : f[x] \in Int) /\ \A x \in S \cup V : f[x] \in Int
  BY <1>3
<1> HIDE DEF M, V
<1>11. SumFunctionOnSet(f, S \cup U) = f[y] + SumFunctionOnSet(f, S \cup V)
  <2> DEFINE W == S \cup V
  <2>1. IsFiniteSet(W) /\ y \notin W /\ \A x \in W : f[x] \in Int
    BY <1>9, <1>10
  <2> HIDE DEF W
  <2>2. SumFunctionOnSet(f, W \cup {y}) = f[y] + SumFunctionOnSet(f, W)
    BY <1>10, <2>1, SummeMit
  <2> QED BY <1>9, <2>2 DEF W
<1>12. SumFunctionOnSet(f, U) = f[y] + SumFunctionOnSet(f, V)
  BY <1>9, <1>10, SummeMit
<1>13. SumFunctionOnSet(f, V) \in Int
  BY <1>9, <1>10, SummeInt
<1> QED BY <1>3, <1>4, <1>8, <1>10, <1>11, <1>12, <1>13

(* What is left of a sum of natural numbers is no more than the sum.       *)
LEMMA SummeTeil ==
    ASSUME NEW f, NEW S, IsFiniteSet(S), \A x \in S : f[x] \in Nat, NEW T \in SUBSET S
    PROVE  /\ SumFunctionOnSet(f, S) = SumFunctionOnSet(f, T) + SumFunctionOnSet(f, S \ T)
           /\ SumFunctionOnSet(f, T) <= SumFunctionOnSet(f, S)
<1> DEFINE R == S \ T
<1>1. IsFiniteSet(T) /\ IsFiniteSet(R) /\ T \cap R = {} /\ T \cup R = S
  BY FS_Subset
<1>2. (\A x \in T : f[x] \in Nat) /\ (\A x \in R : f[x] \in Nat) /\ \A x \in T \cup R : f[x] \in Int
  OBVIOUS
<1> HIDE DEF R
<1>3. SumFunctionOnSet(f, T \cup R) = SumFunctionOnSet(f, T) + SumFunctionOnSet(f, R)
  BY <1>1, <1>2, SummeVereint
<1>4. SumFunctionOnSet(f, T) \in Nat /\ SumFunctionOnSet(f, R) \in Nat
  BY <1>1, <1>2, SummeNat
<1>5. SumFunctionOnSet(f, S) = SumFunctionOnSet(f, T) + SumFunctionOnSet(f, R)
  BY <1>1, <1>3
<1>6. SumFunctionOnSet(f, T) <= SumFunctionOnSet(f, S)
  BY <1>4, <1>5
<1> QED BY <1>5, <1>6 DEF R

(* The difference of two sums.                                             *)
LEMMA SummeDifferenz ==
    ASSUME NEW S, IsFiniteSet(S), NEW f, NEW g, NEW h,
           \A x \in S : f[x] \in Int /\ g[x] \in Int /\ h[x] = f[x] - g[x]
    PROVE  SumFunctionOnSet(h, S) = SumFunctionOnSet(f, S) - SumFunctionOnSet(g, S)
<1> DEFINE M == {U \in SUBSET S : SumFunctionOnSet(h, U) # SumFunctionOnSet(f, U) - SumFunctionOnSet(g, U)}
<1>1. SUFFICES ASSUME M # {} PROVE FALSE
  OBVIOUS
<1>2. PICK U \in M : \A v \in M : v \subseteq U => v = U
  <2> HIDE DEF M
  <2>1. M \in SUBSET SUBSET S
    BY DEF M
  <2> QED BY <1>1, <2>1, KleinsteMenge
<1>3. /\ U \subseteq S /\ IsFiniteSet(U)
      /\ SumFunctionOnSet(h, U) # SumFunctionOnSet(f, U) - SumFunctionOnSet(g, U)
  BY FS_Subset
<1>4. U # {}
  BY <1>3, SummeLeer
<1>5. PICK y \in U : TRUE
  BY <1>4
<1> DEFINE V == U \ {y}
<1>6. V \notin M /\ V \in SUBSET S
  BY <1>2, <1>3
<1>7. SumFunctionOnSet(h, V) = SumFunctionOnSet(f, V) - SumFunctionOnSet(g, V)
  BY <1>6
<1>8. \A x \in U : f[x] \in Int /\ g[x] \in Int /\ h[x] \in Int /\ h[x] = f[x] - g[x]
  BY <1>3
<1>9. IsFiniteSet(V) /\ \A x \in V : f[x] \in Int /\ g[x] \in Int /\ h[x] \in Int
  BY <1>3, <1>8, FS_Subset
<1>10. /\ SumFunctionOnSet(f, U) = f[y] + SumFunctionOnSet(f, V)
       /\ SumFunctionOnSet(g, U) = g[y] + SumFunctionOnSet(g, V)
       /\ SumFunctionOnSet(h, U) = h[y] + SumFunctionOnSet(h, V)
  BY <1>3, <1>8, SummeOhne
<1> HIDE DEF M, V
<1>11. SumFunctionOnSet(f, V) \in Int /\ SumFunctionOnSet(g, V) \in Int
  BY <1>9, SummeInt
<1>12. f[y] \in Int /\ g[y] \in Int /\ h[y] = f[y] - g[y]
  BY <1>8
<1> QED BY <1>3, <1>7, <1>10, <1>11, <1>12

(* What is no more than c each adds up to no more than c times the number. *)
LEMMA SummeHoechstens ==
    ASSUME NEW S, IsFiniteSet(S), NEW f, NEW c \in Nat,
           \A x \in S : f[x] \in Int /\ f[x] <= c
    PROVE  SumFunctionOnSet(f, S) <= Cardinality(S) * c
<1> DEFINE M == {U \in SUBSET S : ~(SumFunctionOnSet(f, U) <= Cardinality(U) * c)}
<1>1. SUFFICES ASSUME M # {} PROVE FALSE
  OBVIOUS
<1>2. PICK U \in M : \A v \in M : v \subseteq U => v = U
  <2> HIDE DEF M
  <2>1. M \in SUBSET SUBSET S
    BY DEF M
  <2> QED BY <1>1, <2>1, KleinsteMenge
<1>3. /\ U \subseteq S /\ IsFiniteSet(U)
      /\ ~(SumFunctionOnSet(f, U) <= Cardinality(U) * c)
  BY FS_Subset
<1>4. U # {}
  <2>1. SumFunctionOnSet(f, {}) = 0 /\ Cardinality({}) * c = 0
    <3>1. Cardinality({}) = 0 /\ 0 * c = 0
      BY FS_EmptySet
    <3> QED BY <3>1, SummeLeer
  <2> QED BY <1>3, <2>1
<1>5. PICK y \in U : TRUE
  BY <1>4
<1> DEFINE V == U \ {y}
<1>6. V \notin M /\ V \in SUBSET S
  BY <1>2, <1>3
<1>7. SumFunctionOnSet(f, V) <= Cardinality(V) * c
  BY <1>6
<1>8. \A x \in U : f[x] \in Int
  BY <1>3
<1>9. SumFunctionOnSet(f, U) = f[y] + SumFunctionOnSet(f, V)
  BY <1>3, <1>8, SummeOhne
<1>10. IsFiniteSet(V) /\ (\A x \in V : f[x] \in Int) /\ f[y] \in Int /\ f[y] <= c
  BY <1>3, <1>8, FS_Subset
<1>11. Cardinality(V) = Cardinality(U) - 1 /\ Cardinality(U) \in Nat
  BY <1>3, FS_RemoveElement, FS_CardinalityType
<1> HIDE DEF M, V
<1>12. SumFunctionOnSet(f, V) \in Int
  BY <1>10, SummeInt
<1>13. Cardinality(V) * c + c = Cardinality(U) * c
  <2> DEFINE m == Cardinality(U)
  <2>1. m \in Nat /\ Cardinality(V) = m - 1
    BY <1>11
  <2> HIDE DEF m
  <2>2. (m - 1) * c + c = m * c
    BY <2>1
  <2> QED BY <2>1, <2>2 DEF m
<1>14. Cardinality(V) * c \in Int /\ Cardinality(U) * c \in Int
  BY <1>11
<1> QED BY <1>3, <1>7, <1>9, <1>10, <1>12, <1>13, <1>14

(* What finitely many elements are mapped to is finite.                    *)
LEMMA BildEndlich ==
    ASSUME NEW W, IsFiniteSet(W), NEW g
    PROVE  IsFiniteSet({g[x] : x \in W})
<1> DEFINE T == {g[x] : x \in W}
           f == [x \in W |-> g[x]]
<1>1. f \in Surjection(W, T)
  BY DEF Surjection
<1> HIDE DEF f, T
<1>2. IsFiniteSet(T)
  BY <1>1, FS_Surjection
<1> QED BY <1>2 DEF T

(* Another way to name what is added up: g names the elements of S whose   *)
(* value is not zero, no two alike, and h gives a name the same value.     *)
LEMMA SummeUmbenannt ==
    ASSUME NEW S, IsFiniteSet(S), NEW f, \A x \in S : f[x] \in Int, NEW g, NEW h,
           \A x, y \in S : f[x] # 0 /\ f[y] # 0 /\ g[x] = g[y] => x = y,
           \A x \in S : f[x] # 0 => h[g[x]] = f[x]
    PROVE  SumFunctionOnSet(h, {g[x] : x \in {y \in S : f[y] # 0}}) = SumFunctionOnSet(f, S)
<1> DEFINE B(U) == {g[x] : x \in {y \in U : f[y] # 0}}
<1> DEFINE M == {U \in SUBSET S : SumFunctionOnSet(h, B(U)) # SumFunctionOnSet(f, U)}
<1>1. SUFFICES ASSUME M # {} PROVE FALSE
  OBVIOUS
<1>2. PICK U \in M : \A v \in M : v \subseteq U => v = U
  <2> HIDE DEF M
  <2>1. M \in SUBSET SUBSET S
    BY DEF M
  <2> QED BY <1>1, <2>1, KleinsteMenge
<1>3. /\ U \subseteq S /\ IsFiniteSet(U)
      /\ SumFunctionOnSet(h, B(U)) # SumFunctionOnSet(f, U)
  BY FS_Subset
<1>4. U # {}
  <2>1. SumFunctionOnSet(f, {}) = 0 /\ B({}) = {} /\ SumFunctionOnSet(h, {}) = 0
    BY SummeLeer
  <2> HIDE DEF M, B
  <2>2. U = {} => SumFunctionOnSet(h, B(U)) = SumFunctionOnSet(f, U)
    BY <2>1
  <2> QED BY <1>3, <2>2
<1>5. PICK y \in U : TRUE
  BY <1>4
<1> DEFINE V == U \ {y}
<1>6. V \notin M /\ V \in SUBSET S
  BY <1>2, <1>3
<1>7. SumFunctionOnSet(h, B(V)) = SumFunctionOnSet(f, V)
  BY <1>6
<1>8. \A x \in U : f[x] \in Int
  BY <1>3
<1>9. SumFunctionOnSet(f, U) = f[y] + SumFunctionOnSet(f, V)
  BY <1>3, <1>8, SummeOhne
<1>10. IsFiniteSet(V) /\ (\A x \in V : f[x] \in Int) /\ f[y] \in Int
  BY <1>3, <1>8, FS_Subset
<1>11. SumFunctionOnSet(f, V) \in Int
  <2> HIDE DEF V
  <2> QED BY <1>10, SummeInt
<1>12. CASE f[y] = 0
  <2>1. B(U) = B(V)
    BY <1>12
  <2> HIDE DEF M, B, V
  <2> QED BY <1>3, <1>7, <1>9, <1>11, <1>12, <2>1
<1>13. CASE f[y] # 0
  <2>1. B(U) = B(V) \cup {g[y]} /\ g[y] \notin B(V) /\ h[g[y]] = f[y]
    BY <1>3, <1>13
  <2>2. IsFiniteSet(B(V)) /\ \A x \in B(V) : h[x] \in Int
    <3>1. IsFiniteSet({x \in V : f[x] # 0})
      <4> HIDE DEF V
      <4> QED BY <1>10, FS_Subset
    <3> DEFINE W == {x \in V : f[x] # 0}
    <3>2. B(V) = {g[x] : x \in W}
      OBVIOUS
    <3>3. \A x \in B(V) : h[x] \in Int
      BY <1>3, <1>8
    <3>4. IsFiniteSet(W)
      BY <3>1
    <3> HIDE DEF W, B, V, M
    <3>5. IsFiniteSet({g[x] : x \in W})
      BY <3>4, BildEndlich
    <3> QED BY <3>2, <3>3, <3>5
  <2> DEFINE z == g[y]
             T == B(V)
  <2>3. IsFiniteSet(T) /\ z \notin T /\ h[z] \in Int /\ \A x \in T : h[x] \in Int
    BY <2>1, <2>2, <1>10
  <2>4. B(U) = T \cup {z}
    BY <2>1
  <2> HIDE DEF M, B, V, z, T
  <2>5. SumFunctionOnSet(h, T \cup {z}) = h[z] + SumFunctionOnSet(h, T)
    BY <2>3, SummeMit
  <2>6. SumFunctionOnSet(h, B(U)) = f[y] + SumFunctionOnSet(f, V)
    BY <1>7, <2>1, <2>4, <2>5 DEF T, z
  <2> QED BY <1>3, <1>9, <2>6
<1> QED BY <1>12, <1>13

(* Multiplication keeps the order.                                         *)
LEMMA MalMonoton ==
    ASSUME NEW a \in Nat, NEW b \in Nat, NEW c \in Nat, a <= b
    PROVE  a * c <= b * c /\ a * c \in Nat /\ b * c \in Nat
<1> DEFINE d == b - a
<1>1. d \in Nat /\ b = a + d
  OBVIOUS
<1> HIDE DEF d
<1>2. (a + d) * c = a * c + d * c
  BY <1>1
<1>3. a * c \in Nat /\ d * c \in Nat
  BY <1>1
<1>4. (a + d) * c \in Nat /\ a * c <= (a + d) * c
  BY <1>2, <1>3
<1> QED BY <1>1, <1>3, <1>4

(* One entry of the books changes: element x of S leaves a set L, joins N, *)
(* or gets another value.                                                  *)
LEMMA Umbuchung ==
    ASSUME NEW S, IsFiniteSet(S), NEW f, NEW h, NEW x,
           \A y \in S : f[y] \in Int /\ h[y] \in Int /\ (y # x => h[y] = f[y]),
           NEW L \in SUBSET S, NEW N \in SUBSET S, L \ {x} = N \ {x}
    PROVE  SumFunctionOnSet(h, N) = SumFunctionOnSet(f, L)
              - (IF x \in L THEN f[x] ELSE 0) + (IF x \in N THEN h[x] ELSE 0)
<1> DEFINE T == L \ {x}
<1>1. /\ IsFiniteSet(L) /\ IsFiniteSet(N) /\ IsFiniteSet(T)
      /\ \A y \in T : f[y] = h[y] /\ f[y] \in Int
      /\ (\A y \in L : f[y] \in Int) /\ (\A y \in N : h[y] \in Int)
  BY FS_Subset
<1>2. SumFunctionOnSet(f, L) = SumFunctionOnSet(f, T) + (IF x \in L THEN f[x] ELSE 0)
  <2>1. CASE x \in L
    <3>1. SumFunctionOnSet(f, L) = f[x] + SumFunctionOnSet(f, L \ {x})
      BY <1>1, <2>1, SummeOhne
    <3>2. SumFunctionOnSet(f, T) \in Int /\ f[x] \in Int
      <4> HIDE DEF T
      <4> QED BY <1>1, <2>1, SummeInt
    <3> QED BY <2>1, <3>1, <3>2
  <2>2. CASE x \notin L
    <3>1. L = T
      BY <2>2
    <3>2. SumFunctionOnSet(f, T) \in Int
      <4> HIDE DEF T
      <4> QED BY <1>1, SummeInt
    <3> HIDE DEF T
    <3> QED BY <2>2, <3>1, <3>2
  <2> QED BY <2>1, <2>2
<1>3. SumFunctionOnSet(h, N) = SumFunctionOnSet(h, T) + (IF x \in N THEN h[x] ELSE 0)
  <2>0. SumFunctionOnSet(h, T) \in Int
    <3> HIDE DEF T
    <3> QED BY <1>1, SummeInt
  <2>1. CASE x \in N
    <3>1. SumFunctionOnSet(h, N) = h[x] + SumFunctionOnSet(h, N \ {x})
      BY <1>1, <2>1, SummeOhne
    <3>2. N \ {x} = T /\ h[x] \in Int
      BY <1>1, <2>1
    <3> HIDE DEF T
    <3>3. SumFunctionOnSet(h, N) = h[x] + SumFunctionOnSet(h, T)
      BY <3>1, <3>2
    <3> QED BY <2>0, <2>1, <3>2, <3>3
  <2>2. CASE x \notin N
    <3>1. N = T
      BY <2>2
    <3> HIDE DEF T
    <3> QED BY <2>0, <2>2, <3>1
  <2> QED BY <2>1, <2>2
<1>4. SumFunctionOnSet(f, T) = SumFunctionOnSet(h, T) /\ SumFunctionOnSet(f, T) \in Int
  <2> HIDE DEF T
  <2> QED BY <1>1, SummeGleich, SummeInt
<1>5. x \in L => f[x] \in Int
  BY <1>1
<1>6. x \in N => h[x] \in Int
  BY <1>1
<1> HIDE DEF T
<1> QED BY <1>2, <1>3, <1>4, <1>5, <1>6
-----------------------------------------------------------------------------
(* Two remainders that differ by a multiple of the modulus are the same.    *)
LEMMA Vielfaches ==
    ASSUME NEW U \in Nat \ {0}, NEW r \in 0 .. U - 1, NEW s \in 0 .. U - 1, NEW k \in Int,
           r = s + k * U
    PROVE  r = s
<1>1. CASE k >= 1
  <2>1. k * U >= U
    BY <1>1
  <2> QED BY <2>1
<1>2. CASE k <= -1
  <2>1. k * U <= 0 - U
    BY <1>2
  <2> QED BY <2>1
<1>3. CASE k = 0
  BY <1>3
<1> QED BY <1>1, <1>2, <1>3

(* Quotient and remainder.                                                 *)
LEMMA Teilung ==
    ASSUME NEW U \in Nat \ {0}, NEW a \in Int
    PROVE  /\ a % U \in 0 .. U - 1 /\ a \div U \in Int
           /\ a = (a \div U) * U + (a % U)
<1>1. a \div U \in Int
  OBVIOUS
<1>2. a % U \in 0 .. U - 1
  OBVIOUS
<1>3. a = U * (a \div U) + (a % U)
  OBVIOUS
<1>4. U * (a \div U) = (a \div U) * U
  BY <1>1
<1> QED BY <1>1, <1>2, <1>3, <1>4

(* It does not matter when a sum wraps.                                    *)
LEMMA RestPlus ==
    ASSUME NEW U \in Nat \ {0}, NEW a \in Int, NEW b \in Int
    PROVE  ((a % U) + b) % U = (a + b) % U
<1> DEFINE r == ((a % U) + b) % U
           s == (a + b) % U
           i == a \div U
           j == ((a % U) + b) \div U
           l == (a + b) \div U
<1>1. a % U \in 0 .. U - 1 /\ i \in Int /\ a = i * U + (a % U)
  BY Teilung
<1>2. r \in 0 .. U - 1 /\ j \in Int /\ (a % U) + b = j * U + r
  <2>1. (a % U) + b \in Int
    BY <1>1
  <2> QED BY <2>1, Teilung
<1>3. s \in 0 .. U - 1 /\ l \in Int /\ a + b = l * U + s
  <2>1. a + b \in Int
    OBVIOUS
  <2> QED BY <2>1, Teilung
<1> HIDE DEF r, s, i, j, l
<1>4. r = s + (l - i - j) * U
  <2>1. l * U \in Int /\ i * U \in Int /\ j * U \in Int /\ a % U \in Int
    BY <1>1, <1>2, <1>3
  <2>2. r = s + (l * U - i * U - j * U)
    BY <1>1, <1>2, <1>3, <2>1
  <2>3. (l - i) * U = l * U - i * U /\ (l - i - j) * U = (l - i) * U - j * U
    BY <1>1, <1>2, <1>3
  <2> QED BY <1>2, <1>3, <2>1, <2>2, <2>3
<1>5. l - i - j \in Int
  BY <1>1, <1>2, <1>3
<1>6. r = s
  BY <1>2, <1>3, <1>4, <1>5, Vielfaches
<1> QED BY <1>6 DEF r, s

(* The same with a sum counted twice.                                      *)
LEMMA RestDoppelt ==
    ASSUME NEW U \in Nat \ {0}, NEW a \in Int, NEW b \in Int
    PROVE  (b + 2 * (a % U)) % U = (b + 2 * a) % U
<1> DEFINE r == a % U
<1>1. r \in Int
  BY Teilung
<1>2. b + 2 * r = r + (r + b) /\ r + b \in Int
  BY <1>1
<1>3. (r + (r + b)) % U = (a + (r + b)) % U
  BY <1>2, RestPlus
<1> HIDE DEF r
<1>4. a + (r + b) = r + (a + b) /\ a + b \in Int
  BY <1>1
<1>5. (r + (a + b)) % U = (a + (a + b)) % U
  BY <1>4, RestPlus DEF r
<1>6. a + (a + b) = b + 2 * a
  OBVIOUS
<1> QED BY <1>2, <1>3, <1>4, <1>5, <1>6 DEF r

(* A number that fits does not wrap.                                       *)
LEMMA RestKlein ==
    ASSUME NEW U \in Nat \ {0}, NEW a \in 0 .. U - 1
    PROVE  a % U = a
<1>1. a % U \in 0 .. U - 1 /\ a \div U \in Int /\ a = (a \div U) * U + (a % U)
  BY Teilung
<1> DEFINE i == a \div U
           r == a % U
<1>2. r \in 0 .. U - 1 /\ i \in Int /\ a = i * U + r
  BY <1>1
<1> HIDE DEF i, r
<1>3. a = r + i * U
  BY <1>2
<1>4. a = r
  BY <1>2, <1>3, Vielfaches
<1> QED BY <1>4 DEF r
=============================================================================
