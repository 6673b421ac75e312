---------------------------- MODULE VertragBeweis ----------------------------
(***************************************************************************)
(* Proofs of what the order book promises to its callers, for every number *)
(* of price levels and orders, every width of u64 and every set of         *)
(* quantities: the linked lists, bits and cached bests of Orderbuch do     *)
(* what the atomic book of PreisZeit does, the sums of its levels are what *)
(* rests on them, and no quantity appears or disappears.                   *)
(***************************************************************************)
EXTENDS MCOrderbuch, MCBilanz, OrderbuchBeweis, Summen

(* Orders as callers see them, each with a number of its own.              *)
ORDERSATZ == [oid : OID, seite : SEITE, tick : TICK, menge : MENGE \ {0}]
Orders(R) ==
    /\ IsFiniteSet(R) /\ R \subseteq ORDERSATZ
    /\ \A r, z \in R : r.oid = z.oid => r = z

(* The fields of an order.                                                 *)
LEMMA Felder ==
    ASSUME NEW R, Orders(R), NEW r \in R
    PROVE  /\ r.oid \in Nat /\ r.seite \in SEITE /\ r.tick \in TICK /\ r.tick \in Nat
           /\ r.menge \in MENGE /\ r.menge \in Nat \ {0}
           /\ r = [oid |-> r.oid, seite |-> r.seite, tick |-> r.tick, menge |-> r.menge]
<1>1. OID \subseteq Nat /\ TICK \subseteq Nat /\ MENGE \subseteq Nat
  BY MaxOrdersAnnahme, TicksAnnahme, U64Annahme DEF OID, TICK, MENGE
<1>2. r \in ORDERSATZ
  BY DEF Orders
<1> QED BY <1>1, <1>2 DEF ORDERSATZ

(* The quantity of orders of R is a sum over one fixed function.           *)
LEMMA SummeVon ==
    ASSUME NEW R, Orders(R), NEW X \in SUBSET R
    PROVE  /\ IsFiniteSet(X)
           /\ PZ!Summe(X) = SumFunctionOnSet([r \in R |-> r.menge], X)
           /\ PZ!Summe(X) \in Nat
<1> DEFINE f == [r \in R |-> r.menge]
           g == [r \in X |-> r.menge]
<1>1. IsFiniteSet(X)
  BY FS_Subset DEF Orders
<1>2. PZ!Summe(X) = SumFunctionOnSet(g, X)
  BY DEF PZ!Summe, PZ!SumFunction, PZ!SumFunctionOnSet, PZ!FoldFunctionOnSet, PZ!MapThenFoldSet,
         SumFunctionOnSet, FoldFunctionOnSet, MapThenFoldSet
<1>3. (\A r \in X : g[r] = f[r]) /\ \A r \in X : f[r] \in Nat
  BY Felder
<1> HIDE DEF f, g
<1>4. SumFunctionOnSet(g, X) = SumFunctionOnSet(f, X)
  BY <1>1, <1>3, SummeGleich
<1>5. SumFunctionOnSet(f, X) \in Nat
  BY <1>1, <1>3, SummeNat
<1> QED BY <1>1, <1>2, <1>4, <1>5 DEF f

(* More orders, more quantity.                                             *)
LEMMA SummeWaechst ==
    ASSUME NEW R, Orders(R), NEW Y \in SUBSET R, NEW X \in SUBSET Y
    PROVE  PZ!Summe(X) <= PZ!Summe(Y)
<1> DEFINE f == [r \in R |-> r.menge]
<1>1. IsFiniteSet(Y) /\ PZ!Summe(Y) = SumFunctionOnSet(f, Y)
  BY SummeVon
<1>2. X \in SUBSET R
  OBVIOUS
<1>3. PZ!Summe(X) = SumFunctionOnSet(f, X)
  BY <1>2, SummeVon
<1>4. \A r \in Y : f[r] \in Nat
  BY Felder
<1> HIDE DEF f
<1>5. SumFunctionOnSet(f, X) <= SumFunctionOnSet(f, Y)
  BY <1>1, <1>4, SummeTeil
<1> QED BY <1>1, <1>3, <1>5

(* One order more adds its quantity.                                       *)
LEMMA SummeEinMehr ==
    ASSUME NEW R, Orders(R), NEW X \in SUBSET R, NEW h \in R, h \notin X
    PROVE  PZ!Summe(X \cup {h}) = PZ!Summe(X) + h.menge
<1> DEFINE f == [r \in R |-> r.menge]
           Y == X \cup {h}
<1>1. IsFiniteSet(X) /\ PZ!Summe(X) = SumFunctionOnSet(f, X) /\ PZ!Summe(X) \in Nat
  BY SummeVon
<1>2. Y \in SUBSET R
  OBVIOUS
<1>3. PZ!Summe(Y) = SumFunctionOnSet(f, Y)
  <2> HIDE DEF Y
  <2> QED BY <1>2, SummeVon
<1>4. (\A r \in X : f[r] \in Int) /\ f[h] \in Int /\ f[h] = h.menge /\ h.menge \in Nat
  BY Felder
<1> HIDE DEF f
<1>5. SumFunctionOnSet(f, X \cup {h}) = f[h] + SumFunctionOnSet(f, X)
  BY <1>1, <1>4, SummeMit
<1> QED BY <1>1, <1>3, <1>4, <1>5

(* No order, no quantity; one order, its quantity.                         *)
LEMMA SummeKlein ==
    /\ PZ!Summe({}) = 0
    /\ \A R : Orders(R) => \A h \in R : PZ!Summe({h}) = h.menge
<1>1. PZ!Summe({}) = 0
  <2>1. PZ!Summe({}) = SumFunctionOnSet([r \in {} |-> r.menge], {})
    BY DEF PZ!Summe, PZ!SumFunction, PZ!SumFunctionOnSet, PZ!FoldFunctionOnSet, PZ!MapThenFoldSet,
           SumFunctionOnSet, FoldFunctionOnSet, MapThenFoldSet
  <2> QED BY <2>1, SummeLeer
<1>2. ASSUME NEW R, Orders(R), NEW h \in R PROVE PZ!Summe({h}) = h.menge
  <2>1. {} \in SUBSET R /\ {} \cup {h} = {h} /\ h.menge \in Nat
    BY <1>2, Felder
  <2>2. PZ!Summe({} \cup {h}) = PZ!Summe({}) + h.menge
    BY <1>2, <2>1, SummeEinMehr
  <2> QED BY <1>1, <2>1, <2>2
<1> QED BY <1>1, <1>2

(* The smaller of two numbers.                                             *)
LEMMA MinVon ==
    ASSUME NEW a \in Int, NEW b \in Int
    PROVE  PZ!Min({a, b}) = IF a <= b THEN a ELSE b
BY DEF PZ!Min

(* No two orders of a side are served before each other.                   *)
LEMMA VorrangStreng ==
    ASSUME NEW R, Orders(R), NEW k \in R, NEW z \in R, k.seite = z.seite, PZ!Vorrang(k, z)
    PROVE  ~PZ!Vorrang(z, k)
<1>1. /\ k.oid \in Nat /\ z.oid \in Nat /\ k.tick \in Nat /\ z.tick \in Nat
  BY Felder
<1> QED BY <1>1 DEF PZ!Vorrang, PZ!NichtSchlechter
-----------------------------------------------------------------------------
(* K is what a taker a meets first among the orders in its reach.          *)
Zuerst(R, a, K) ==
    /\ K \subseteq PZ!Erreichbar(R, a)
    /\ \A k \in K, z \in PZ!Erreichbar(R, a) \ K : PZ!Vorrang(k, z)

(* In reach is only the other side of the book, the orders there all have  *)
(* one side.                                                               *)
LEMMA EineSeite ==
    ASSUME NEW R, Orders(R), NEW a, a.seite \in SEITE
    PROVE  /\ PZ!Erreichbar(R, a) \subseteq R
           /\ \A k, z \in PZ!Erreichbar(R, a) : k.seite = z.seite
<1>1. \A r \in R : r.seite \in SEITE
  BY Felder
<1> QED BY <1>1 DEF PZ!Erreichbar, SEITE

(* What comes before an order of K lies in K; so K gives all it has when   *)
(* the taker wants no less.                                                *)
LEMMA GibtAlles ==
    ASSUME NEW R, Orders(R), NEW a, a.seite \in SEITE, a.menge \in Nat,
           NEW K, Zuerst(R, a, K), PZ!Summe(K) <= a.menge, NEW k \in K
    PROVE  PZ!Gibt(R, a, k) = k.menge
<1> DEFINE E == PZ!Erreichbar(R, a)
           V == {z \in E : PZ!Vorrang(z, k)}
<1>1. E \subseteq R /\ K \subseteq E /\ k \in R /\ \A z \in E : z \in R /\ k.seite = z.seite
  BY EineSeite DEF Zuerst
<1>2. V \subseteq K /\ k \notin V
  <2>1. ~PZ!Vorrang(k, k)
    BY <1>1, VorrangStreng
  <2>2. ASSUME NEW z \in V, z \notin K PROVE FALSE
    <3>1. PZ!Vorrang(k, z) /\ PZ!Vorrang(z, k) /\ z \in R /\ k.seite = z.seite
      BY <1>1, <2>2 DEF Zuerst
    <3> QED BY <1>1, <3>1, VorrangStreng
  <2> QED BY <2>1, <2>2
<1>3. PZ!Summe(V \cup {k}) = PZ!Summe(V) + k.menge
  <2>1. V \in SUBSET R
    BY <1>1
  <2> HIDE DEF V
  <2> QED BY <1>1, <1>2, <2>1, SummeEinMehr
<1>4. PZ!Summe(V \cup {k}) <= PZ!Summe(K)
  <2>1. K \in SUBSET R /\ V \cup {k} \in SUBSET K
    BY <1>1, <1>2
  <2> HIDE DEF V
  <2> QED BY <2>1, SummeWaechst
<1>5. PZ!Summe(V) \in Nat /\ PZ!Summe(K) \in Nat
  <2>1. V \in SUBSET R /\ K \in SUBSET R
    BY <1>1
  <2> HIDE DEF V
  <2> QED BY <2>1, SummeVon
<1>6. k.menge \in Nat \ {0}
  BY <1>1, Felder
<1>7. PZ!Gibt(R, a, k) = IF PZ!Summe(V) >= a.menge THEN 0 ELSE PZ!Min({k.menge, a.menge - PZ!Summe(V)})
  BY DEF PZ!Gibt
<1> HIDE DEF V, E
<1>8. ~(PZ!Summe(V) >= a.menge) /\ k.menge <= a.menge - PZ!Summe(V) /\ a.menge - PZ!Summe(V) \in Int
  BY <1>3, <1>4, <1>5, <1>6
<1> QED BY <1>6, <1>7, <1>8, MinVon

(* When K is all the taker wants, the others give nothing.                 *)
LEMMA GibtNichts ==
    ASSUME NEW R, Orders(R), NEW a, a.seite \in SEITE, a.menge \in Nat,
           NEW K \in SUBSET R, PZ!Summe(K) >= a.menge,
           NEW z \in PZ!Erreichbar(R, a), \A k \in K : k \in PZ!Erreichbar(R, a) /\ PZ!Vorrang(k, z)
    PROVE  PZ!Gibt(R, a, z) = 0
<1> DEFINE E == PZ!Erreichbar(R, a)
           V == {y \in E : PZ!Vorrang(y, z)}
<1>1. V \in SUBSET R /\ K \in SUBSET V
  BY EineSeite
<1>2. PZ!Gibt(R, a, z) = IF PZ!Summe(V) >= a.menge THEN 0 ELSE PZ!Min({z.menge, a.menge - PZ!Summe(V)})
  BY DEF PZ!Gibt
<1> HIDE DEF V, E
<1>3. PZ!Summe(K) <= PZ!Summe(V) /\ PZ!Summe(K) \in Nat /\ PZ!Summe(V) \in Nat
  BY <1>1, SummeWaechst, SummeVon
<1> QED BY <1>2, <1>3

(* The order after K gives what K leaves of the taker's quantity.          *)
LEMMA GibtRest ==
    ASSUME NEW R, Orders(R), NEW a, a.seite \in SEITE, a.menge \in Nat,
           NEW K, Zuerst(R, a, K), NEW h \in PZ!Erreichbar(R, a) \ K,
           \A z \in PZ!Erreichbar(R, a) \ K : z = h \/ PZ!Vorrang(h, z),
           NEW p \in Nat \ {0}, p <= h.menge, PZ!Summe(K) + p = a.menge
    PROVE  PZ!Gibt(R, a, h) = p
<1> DEFINE E == PZ!Erreichbar(R, a)
           V == {y \in E : PZ!Vorrang(y, h)}
<1>1. E \subseteq R /\ K \subseteq E /\ h \in R /\ \A z \in E : z \in R /\ h.seite = z.seite
  BY EineSeite DEF Zuerst
<1>2. V = K
  <2>1. ~PZ!Vorrang(h, h)
    BY <1>1, VorrangStreng
  <2>2. ASSUME NEW z \in E \ K, z # h PROVE z \notin V
    <3>1. PZ!Vorrang(h, z) /\ z \in R /\ h.seite = z.seite
      BY <1>1, <2>2
    <3> QED BY <1>1, <3>1, VorrangStreng
  <2>3. \A k \in K : k \in V
    BY <1>1 DEF Zuerst
  <2> QED BY <1>1, <2>1, <2>2, <2>3
<1>3. PZ!Gibt(R, a, h) = IF PZ!Summe(V) >= a.menge THEN 0 ELSE PZ!Min({h.menge, a.menge - PZ!Summe(V)})
  BY DEF PZ!Gibt
<1>4. PZ!Summe(K) \in Nat /\ h.menge \in Nat
  <2>1. K \in SUBSET R
    BY <1>1
  <2> QED BY <1>1, <2>1, SummeVon, Felder
<1> HIDE DEF V, E
<1>5. ~(PZ!Summe(V) >= a.menge) /\ a.menge - PZ!Summe(V) = p
  BY <1>2, <1>4
<1> QED BY <1>3, <1>4, <1>5, MinVon
-----------------------------------------------------------------------------
(* The execution of q against order r for the taker a with number n.       *)
Fuellung(a, n, r, q) ==
    [tick |-> r.tick, menge |-> q, nehmer |-> n, geber |-> r.oid,
     nehmer_kauft |-> a.seite = KAUF]

(* The taker a met the book R and has q left: the orders K are used up,    *)
(* the others, N, are as they were, and A are the executions.              *)
Glatt(R, a, n, K, q, N, A) ==
    /\ Zuerst(R, a, K)
    /\ PZ!Summe(K) + q = a.menge
    /\ N = R \ K
    /\ A = {Fuellung(a, n, k, k.menge) : k \in K}

(* The taker has got all it wanted, the last p from an order h that keeps  *)
(* a rest.                                                                 *)
Angebrochen(R, a, n, K, h, p, N, A) ==
    /\ Zuerst(R, a, K)
    /\ h \in PZ!Erreichbar(R, a) \ K
    /\ \A z \in PZ!Erreichbar(R, a) \ K : z = h \/ PZ!Vorrang(h, z)
    /\ p \in Nat \ {0} /\ p < h.menge
    /\ PZ!Summe(K) + p = a.menge
    /\ N = (R \ (K \cup {h})) \cup {[h EXCEPT !.menge = @ - p]}
    /\ A = {Fuellung(a, n, k, k.menge) : k \in K} \cup {Fuellung(a, n, h, p)}

(* What a call leaves of its own order.                                    *)
Neuling(R, a, n) ==
    IF PZ!Ruhend(R, a) > 0
    THEN {[oid |-> n, seite |-> a.seite, tick |-> PZ!Grenze(a), menge |-> PZ!Rest(R, a)]}
    ELSE {}

(* When nothing is left to match, or nothing in reach, the book and the    *)
(* executions are those of the rules.                                      *)
LEMMA GlattFertig ==
    ASSUME NEW R, Orders(R), NEW a, a.seite \in SEITE, a.menge \in Nat, NEW n,
           NEW K, NEW q \in Nat, NEW N, NEW A, Glatt(R, a, n, K, q, N, A),
           q = 0 \/ K = PZ!Erreichbar(R, a)
    PROVE  /\ PZ!Rest(R, a) = q
           /\ PZ!Ausfuehrungen(R, a, n) = A
           /\ PZ!Danach(R, a, n) = N \cup Neuling(R, a, n)
<1> DEFINE E == PZ!Erreichbar(R, a)
<1>1. E \subseteq R /\ K \subseteq E /\ Zuerst(R, a, K)
  BY EineSeite DEF Glatt, Zuerst
<1>2. /\ PZ!Summe(K) \in Nat /\ PZ!Summe(E) \in Nat /\ PZ!Summe(K) <= PZ!Summe(E)
      /\ PZ!Summe(K) + q = a.menge
  <2>1. K \in SUBSET R /\ E \in SUBSET R /\ K \in SUBSET E
    BY <1>1
  <2> HIDE DEF E
  <2> QED BY <2>1, SummeVon, SummeWaechst DEF Glatt
<1>3. PZ!Rest(R, a) = q
  <2>1. PZ!Min({a.menge, PZ!Summe(E)}) = a.menge - q
    <3> HIDE DEF E
    <3>1. CASE q = 0
      BY <1>2, <3>1, MinVon
    <3>2. CASE K = E
      BY <1>2, <3>2, MinVon
    <3> QED BY <3>1, <3>2 DEF E
  <2> QED BY <1>2, <2>1 DEF PZ!Rest
<1>4. \A k \in K : PZ!Gibt(R, a, k) = k.menge
  BY <1>1, <1>2, GibtAlles
<1>5. ASSUME NEW z \in E \ K PROVE PZ!Gibt(R, a, z) = 0
  <2>1. q = 0
    BY <1>5
  <2>2. K \in SUBSET R /\ PZ!Summe(K) >= a.menge
    BY <1>1, <1>2, <2>1
  <2>3. \A k \in K : k \in PZ!Erreichbar(R, a) /\ PZ!Vorrang(k, z)
    BY <1>1 DEF Zuerst
  <2> QED BY <2>2, <2>3, GibtNichts
<1>6. \A r \in E : r.menge \in Nat \ {0} /\ r = [r EXCEPT !.menge = @ - 0]
  <2> SUFFICES ASSUME NEW r \in E PROVE r.menge \in Nat \ {0} /\ r = [r EXCEPT !.menge = @ - 0]
    OBVIOUS
  <2>1. r.menge \in Nat \ {0} /\ r = [oid |-> r.oid, seite |-> r.seite, tick |-> r.tick, menge |-> r.menge]
    BY <1>1, Felder
  <2> QED BY <2>1
<1>7. {z \in E : PZ!Gibt(R, a, z) > 0} = K
  BY <1>1, <1>4, <1>5, <1>6
<1>8. {z \in E : PZ!Gibt(R, a, z) < z.menge} = E \ K
  BY <1>1, <1>4, <1>5, <1>6
<1>9. PZ!Ausfuehrungen(R, a, n) = A
  BY <1>4, <1>7 DEF PZ!Ausfuehrungen, Glatt, Fuellung, KAUF
<1>10. {[r EXCEPT !.menge = @ - PZ!Gibt(R, a, r)] : r \in E \ K} = E \ K
  BY <1>5, <1>6
<1>11. PZ!Danach(R, a, n) = ((R \ E) \cup (E \ K)) \cup Neuling(R, a, n)
  BY <1>8, <1>10 DEF PZ!Danach, Neuling
<1> QED BY <1>1, <1>3, <1>9, <1>11 DEF Glatt

(* The same when the last maker keeps a rest.                              *)
LEMMA AngebrochenFertig ==
    ASSUME NEW R, Orders(R), NEW a, a.seite \in SEITE, a.menge \in Nat, NEW n,
           NEW K, NEW h, NEW p, NEW N, NEW A, Angebrochen(R, a, n, K, h, p, N, A)
    PROVE  /\ PZ!Rest(R, a) = 0
           /\ PZ!Ausfuehrungen(R, a, n) = A
           /\ PZ!Danach(R, a, n) = N \cup Neuling(R, a, n)
<1> DEFINE E == PZ!Erreichbar(R, a)
           L == K \cup {h}
<1>1. /\ E \subseteq R /\ K \subseteq E /\ Zuerst(R, a, K) /\ h \in E /\ h \notin K
      /\ L \subseteq E /\ h.menge \in Nat /\ p \in Nat \ {0} /\ p < h.menge
  BY EineSeite, Felder DEF Angebrochen, Zuerst
<1>2. /\ PZ!Summe(K) \in Nat /\ PZ!Summe(E) \in Nat /\ PZ!Summe(L) <= PZ!Summe(E)
      /\ PZ!Summe(K) + p = a.menge /\ PZ!Summe(L) = PZ!Summe(K) + h.menge
  <2>1. K \in SUBSET R /\ E \in SUBSET R /\ L \in SUBSET E /\ h \in R /\ h \notin K
    BY <1>1
  <2>2. PZ!Summe(K \cup {h}) = PZ!Summe(K) + h.menge
    BY <2>1, SummeEinMehr
  <2> HIDE DEF E, L
  <2>3. PZ!Summe(K) \in Nat /\ PZ!Summe(E) \in Nat /\ PZ!Summe(L) <= PZ!Summe(E)
    BY <2>1, SummeVon, SummeWaechst
  <2> QED BY <2>2, <2>3 DEF Angebrochen, L
<1>3. PZ!Rest(R, a) = 0
  <2> HIDE DEF E, L
  <2>1. PZ!Min({a.menge, PZ!Summe(E)}) = a.menge
    BY <1>1, <1>2, MinVon
  <2> QED BY <2>1 DEF PZ!Rest, E
<1>4. \A k \in K : PZ!Gibt(R, a, k) = k.menge
  BY <1>1, <1>2, GibtAlles
<1>5. PZ!Gibt(R, a, h) = p
  BY <1>1, <1>2, GibtRest DEF Angebrochen
<1>6. ASSUME NEW z \in E \ L PROVE PZ!Gibt(R, a, z) = 0
  <2>1. L \in SUBSET R /\ PZ!Summe(L) >= a.menge
    BY <1>1, <1>2
  <2>2. \A k \in L : k \in PZ!Erreichbar(R, a) /\ PZ!Vorrang(k, z)
    BY <1>1 DEF Zuerst, Angebrochen
  <2> HIDE DEF L
  <2> QED BY <2>1, <2>2, GibtNichts
<1>7. \A r \in E : r.menge \in Nat \ {0} /\ r = [r EXCEPT !.menge = @ - 0]
  <2> SUFFICES ASSUME NEW r \in E PROVE r.menge \in Nat \ {0} /\ r = [r EXCEPT !.menge = @ - 0]
    OBVIOUS
  <2>1. r.menge \in Nat \ {0} /\ r = [oid |-> r.oid, seite |-> r.seite, tick |-> r.tick, menge |-> r.menge]
    BY <1>1, Felder
  <2> QED BY <2>1
<1>8. {z \in E : PZ!Gibt(R, a, z) > 0} = L
  BY <1>1, <1>4, <1>5, <1>6, <1>7
<1>9. {z \in E : PZ!Gibt(R, a, z) < z.menge} = (E \ L) \cup {h}
  BY <1>1, <1>4, <1>5, <1>6, <1>7
<1>10. PZ!Ausfuehrungen(R, a, n) = A
  <2>1. PZ!Ausfuehrungen(R, a, n) = {Fuellung(a, n, r, PZ!Gibt(R, a, r)) : r \in L}
    BY <1>8 DEF PZ!Ausfuehrungen, Fuellung, KAUF
  <2>2. {Fuellung(a, n, r, PZ!Gibt(R, a, r)) : r \in L}
          = {Fuellung(a, n, k, k.menge) : k \in K} \cup {Fuellung(a, n, h, p)}
    BY <1>4, <1>5
  <2> QED BY <2>1, <2>2 DEF Angebrochen
<1>11. {[r EXCEPT !.menge = @ - PZ!Gibt(R, a, r)] : r \in (E \ L) \cup {h}}
          = (E \ L) \cup {[h EXCEPT !.menge = @ - p]}
  BY <1>5, <1>6, <1>7
<1>12. PZ!Danach(R, a, n)
          = ((R \ E) \cup ((E \ L) \cup {[h EXCEPT !.menge = @ - p]})) \cup Neuling(R, a, n)
  BY <1>9, <1>11 DEF PZ!Danach, Neuling
<1>13. N = (R \ L) \cup {[h EXCEPT !.menge = @ - p]}
  BY DEF Angebrochen
<1> QED BY <1>1, <1>3, <1>10, <1>12, <1>13
-----------------------------------------------------------------------------
(* The orders that rest in the slots of the book are a set of orders.      *)
LEMMA RuhendeSindOrders ==
    ASSUME IInv
    PROVE  /\ Orders(RuhendeOrders)
           /\ \A x, y \in SLOT : Lebt(x) /\ Lebt(y) /\ knoten[x].oid = knoten[y].oid => x = y
<1>1. \A x \in SLOT : /\ knoten[x].oid \in OID /\ knoten[x].seite \in SEITE
                      /\ knoten[x].tick \in TICK /\ knoten[x].menge \in MENGE
  BY DEF IInv, TypeOK, Knoten
<1>2. \A x, y \in SLOT : Lebt(x) /\ Lebt(y) /\ knoten[x].oid = knoten[y].oid => x = y
  BY DEF Lebt
<1>3. \A x \in SLOT : Lebt(x) => knoten[x].menge # 0
  <2>1. ASSUME NEW x \in SLOT, Lebt(x) PROVE knoten[x].menge # 0
    <3>1. platz[knoten[x].oid] = x /\ x # KEIN
      BY <2>1, MaxOrdersAnnahme DEF Lebt, SLOT, KEIN
    <3> QED BY <1>1, <3>1 DEF IInv, PlatzStimmt
  <2> QED BY <2>1
<1>4. RuhendeOrders \subseteq ORDERSATZ
  BY <1>1, <1>3 DEF RuhendeOrders, OrderIn, Lebende, ORDERSATZ
<1>5. IsFiniteSet(RuhendeOrders)
  <2>1. IsFiniteSet(SLOT)
    BY MaxOrdersAnnahme, FS_Interval DEF SLOT
  <2>2. IsFiniteSet(Lebende)
    BY <2>1, FS_Subset DEF Lebende
  <2>3. [x \in Lebende |-> OrderIn(x)] \in Surjection(Lebende, RuhendeOrders)
    BY DEF RuhendeOrders, Surjection
  <2> QED BY <2>2, <2>3, FS_Surjection
<1>6. \A r, z \in RuhendeOrders : r.oid = z.oid => r = z
  BY <1>2 DEF RuhendeOrders, OrderIn, Lebende
<1> QED BY <1>2, <1>4, <1>5, <1>6 DEF Orders

(* Slot x goes, comes, or gets another quantity.                           *)
LEMMA RuhendeOhne ==
    ASSUME IInv, NEW x \in SLOT, Lebt(x),
           \A y \in SLOT : /\ Lebt(y)' <=> Lebt(y) /\ y # x
                           /\ y # x => OrderIn(y)' = OrderIn(y)
    PROVE  RuhendeOrders' = RuhendeOrders \ {OrderIn(x)}
<1>1. \A y \in SLOT : Lebt(y) /\ y # x => OrderIn(y) # OrderIn(x)
  BY RuhendeSindOrders DEF OrderIn
<1>2. RuhendeOrders' = {OrderIn(y)' : y \in {z \in SLOT : Lebt(z)'}}
  BY DEF RuhendeOrders, Lebende
<1>3. RuhendeOrders = {OrderIn(y) : y \in {z \in SLOT : Lebt(z)}}
  BY DEF RuhendeOrders, Lebende
<1> QED BY <1>1, <1>2, <1>3

LEMMA RuhendeMit ==
    ASSUME NEW x \in SLOT, ~Lebt(x),
           \A y \in SLOT : /\ Lebt(y)' <=> Lebt(y) \/ y = x
                           /\ y # x => OrderIn(y)' = OrderIn(y)
    PROVE  RuhendeOrders' = RuhendeOrders \cup {OrderIn(x)'}
<1>2. RuhendeOrders' = {OrderIn(y)' : y \in {z \in SLOT : Lebt(z)'}}
  BY DEF RuhendeOrders, Lebende
<1>3. RuhendeOrders = {OrderIn(y) : y \in {z \in SLOT : Lebt(z)}}
  BY DEF RuhendeOrders, Lebende
<1> QED BY <1>2, <1>3

LEMMA RuhendeAnders ==
    ASSUME IInv, NEW x \in SLOT, Lebt(x),
           \A y \in SLOT : /\ Lebt(y)' <=> Lebt(y)
                           /\ y # x => OrderIn(y)' = OrderIn(y)
    PROVE  RuhendeOrders' = (RuhendeOrders \ {OrderIn(x)}) \cup {OrderIn(x)'}
<1>1. \A y \in SLOT : Lebt(y) /\ y # x => OrderIn(y) # OrderIn(x)
  BY RuhendeSindOrders DEF OrderIn
<1>2. RuhendeOrders' = {OrderIn(y)' : y \in {z \in SLOT : Lebt(z)'}}
  BY DEF RuhendeOrders, Lebende
<1>3. RuhendeOrders = {OrderIn(y) : y \in {z \in SLOT : Lebt(z)}}
  BY DEF RuhendeOrders, Lebende
<1> QED BY <1>1, <1>2, <1>3

LEMMA RuhendeGleich ==
    ASSUME UNCHANGED <<knoten, platz>>
    PROVE  RuhendeOrders' = RuhendeOrders
BY DEF RuhendeOrders, Lebende, Lebt, OrderIn

(* The cached best tells whether a resting order is in reach.              *)
LEMMA KreuzenHeisstErreichbar ==
    ASSUME IInv, NEW s \in SEITE, NEW t \in Nat
    PROVE  /\ WuerdeKreuzen(s, t) <=>
                \E r \in RuhendeOrders : r.seite # s /\ NichtSchlechter(r.seite, r.tick, t)
           /\ \A x \in SLOT : Lebt(x) /\ knoten[x].seite # s =>
                knoten[x].seite = Gegenseite(s)
<1> DEFINE g == Gegenseite(s)
           b == beste[g]
<1>1. /\ g \in SEITE /\ g # s /\ \A r \in SEITE : r # s => r = g
      /\ \A x \in SLOT : knoten[x].seite \in SEITE /\ knoten[x].tick \in TICK
  BY DEF Gegenseite, SEITE, KAUF, VERKAUF, IInv, TypeOK, Knoten
<1>2. b \in TICK \cup {KEIN} /\ TICK \subseteq Nat
  BY <1>1, TicksAnnahme DEF IInv, TypeOK, TICK
<1>3. ASSUME WuerdeKreuzen(s, t)
      PROVE  \E r \in RuhendeOrders : r.seite # s /\ NichtSchlechter(r.seite, r.tick, t)
  <2>1. b # KEIN /\ NichtSchlechter(g, b, t)
    BY <1>3 DEF WuerdeKreuzen
  <2>2. b \in TICK /\ b \in belegt[g]
    BY <1>1, <1>2, <2>1 DEF IInv, BesteAusBelegt
  <2>3. stufen[g][b].kopf # KEIN /\ stufen[g][b].kopf \in VERWEIS
    BY <1>1, <2>2 DEF IInv, TypeOK, BelegtStimmt, Stufe
  <2>4. AufStufe(stufen[g][b].kopf, g, b) /\ stufen[g][b].kopf \in SLOT
    BY <1>1, <2>2, <2>3 DEF IInv, ZeigerStimmen, Enden, VERWEIS
  <2>5. PICK x \in SLOT : AufStufe(x, g, b)
    BY <2>4
  <2>6. OrderIn(x) \in RuhendeOrders /\ OrderIn(x).seite = g /\ OrderIn(x).tick = b
    BY <2>5 DEF AufStufe, RuhendeOrders, Lebende, OrderIn
  <2> QED BY <1>1, <2>1, <2>6
<1>4. ASSUME NEW r \in RuhendeOrders, r.seite # s, NichtSchlechter(r.seite, r.tick, t)
      PROVE  WuerdeKreuzen(s, t)
  <2>1. PICK x \in SLOT : Lebt(x) /\ knoten[x].seite = r.seite /\ knoten[x].tick = r.tick
    BY DEF RuhendeOrders, Lebende, OrderIn
  <2>2. knoten[x].seite = g /\ knoten[x].tick \in TICK
    BY <1>1, <1>4, <2>1
  <2>3. knoten[x].tick \in belegt[g]
    BY <1>1, <2>1, <2>2 DEF IInv, ZeitOrdnung, BelegtStimmt
  <2>4. b # KEIN /\ NichtSchlechter(g, b, knoten[x].tick) /\ NichtSchlechter(g, knoten[x].tick, t)
    BY <1>1, <1>4, <2>1, <2>2, <2>3 DEF IInv, BesteAusBelegt
  <2>5. NichtSchlechter(g, b, t)
    <3> HIDE DEF g, b
    <3>1. b \in Nat /\ knoten[x].tick \in Nat
      BY <1>2, <2>2, <2>4
    <3> QED BY <2>4, <3>1 DEF NichtSchlechter
  <2> QED BY <2>4, <2>5 DEF WuerdeKreuzen
<1> QED BY <1>1, <1>3, <1>4

(* The maker of a turn is the first order in reach of the taker among      *)
(* those that still rest.                                                  *)
LEMMA GeberIstErster ==
    ASSUME IInv, Weiter
    PROVE  /\ Geber \in SLOT /\ Lebt(Geber) /\ OrderIn(Geber) \in RuhendeOrders
           /\ knoten[Geber].seite = GeberSeite /\ knoten[Geber].tick = GeberTick
           /\ knoten[Geber].seite # nehmer.seite
           /\ NichtSchlechter(knoten[Geber].seite, knoten[Geber].tick, nehmer.grenze)
           /\ \A z \in RuhendeOrders : z.seite # nehmer.seite =>
                 z = OrderIn(Geber) \/ PZ!Vorrang(OrderIn(Geber), z)
<1> DEFINE s == GeberSeite
           t == GeberTick
           x == Geber
           h == OrderIn(x)
<1>1. /\ nehmer.seite \in SEITE /\ s \in SEITE /\ x \in SLOT /\ AufStufe(x, s, t) /\ Lebt(x)
      /\ platz[knoten[x].oid] = x
  BY GeberLiegt DEF AufStufe
<1>2. /\ knoten[x].seite = s /\ knoten[x].tick = t /\ s # nehmer.seite
      /\ NichtSchlechter(s, t, nehmer.grenze) /\ h \in RuhendeOrders
      /\ h.seite = s /\ h.tick = t /\ h.oid = knoten[x].oid
  BY <1>1 DEF AufStufe, RuhendeOrders, Lebende, OrderIn, Weiter, WuerdeKreuzen, GeberSeite, GeberTick,
              Gegenseite, SEITE, KAUF, VERKAUF
<1>3. ASSUME NEW z \in RuhendeOrders, z.seite # nehmer.seite
      PROVE  z = h \/ PZ!Vorrang(h, z)
  <2>1. PICK y \in SLOT : Lebt(y) /\ z = OrderIn(y)
    BY DEF RuhendeOrders, Lebende
  <2>2. /\ z.oid = knoten[y].oid /\ z.seite = knoten[y].seite /\ z.tick = knoten[y].tick
        /\ knoten[y].seite = s /\ knoten[y].oid \in Nat /\ knoten[x].oid \in Nat
    <3>1. knoten[y].seite \in SEITE /\ knoten[y].oid \in OID /\ knoten[x].oid \in OID
      BY <1>1 DEF IInv, TypeOK, Knoten
    <3>2. knoten[y].seite # nehmer.seite
      BY <1>3, <2>1 DEF OrderIn
    <3>3. knoten[y].seite = s
      BY <1>1, <3>1, <3>2 DEF GeberSeite, Gegenseite, SEITE
    <3> QED BY <2>1, <3>1, <3>3, MaxOrdersAnnahme DEF OrderIn, OID
  <2>3. NichtSchlechter(s, t, knoten[y].tick) /\ (t = knoten[y].tick => knoten[x].oid <= knoten[y].oid)
    BY <1>1, <1>2, <2>1, <2>2, GeberHatVorrang DEF HatVorrang
  <2>4. knoten[y].oid = knoten[x].oid => y = x
    BY <1>1, <2>1, RuhendeSindOrders
  <2>5. z # h => knoten[x].oid # knoten[y].oid
    BY <2>1, <2>4
  <2>6. PZ!Vorrang(h, z) <=> IF t = knoten[y].tick THEN knoten[x].oid < knoten[y].oid
                             ELSE NichtSchlechter(s, t, knoten[y].tick)
    BY <1>2, <2>2 DEF PZ!Vorrang, PZ!NichtSchlechter, NichtSchlechter, VERKAUF
  <2> QED BY <2>2, <2>3, <2>5, <2>6
<1> HIDE DEF s, t, x, h
<1> QED BY <1>1, <1>2, <1>3 DEF s, t, x, h
-----------------------------------------------------------------------------
(* How far the running call has come, as seen from the book it met.        *)
Passt ==
    /\ anfrage \in PZ!AUFTRAEGE
    /\ anfrage.seite = nehmer.seite /\ PZ!Grenze(anfrage) = nehmer.grenze
    /\ anfrage.menge = nehmer.eingang /\ PZ!Bleibt(anfrage) = nehmer.bleibt
StandGlatt ==
    \E K \in SUBSET vor :
        Glatt(vor, anfrage, nehmer.oid, K, nehmer.menge, RuhendeOrders, Range(aus))
StandAngebrochen ==
    /\ nehmer.menge = 0
    /\ \E K \in SUBSET vor, h \in vor, p \in MENGE :
        Angebrochen(vor, anfrage, nehmer.oid, K, h, p, RuhendeOrders, Range(aus))

(* The inductive invariant: between calls nothing is pending; inside one,  *)
(* the book and the executions are those of a taker that has taken from    *)
(* the orders in its reach in their order, and had to leave at most one of *)
(* them a rest.                                                            *)
VInv ==
    /\ zurecht
    /\ Ruhig => anfrage = PZ!KEINE
    /\ ~Ruhig => Passt /\ Orders(vor) /\ (StandGlatt \/ StandAngebrochen)

(* An appended execution is one more.                                      *)
LEMMA RangeMit ==
    ASSUME NEW S, NEW q \in Seq(S), NEW e \in S
    PROVE  Range(Append(q, e)) = Range(q) \cup {e}
<1>1. Len(q) \in Nat /\ DOMAIN q = 1 .. Len(q) /\ DOMAIN Append(q, e) = 1 .. Len(q) + 1
  OBVIOUS
<1>2. \A i \in 1 .. Len(q) : Append(q, e)[i] = q[i]
  OBVIOUS
<1>3. Append(q, e)[Len(q) + 1] = e
  OBVIOUS
<1>4. \A i \in 1 .. Len(q) + 1 : i \in 1 .. Len(q) \/ i = Len(q) + 1
  BY <1>1
<1>5. 1 .. Len(q) \subseteq 1 .. Len(q) + 1 /\ Len(q) + 1 \in 1 .. Len(q) + 1
  BY <1>1
<1> QED BY <1>1, <1>2, <1>3, <1>4, <1>5 DEF Range

(* The arguments of a call.                                                *)
LEMMA Auftragsfelder ==
    ASSUME NEW a \in PZ!AUFTRAEGE
    PROVE  a.seite \in SEITE /\ a.menge \in MENGEN /\ a.menge \in Nat /\ a # PZ!KEINE
<1>1. \A q \in MENGEN : q \in Nat
  BY MengenAnnahme, U64Annahme
<1>2. a.seite \in SEITE /\ a.menge \in MENGEN /\ a.art \in {"limit", "markt"}
  BY DEF PZ!AUFTRAEGE, PZ!AuftraegeUeber, PZ!LimitAuftrag, PZ!MarktAuftrag, PZ!SEITE,
         SEITE, KAUF, VERKAUF
<1> QED BY <1>1, <1>2 DEF PZ!KEINE

(* The order the next turn takes from is the first that is left in reach.  *)
LEMMA NaechsterGeber ==
    ASSUME IInv, Weiter, Passt, Orders(vor), NEW K \in SUBSET vor,
           Glatt(vor, anfrage, nehmer.oid, K, nehmer.menge, RuhendeOrders, Range(aus))
    PROVE  LET h == OrderIn(Geber)
           IN  /\ h \in vor /\ h \in PZ!Erreichbar(vor, anfrage) \ K
               /\ h.menge = knoten[Geber].menge /\ h.menge \in Nat \ {0}
               /\ \A z \in PZ!Erreichbar(vor, anfrage) \ K : z = h \/ PZ!Vorrang(h, z)
               /\ \A m : Fuellung(anfrage, nehmer.oid, h, m)
                         = [tick |-> GeberTick, menge |-> m, nehmer |-> nehmer.oid,
                            geber |-> knoten[Geber].oid, nehmer_kauft |-> nehmer.seite = KAUF]
<1> DEFINE h == OrderIn(Geber)
<1>1. RuhendeOrders = vor \ K
  BY DEF Glatt
<1>2. /\ h \in RuhendeOrders /\ knoten[Geber].tick = GeberTick
      /\ knoten[Geber].seite # nehmer.seite
      /\ NichtSchlechter(knoten[Geber].seite, knoten[Geber].tick, nehmer.grenze)
      /\ \A z \in RuhendeOrders : z.seite # nehmer.seite => z = h \/ PZ!Vorrang(h, z)
  BY GeberIstErster
<1>3. /\ h.seite = knoten[Geber].seite /\ h.tick = knoten[Geber].tick
      /\ h.menge = knoten[Geber].menge /\ h.oid = knoten[Geber].oid
  BY DEF OrderIn
<1> HIDE DEF h
<1>4. h \in PZ!Erreichbar(vor, anfrage) \ K
  BY <1>1, <1>2, <1>3 DEF PZ!Erreichbar, Passt, PZ!NichtSchlechter, NichtSchlechter, VERKAUF
<1>5. \A z \in PZ!Erreichbar(vor, anfrage) \ K : z = h \/ PZ!Vorrang(h, z)
  BY <1>1, <1>2 DEF PZ!Erreichbar, Passt
<1>6. h.menge \in Nat \ {0}
  BY <1>1, <1>2, Felder
<1>7. \A m : Fuellung(anfrage, nehmer.oid, h, m)
             = [tick |-> GeberTick, menge |-> m, nehmer |-> nehmer.oid,
                geber |-> knoten[Geber].oid, nehmer_kauft |-> nehmer.seite = KAUF]
  BY <1>2, <1>3 DEF Fuellung, Passt
<1> QED BY <1>1, <1>2, <1>3, <1>4, <1>5, <1>6, <1>7 DEF h

(* A booked execution.                                                     *)
LEMMA Gebucht ==
    ASSUME IInv, Weiter, NEW m \in MENGE, Verbuchen(m)
    PROVE  Range(aus') = Range(aus) \cup
              {[tick |-> GeberTick, menge |-> m, nehmer |-> nehmer.oid,
                geber |-> knoten[Geber].oid, nehmer_kauft |-> nehmer.seite = KAUF]}
<1> DEFINE e == [tick |-> GeberTick, menge |-> m, nehmer |-> nehmer.oid,
                 geber |-> knoten[Geber].oid, nehmer_kauft |-> nehmer.seite = KAUF]
<1>1. aus \in Seq(Ausfuehrung) /\ nehmer.oid \in OID
  BY DEF IInv, TypeOK, Nehmer
<1>2. e \in Ausfuehrung
  BY <1>1, GeberLiegt DEF Ausfuehrung
<1>3. aus' = Append(aus, e)
  BY DEF Verbuchen
<1> HIDE DEF e
<1>4. Range(aus') = Range(aus) \cup {e}
  BY <1>1, <1>2, <1>3, RangeMit
<1> QED BY <1>4 DEF e

(* A turn that leaves its maker a rest.                                    *)
LEMMA GeberBleibtStand ==
    ASSUME IInv, VInv, GeberBleibt, UNCHANGED <<vor, anfrage>>
    PROVE  StandAngebrochen' /\ Passt' /\ ~Ruhig /\ ~Ruhig'
<1>0. PICK x \in SLOT : x = Geber
  BY GeberLiegt DEF GeberBleibt
<1> DEFINE h == OrderIn(x)
           p == nehmer.menge
<1>1. /\ Weiter /\ ~Ruhig /\ p < knoten[x].menge /\ Verbuchen(p)
      /\ knoten' = [knoten EXCEPT ![x].menge = @ - p] /\ platz' = platz
      /\ p > 0 /\ p \in MENGE /\ p \in Nat
  BY <1>0, U64Annahme DEF GeberBleibt, Weiter, IInv, TypeOK, Nehmer, MENGE
<1>2. nehmer \in Nehmer /\ nehmer' = [nehmer EXCEPT !.menge = @ - p]
  BY <1>1 DEF Verbuchen, IInv, TypeOK
<1>3. /\ nehmer'.menge = 0 /\ nehmer'.oid = nehmer.oid /\ nehmer'.seite = nehmer.seite
      /\ nehmer'.grenze = nehmer.grenze /\ nehmer'.eingang = nehmer.eingang
      /\ nehmer'.bleibt = nehmer.bleibt
  BY <1>1, <1>2 DEF Nehmer
<1>4. Passt /\ Passt' /\ Orders(vor) /\ ~Ruhig'
  BY <1>1, <1>3 DEF VInv, Passt, Ruhig
<1>5. PICK K \in SUBSET vor :
          Glatt(vor, anfrage, nehmer.oid, K, p, RuhendeOrders, Range(aus))
  BY <1>1 DEF VInv, StandGlatt, StandAngebrochen
<1>6. /\ h \in vor /\ h \in PZ!Erreichbar(vor, anfrage) \ K /\ h.menge = knoten[x].menge
      /\ \A z \in PZ!Erreichbar(vor, anfrage) \ K : z = h \/ PZ!Vorrang(h, z)
      /\ Fuellung(anfrage, nehmer.oid, h, p)
         = [tick |-> GeberTick, menge |-> p, nehmer |-> nehmer.oid,
            geber |-> knoten[x].oid, nehmer_kauft |-> nehmer.seite = KAUF]
  BY <1>0, <1>1, <1>4, <1>5, NaechsterGeber
<1>7. RuhendeOrders' = (RuhendeOrders \ {h}) \cup {[h EXCEPT !.menge = @ - p]}
  <2>1. x \in SLOT /\ Lebt(x) /\ knoten \in [SLOT -> Knoten]
    BY <1>0, <1>1, GeberIstErster DEF IInv, TypeOK
  <2>2. \A y \in SLOT : /\ knoten'[y].oid = knoten[y].oid
                        /\ y # x => knoten'[y] = knoten[y]
    BY <1>1, <2>1 DEF Knoten
  <2>3. knoten'[x] = [knoten[x] EXCEPT !.menge = @ - p]
    BY <1>1, <2>1
  <2>4. OrderIn(x)' = [h EXCEPT !.menge = @ - p]
    BY <2>1, <2>3 DEF OrderIn, Knoten
  <2>5. \A y \in SLOT : (Lebt(y)' <=> Lebt(y)) /\ (y # x => OrderIn(y)' = OrderIn(y))
    BY <1>1, <2>2 DEF Lebt, OrderIn
  <2> HIDE DEF h, p
  <2> QED BY <2>1, <2>4, <2>5, RuhendeAnders DEF h
<1>8. Range(aus') = Range(aus) \cup {Fuellung(anfrage, nehmer.oid, h, p)}
  BY <1>0, <1>1, <1>6, Gebucht
<1>9. Angebrochen(vor, anfrage, nehmer.oid, K, h, p, RuhendeOrders', Range(aus'))
  BY <1>1, <1>5, <1>6, <1>7, <1>8 DEF Angebrochen, Glatt
<1> HIDE DEF h, p
<1> QED BY <1>1, <1>3, <1>4, <1>6, <1>9 DEF StandAngebrochen

(* A turn that uses its maker up.                                          *)
LEMMA GeberVerbrauchtStand ==
    ASSUME IInv, VInv, GeberVerbraucht, UNCHANGED <<vor, anfrage>>
    PROVE  StandGlatt' /\ Passt' /\ ~Ruhig /\ ~Ruhig'
<1>0. PICK x \in SLOT : x = Geber
  BY GeberLiegt DEF GeberVerbraucht
<1> DEFINE h == OrderIn(x)
           m == knoten[x].menge
           n == nehmer.oid
           w == knoten[x].weiter
<1>1. /\ Weiter /\ ~Ruhig /\ nehmer.menge >= m /\ Verbuchen(m)
      /\ nehmer.menge > 0 /\ nehmer.menge \in Nat
      /\ platz' = [platz EXCEPT ![knoten[x].oid] = KEIN]
      /\ knoten' = [y \in SLOT |->
                      IF y = x THEN [knoten[y] EXCEPT !.menge = 0]
                      ELSE IF y = w THEN NeuerKopf(knoten[y]) ELSE knoten[y]]
  <2>1. nehmer.menge \in Nat
    BY U64Annahme DEF IInv, TypeOK, Nehmer, MENGE
  <2>2. Weiter /\ ~Ruhig /\ nehmer.menge > 0
    BY DEF GeberVerbraucht, Weiter
  <2> QED BY <1>0, <2>1, <2>2 DEF GeberVerbraucht
<1>2. nehmer \in Nehmer /\ nehmer' = [nehmer EXCEPT !.menge = @ - m]
  BY <1>1 DEF Verbuchen, IInv, TypeOK
<1>3. /\ nehmer'.menge = nehmer.menge - m /\ nehmer'.oid = n /\ nehmer'.seite = nehmer.seite
      /\ nehmer'.grenze = nehmer.grenze /\ nehmer'.eingang = nehmer.eingang
      /\ nehmer'.bleibt = nehmer.bleibt
  BY <1>2 DEF Nehmer
<1>4. Passt /\ Passt' /\ Orders(vor) /\ ~Ruhig'
  BY <1>1, <1>3 DEF VInv, Passt, Ruhig
<1>5. PICK K \in SUBSET vor :
          Glatt(vor, anfrage, n, K, nehmer.menge, RuhendeOrders, Range(aus))
  BY <1>1 DEF VInv, StandGlatt, StandAngebrochen
<1>6. /\ h \in vor /\ h \in PZ!Erreichbar(vor, anfrage) \ K /\ h.menge = m /\ m \in Nat \ {0}
      /\ \A z \in PZ!Erreichbar(vor, anfrage) \ K : z = h \/ PZ!Vorrang(h, z)
      /\ Fuellung(anfrage, n, h, m)
         = [tick |-> GeberTick, menge |-> m, nehmer |-> n,
            geber |-> knoten[x].oid, nehmer_kauft |-> nehmer.seite = KAUF]
  BY <1>0, <1>1, <1>4, <1>5, NaechsterGeber
<1>7. RuhendeOrders' = RuhendeOrders \ {h}
  <2>1. x \in SLOT /\ Lebt(x) /\ knoten \in [SLOT -> Knoten] /\ platz \in [OID -> VERWEIS]
    BY <1>0, <1>1, GeberIstErster DEF IInv, TypeOK
  <2>2. \A y \in SLOT : /\ knoten'[y].oid = knoten[y].oid
                        /\ y # x => OrderIn(y)' = OrderIn(y)
    BY <1>1, <2>1 DEF Knoten, NeuerKopf, OrderIn
  <2>3. \A y \in SLOT : knoten[y].oid \in OID /\ y # KEIN
    BY <2>1, MaxOrdersAnnahme DEF Knoten, SLOT, KEIN
  <2>4. \A y \in SLOT : Lebt(y) /\ y # x => knoten[y].oid # knoten[x].oid
    BY <2>1, RuhendeSindOrders
  <2>5. \A y \in SLOT : Lebt(y)' <=> Lebt(y) /\ y # x
    BY <1>1, <2>1, <2>2, <2>3, <2>4 DEF Lebt
  <2> HIDE DEF h, m
  <2> QED BY <2>1, <2>2, <2>5, RuhendeOhne DEF h
<1>8. Range(aus') = Range(aus) \cup {Fuellung(anfrage, n, h, m)}
  <2>1. m \in MENGE
    BY <1>0, <1>1, GeberLiegt
  <2> QED BY <1>0, <1>1, <1>6, <2>1, Gebucht
<1>9. Glatt(vor, anfrage, n, K \cup {h}, nehmer.menge - m, RuhendeOrders', Range(aus'))
  <2> HIDE DEF h, m, n
  <2>1. /\ Zuerst(vor, anfrage, K) /\ PZ!Summe(K) + nehmer.menge = anfrage.menge
        /\ RuhendeOrders = vor \ K
        /\ Range(aus) = {Fuellung(anfrage, n, k, k.menge) : k \in K}
    BY <1>5 DEF Glatt
  <2>2. Zuerst(vor, anfrage, K \cup {h})
    BY <1>6, <2>1 DEF Zuerst
  <2>3. PZ!Summe(K \cup {h}) = PZ!Summe(K) + m /\ PZ!Summe(K) \in Nat
    BY <1>4, <1>6, SummeEinMehr, SummeVon
  <2>4. PZ!Summe(K \cup {h}) + (nehmer.menge - m) = anfrage.menge
    BY <1>1, <1>6, <2>1, <2>3
  <2>5. Range(aus') = {Fuellung(anfrage, n, k, k.menge) : k \in K \cup {h}}
    BY <1>6, <1>8, <2>1
  <2>6. RuhendeOrders' = vor \ (K \cup {h})
    BY <1>7, <2>1
  <2> QED BY <2>2, <2>4, <2>5, <2>6 DEF Glatt
<1> HIDE DEF h, m
<1>10. K \cup {h} \in SUBSET vor
  BY <1>6
<1> QED BY <1>1, <1>3, <1>4, <1>9, <1>10 DEF StandGlatt
-----------------------------------------------------------------------------
(* When the loop ends, the taker has got what the rules give it.           *)
LEMMA Ende ==
    ASSUME IInv, VInv, ~Ruhig, ~Weiter
    PROVE  /\ PZ!Rest(vor, anfrage) = nehmer.menge
           /\ PZ!Ausfuehrungen(vor, anfrage, nehmer.oid) = Range(aus)
           /\ PZ!Danach(vor, anfrage, nehmer.oid)
                = RuhendeOrders \cup Neuling(vor, anfrage, nehmer.oid)
<1>1. /\ Passt /\ Orders(vor) /\ (StandGlatt \/ StandAngebrochen)
      /\ nehmer.menge \in Nat /\ nehmer.seite \in SEITE /\ nehmer.grenze \in Nat
      /\ anfrage.seite = nehmer.seite /\ anfrage.menge \in Nat /\ anfrage.seite \in SEITE
  <2>1. nehmer \in Nehmer /\ Passt
    BY DEF VInv, IInv, TypeOK
  <2>2. /\ nehmer.menge \in MENGE /\ nehmer.seite \in SEITE /\ nehmer.grenze \in TICK
        /\ anfrage.seite = nehmer.seite
    BY <2>1 DEF Nehmer, Passt
  <2>3. anfrage.menge \in Nat
    BY <2>1, Auftragsfelder DEF Passt
  <2> QED BY <2>2, <2>3, U64Annahme, TicksAnnahme DEF VInv, MENGE, TICK
<1>2. CASE StandGlatt
  <2>1. PICK K \in SUBSET vor :
            Glatt(vor, anfrage, nehmer.oid, K, nehmer.menge, RuhendeOrders, Range(aus))
    BY <1>2 DEF StandGlatt
  <2>2. nehmer.menge = 0 \/ K = PZ!Erreichbar(vor, anfrage)
    <3>1. SUFFICES ASSUME nehmer.menge > 0 PROVE PZ!Erreichbar(vor, anfrage) \subseteq K
      BY <1>1, <2>1 DEF Glatt, Zuerst
    <3>2. ~WuerdeKreuzen(nehmer.seite, nehmer.grenze)
      BY <3>1 DEF Weiter
    <3>3. ASSUME NEW z \in PZ!Erreichbar(vor, anfrage), z \notin K PROVE FALSE
      <4>1. z \in RuhendeOrders /\ z.seite # nehmer.seite
        BY <1>1, <2>1, <3>3 DEF Glatt, PZ!Erreichbar
      <4>2. NichtSchlechter(z.seite, z.tick, nehmer.grenze)
        BY <1>1 DEF PZ!Erreichbar, Passt, PZ!NichtSchlechter, NichtSchlechter, VERKAUF
      <4> QED BY <1>1, <3>2, <4>1, <4>2, KreuzenHeisstErreichbar
    <3> QED BY <3>3
  <2> QED BY <1>1, <2>1, <2>2, GlattFertig
<1>3. CASE StandAngebrochen
  <2>1. PICK K \in SUBSET vor, h \in vor, p \in MENGE :
            Angebrochen(vor, anfrage, nehmer.oid, K, h, p, RuhendeOrders, Range(aus))
    BY <1>3 DEF StandAngebrochen
  <2> QED BY <1>1, <1>3, <2>1, AngebrochenFertig DEF StandAngebrochen
<1> QED BY <1>1, <1>2, <1>3

(* What the atomic book sees of the state.                                 *)
LEMMA Bild ==
    ASSUME IInv, VInv
    PROVE  /\ Ruhig <=> anfrage = PZ!KEINE
           /\ ~Ruhig => naechste_oid = nehmer.oid + 1 /\ nehmer.oid \in Nat
           /\ naechste_oid \in Nat
<1>1. naechste_oid \in Nat /\ nehmer.oid \in Nat
  BY MaxOrdersAnnahme DEF IInv, TypeOK, Nehmer, OID
<1>2. ~Ruhig => nehmer.oid = naechste_oid - 1
  BY DEF IInv, PlatzStimmt
<1>3. ~Ruhig => anfrage # PZ!KEINE
  BY Auftragsfelder DEF VInv, Passt
<1> QED BY <1>1, <1>2, <1>3 DEF VInv

(* Nothing of the rest stays.                                              *)
LEMMA OhneRestSchritt ==
    ASSUME IInv, VInv, OhneRest, Verlauf
    PROVE  VInv' /\ PZ!Beantworten
<1>1. /\ ~Ruhig /\ ~Weiter /\ (nehmer.menge = 0 \/ ~nehmer.bleibt)
      /\ antwort' = [oid |-> KEIN, ausgefuehrt |-> nehmer.eingang - nehmer.menge,
                     ruhend |-> 0, abgelehnt |-> FALSE]
      /\ nehmer' = NIEMAND /\ naechste_oid' = naechste_oid /\ aus' = aus
      /\ UNCHANGED <<knoten, platz>>
  BY DEF OhneRest, Antworten, ablage
<1>2. /\ Ruhig' /\ anfrage' = PZ!KEINE /\ storno' = storno /\ zurecht' = zurecht
      /\ RuhendeOrders' = RuhendeOrders
  BY <1>1, RuhendeGleich DEF Verlauf, Ruhig, NIEMAND
<1>3. Passt /\ nehmer.menge \in Nat
  BY <1>1, U64Annahme DEF VInv, IInv, TypeOK, Nehmer, MENGE
<1>4. /\ PZ!Rest(vor, anfrage) = nehmer.menge
      /\ PZ!Ausfuehrungen(vor, anfrage, nehmer.oid) = Range(aus)
      /\ PZ!Danach(vor, anfrage, nehmer.oid)
           = RuhendeOrders \cup Neuling(vor, anfrage, nehmer.oid)
  BY <1>1, Ende
<1>5. PZ!Ruhend(vor, anfrage) = 0
  BY <1>1, <1>3, <1>4 DEF PZ!Ruhend, Passt
<1>6. PZ!Danach(vor, anfrage, nehmer.oid) = RuhendeOrders'
  <2>1. Neuling(vor, anfrage, nehmer.oid) = {}
    BY <1>5 DEF Neuling
  <2> QED BY <1>2, <1>4, <2>1
<1>7. PZ!Beantworten
  <2>1. anfrage # PZ!KEINE /\ naechste_oid = nehmer.oid + 1
    BY <1>1, Bild
  <2>2. antwort' = [oid |-> IF PZ!Ruhend(vor, anfrage) > 0 THEN nehmer.oid ELSE PZ!KEIN,
                    ausgefuehrt |-> anfrage.menge - PZ!Rest(vor, anfrage),
                    ruhend |-> PZ!Ruhend(vor, anfrage), abgelehnt |-> FALSE]
    BY <1>1, <1>3, <1>4, <1>5 DEF PZ!KEIN, KEIN, Passt
  <2>3. (IF Ruhig THEN Range(aus) ELSE {})' = PZ!Ausfuehrungen(vor, anfrage, nehmer.oid)
    BY <1>1, <1>2, <1>4
  <2>4. (IF Ruhig THEN RuhendeOrders ELSE vor)' = PZ!Danach(vor, anfrage, nehmer.oid)
    BY <1>2, <1>6
  <2>5. (IF Ruhig THEN naechste_oid ELSE nehmer.oid)' = nehmer.oid + 1
    BY <1>1, <1>2, <2>1
  <2> QED BY <1>1, <1>2, <1>5, <2>1, <2>2, <2>3, <2>4, <2>5 DEF PZ!Beantworten
<1>8. VInv'
  BY <1>1, <1>2 DEF VInv
<1> QED BY <1>7, <1>8

(* The rest stays in the book.                                             *)
LEMMA LegenSchritt ==
    ASSUME IInv, VInv, Legen, Verlauf
    PROVE  VInv' /\ PZ!Beantworten
<1>0. PICK x \in SLOT : x = FreierSlot /\ ~Lebt(x)
  BY FreierSlotFrei DEF Legen
<1> DEFINE n == nehmer.oid
           neu == [oid |-> n, seite |-> nehmer.seite, tick |-> nehmer.grenze,
                   menge |-> nehmer.menge]
<1>1. /\ ~Ruhig /\ ~Weiter /\ nehmer.menge > 0 /\ nehmer.bleibt
      /\ antwort' = [oid |-> n, ausgefuehrt |-> nehmer.eingang - nehmer.menge,
                     ruhend |-> nehmer.menge, abgelehnt |-> FALSE]
      /\ nehmer' = NIEMAND /\ naechste_oid' = naechste_oid /\ aus' = aus
      /\ platz' = [platz EXCEPT ![n] = x]
  <2>1. ~Ruhig /\ ~Weiter /\ nehmer.menge > 0 /\ nehmer.bleibt
    BY DEF Legen
  <2>2. Antworten(n, nehmer.menge)
    BY DEF Legen
  <2>3. platz' = [platz EXCEPT ![n] = x]
    BY <1>0 DEF Legen
  <2> QED BY <2>1, <2>2, <2>3 DEF Antworten
<1>2. /\ \A y \in SLOT \ {x} : OrderIn(y)' = OrderIn(y)
      /\ knoten'[x].oid = n /\ OrderIn(x)' = neu
  <2>1. knoten \in [SLOT -> Knoten]
    BY DEF IInv, TypeOK
  <2>2. \A y \in SLOT \ {x} : \/ knoten'[y] = knoten[y]
                              \/ knoten'[y] = [knoten[y] EXCEPT !.weiter = x]
    BY <1>0 DEF Legen
  <2>3. \A y \in SLOT \ {x} : OrderIn(y)' = OrderIn(y)
    BY <2>1, <2>2 DEF OrderIn, Knoten
  <2>4. \E z : knoten'[x] = [oid |-> n, menge |-> nehmer.menge, tick |-> nehmer.grenze,
                             seite |-> nehmer.seite, weiter |-> KEIN, zurueck |-> z]
    BY <1>0 DEF Legen
  <2>5. knoten'[x].oid = n /\ OrderIn(x)' = neu
    BY <2>4 DEF OrderIn
  <2> QED BY <2>3, <2>5
<1>3. RuhendeOrders' = RuhendeOrders \cup {neu}
  <2>1. /\ platz \in [OID -> VERWEIS] /\ n \in OID /\ x # KEIN
        /\ \A y \in SLOT : knoten[y].oid \in OID /\ y # KEIN
    BY MaxOrdersAnnahme DEF IInv, TypeOK, Knoten, Nehmer, SLOT, KEIN
  <2>2. \A y \in SLOT : Lebt(y) => knoten[y].oid # n
    BY <2>1 DEF IInv, PlatzStimmt, Lebt
  <2>3. \A y \in SLOT \ {x} : knoten'[y].oid = knoten[y].oid
    BY <1>2 DEF OrderIn
  <2>4. ASSUME NEW y \in SLOT PROVE Lebt(y)' <=> Lebt(y) \/ y = x
    <3>1. CASE y = x
      BY <1>1, <1>2, <2>1, <3>1 DEF Lebt
    <3>2. CASE y # x /\ knoten[y].oid = n
      BY <1>1, <2>1, <2>2, <2>3, <3>2 DEF Lebt
    <3>3. CASE y # x /\ knoten[y].oid # n
      BY <1>1, <2>1, <2>3, <3>3 DEF Lebt
    <3> QED BY <3>1, <3>2, <3>3
  <2> HIDE DEF neu, n
  <2>5. RuhendeOrders' = RuhendeOrders \cup {OrderIn(x)'}
    BY <1>0, <1>2, <2>4, RuhendeMit
  <2> QED BY <1>2, <2>5
<1>4. /\ Ruhig' /\ anfrage' = PZ!KEINE /\ storno' = storno /\ zurecht' = zurecht
  BY <1>1 DEF Verlauf, Ruhig, NIEMAND
<1>5. Passt /\ nehmer.menge \in Nat
  BY <1>1, U64Annahme DEF VInv, IInv, TypeOK, Nehmer, MENGE
<1>6. /\ PZ!Rest(vor, anfrage) = nehmer.menge
      /\ PZ!Ausfuehrungen(vor, anfrage, n) = Range(aus)
      /\ PZ!Danach(vor, anfrage, n) = RuhendeOrders \cup Neuling(vor, anfrage, n)
  BY <1>1, Ende
<1>7. PZ!Ruhend(vor, anfrage) = nehmer.menge
  BY <1>1, <1>5, <1>6 DEF PZ!Ruhend, Passt
<1>8. Neuling(vor, anfrage, n) = {neu}
  BY <1>1, <1>5, <1>6, <1>7 DEF Neuling, Passt
<1>9. PZ!Beantworten
  BY <1>1, <1>3, <1>4, <1>5, <1>6, <1>7, <1>8, Bild DEF PZ!Beantworten, PZ!KEIN, KEIN, Passt
<1>10. VInv'
  BY <1>1, <1>4 DEF VInv
<1> QED BY <1>9, <1>10
-----------------------------------------------------------------------------
(* A call is turned away by buch.rs exactly when the rules demand it.      *)
LEMMA UnzulaessigStimmt ==
    ASSUME IInv, Ruhig
    PROVE  /\ \A s \in SEITE, t \in 0 .. TICKS, q \in MENGEN, g \in GUELTIGKEIT :
                 PZ!Unzulaessig(PZ!LimitAuftrag(s, t, q, g)) <=> LimitUnzulaessig(s, t, q, g)
           /\ \A s \in SEITE, q \in MENGEN :
                 PZ!Unzulaessig(PZ!MarktAuftrag(s, q)) <=> q = 0
<1>1. ASSUME NEW s \in SEITE, NEW t \in 0 .. TICKS, NEW q \in MENGEN, NEW g \in GUELTIGKEIT
      PROVE  PZ!Unzulaessig(PZ!LimitAuftrag(s, t, q, g)) <=> LimitUnzulaessig(s, t, q, g)
  <2> DEFINE a == PZ!LimitAuftrag(s, t, q, g)
  <2>1. /\ a.art = "limit" /\ a.seite = s /\ a.tick = t /\ a.menge = q /\ a.gueltigkeit = g
        /\ PZ!Grenze(a) = t
    BY DEF PZ!LimitAuftrag, PZ!Grenze
  <2>2. t \in Nat
    BY TicksAnnahme
  <2>3. WuerdeKreuzen(s, t) <=>
           \E r \in RuhendeOrders : r.seite # s /\ NichtSchlechter(r.seite, r.tick, t)
    BY <2>2, KreuzenHeisstErreichbar
  <2> HIDE DEF a
  <2>4. PZ!Erreichbar(RuhendeOrders, a) # {} <=>
           \E r \in RuhendeOrders : r.seite # s /\ NichtSchlechter(r.seite, r.tick, t)
    BY <2>1 DEF PZ!Erreichbar, PZ!NichtSchlechter, NichtSchlechter, VERKAUF
  <2>5. PZ!Unzulaessig(a) <=> q = 0 \/ t >= TICKS
                               \/ (g = "NurLegen" /\ PZ!Erreichbar(RuhendeOrders, a) # {})
    BY <2>1 DEF PZ!Unzulaessig, PZ!Abzulehnen
  <2> QED BY <2>3, <2>4, <2>5 DEF LimitUnzulaessig, a
<1>2. ASSUME NEW s \in SEITE, NEW q \in MENGEN
      PROVE  PZ!Unzulaessig(PZ!MarktAuftrag(s, q)) <=> q = 0
  BY DEF PZ!Unzulaessig, PZ!Abzulehnen, PZ!MarktAuftrag
<1> QED BY <1>1, <1>2

(* A call that is taken enters the loop with nothing done yet.             *)
LEMMA AnnahmeSchritt ==
    ASSUME IInv, VInv, Ruhig, NEW a \in PZ!AUFTRAEGE, ~PZ!Unzulaessig(a), Annahme(a),
           NEW grenze, NEW bleibt, Beginnen(a.seite, grenze, a.menge, bleibt),
           PZ!Grenze(a) = grenze, PZ!Bleibt(a) = bleibt
    PROVE  VInv' /\ PZ!Rufen(a)
<1>1. /\ nehmer' = [oid |-> naechste_oid, seite |-> a.seite, grenze |-> grenze,
                    eingang |-> a.menge, menge |-> a.menge, bleibt |-> bleibt]
      /\ aus' = <<>> /\ antwort' = OFFEN /\ UNCHANGED <<knoten, platz>>
      /\ vor' = RuhendeOrders /\ anfrage' = a /\ storno' = KEIN /\ zurecht'
  BY DEF Beginnen, ablage, Annahme
<1>2. naechste_oid \in Nat \ {0} /\ ~Ruhig' /\ RuhendeOrders' = RuhendeOrders
  BY <1>1, MaxOrdersAnnahme, RuhendeGleich DEF IInv, TypeOK, Ruhig
<1>3. Range(<<>>) = {}
  BY DEF Range
<1>4. a.seite \in SEITE /\ a.menge \in Nat
  BY Auftragsfelder
<1>5. Orders(RuhendeOrders)
  BY RuhendeSindOrders
<1>6. Passt'
  BY <1>1 DEF Passt
<1>7. Glatt(vor', anfrage', nehmer'.oid, {}, nehmer'.menge, RuhendeOrders', Range(aus'))
  BY <1>1, <1>2, <1>3, <1>4, SummeKlein DEF Glatt, Zuerst
<1>8. StandGlatt'
  BY <1>7 DEF StandGlatt
<1>9. Orders(vor)'
  BY <1>1, <1>5 DEF Orders
<1>10. VInv'
  BY <1>1, <1>2, <1>6, <1>8, <1>9 DEF VInv
<1>11. PZ!Rufen(a)
  BY <1>1, <1>2, Bild DEF PZ!Rufen, PZ!OFFEN, OFFEN, PZ!KEIN, KEIN
<1> QED BY <1>10, <1>11

(* A call that is turned away changes nothing but the answer.              *)
LEMMA AbweisungSchritt ==
    ASSUME IInv, VInv, Ruhig, NEW a \in PZ!AUFTRAEGE, PZ!Unzulaessig(a), Abweisung(a),
           antwort' = ABGELEHNT, aus' = <<>>,
           UNCHANGED <<ablage, leiter, zaehler, naechste_oid, nehmer>>
    PROVE  VInv' /\ PZ!Ablehnen(a)
<1>1. /\ Ruhig' /\ RuhendeOrders' = RuhendeOrders /\ Range(aus') = {}
      /\ storno' = KEIN /\ zurecht' /\ vor' = vor /\ anfrage' = anfrage
      /\ naechste_oid' = naechste_oid
  BY RuhendeGleich DEF ablage, Ruhig, Range, Abweisung
<1>2. VInv'
  BY <1>1 DEF VInv
<1>3. PZ!Ablehnen(a)
  BY <1>1, Bild DEF PZ!Ablehnen, PZ!ABGELEHNT, ABGELEHNT, PZ!KEIN, KEIN
<1> QED BY <1>2, <1>3

(* A cancelled order leaves, with the quantity it still had.               *)
LEMMA StornierenSchritt ==
    ASSUME IInv, VInv, NEW o \in 0 .. MAX_ORDERS + 1,
           Stornieren(o) \/ StornierenVergeblich(o),
           storno' = o, UNCHANGED <<vor, anfrage, zurecht>>
    PROVE  VInv' /\ PZ!Stornieren(o)
<1>1. Ruhig /\ Ruhig' /\ aus' = <<>> /\ naechste_oid' = naechste_oid
  BY DEF Stornieren, StornierenVergeblich, Ruhig
<1>2. VInv' /\ anfrage = PZ!KEINE /\ anfrage' = PZ!KEINE /\ Range(aus') = {}
  BY <1>1 DEF VInv, Range
<1>3. /\ platz \in [OID -> VERWEIS] /\ knoten \in [SLOT -> Knoten]
      /\ \A y \in SLOT : knoten[y].oid \in OID /\ y # KEIN
  BY MaxOrdersAnnahme DEF IInv, TypeOK, Knoten, SLOT, KEIN
<1> DEFINE R == RuhendeOrders \ PZ!Ohne(RuhendeOrders, o)
<1>4. CASE Stornieren(o)
  <2>1. PICK x \in SLOT : x = platz[o] /\ Lebt(x) /\ knoten[x].oid = o
    BY <1>3, <1>4 DEF Stornieren, liegt, Lebt, IInv, PlatzStimmt, VERWEIS
  <2>2. antwort' = [storniert |-> knoten[x].menge] /\ platz' = [platz EXCEPT ![o] = KEIN]
    BY <1>4, <2>1 DEF Stornieren
  <2>3. \A y \in SLOT : OrderIn(y)' = OrderIn(y) /\ knoten'[y].oid = knoten[y].oid
    BY <1>3, <1>4 DEF Stornieren, Knoten, OrderIn
  <2>4. \A y \in SLOT : Lebt(y) /\ y # x => knoten[y].oid # o
    BY <2>1, RuhendeSindOrders
  <2>5. \A y \in SLOT : Lebt(y)' <=> Lebt(y) /\ y # x
    BY <1>3, <2>1, <2>2, <2>3, <2>4 DEF Lebt
  <2>6. RuhendeOrders' = RuhendeOrders \ {OrderIn(x)}
    BY <2>1, <2>3, <2>5, RuhendeOhne
  <2>7. OrderIn(x) \in RuhendeOrders /\ OrderIn(x).oid = o /\ OrderIn(x).menge = knoten[x].menge
    BY <2>1 DEF RuhendeOrders, Lebende, OrderIn
  <2>8. Orders(RuhendeOrders)
    BY RuhendeSindOrders
  <2>9. R = {OrderIn(x)}
    BY <2>7, <2>8 DEF PZ!Ohne, Orders
  <2>10. PZ!Summe(R) = knoten[x].menge
    BY <2>7, <2>8, <2>9, SummeKlein
  <2>11. RuhendeOrders' = PZ!Ohne(RuhendeOrders, o)
    BY <2>6, <2>9 DEF PZ!Ohne
  <2> HIDE DEF R
  <2> QED BY <1>1, <1>2, <2>2, <2>9, <2>10, <2>11 DEF PZ!Stornieren, R
<1>5. CASE StornierenVergeblich(o)
  <2>1. antwort' = [storniert |-> KEIN] /\ RuhendeOrders' = RuhendeOrders
    BY <1>5, RuhendeGleich DEF StornierenVergeblich, ablage
  <2>2. \A x \in SLOT : Lebt(x) => knoten[x].oid # o
    BY <1>3, <1>5 DEF StornierenVergeblich, liegt, Lebt
  <2>3. PZ!Ohne(RuhendeOrders, o) = RuhendeOrders
    BY <2>2 DEF PZ!Ohne, RuhendeOrders, Lebende, OrderIn
  <2>4. R = {}
    BY <2>3
  <2> HIDE DEF R
  <2> QED BY <1>1, <1>2, <2>1, <2>3, <2>4 DEF PZ!Stornieren, R, PZ!KEIN, KEIN
<1> QED BY <1>4, <1>5
-----------------------------------------------------------------------------
(* Every step of the book is one of the atomic book, or none.              *)
LEMMA VertragSchritt ==
    ASSUME IInv, VInv, [MCNext]_mcvars
    PROVE  VInv' /\ [PZ!Next]_PZ!vars
<1>1. ASSUME NEW s \in SEITE, NEW t \in 0 .. TICKS, NEW q \in MENGEN, NEW g \in GUELTIGKEIT,
             \/ Limit(s, t, q, g) /\ Annahme(PZ!LimitAuftrag(s, t, q, g))
             \/ LimitAblehnen(s, t, q, g) /\ Abweisung(PZ!LimitAuftrag(s, t, q, g))
      PROVE  VInv' /\ PZ!Next
  <2> DEFINE a == PZ!LimitAuftrag(s, t, q, g)
  <2>1. /\ a \in PZ!AUFTRAEGE /\ a.seite = s /\ a.menge = q
        /\ PZ!Grenze(a) = t /\ PZ!Bleibt(a) = (g # "Ioc")
    BY DEF PZ!AUFTRAEGE, PZ!AuftraegeUeber, PZ!LimitAuftrag, PZ!Grenze, PZ!Bleibt,
           PZ!SEITE, PZ!GUELTIGKEIT, SEITE, KAUF, VERKAUF, GUELTIGKEIT
  <2>2. Ruhig
    BY <1>1 DEF Limit, LimitAblehnen
  <2>3. PZ!Unzulaessig(a) <=> LimitUnzulaessig(s, t, q, g)
    BY <2>2, UnzulaessigStimmt
  <2> HIDE DEF a
  <2>4. CASE Limit(s, t, q, g) /\ Annahme(a)
    <3>1. ~PZ!Unzulaessig(a) /\ Beginnen(a.seite, t, a.menge, g # "Ioc")
      BY <2>1, <2>3, <2>4 DEF Limit
    <3>2. VInv' /\ PZ!Rufen(a)
      BY <2>1, <2>2, <2>4, <3>1, AnnahmeSchritt
    <3> QED BY <2>1, <3>2 DEF PZ!Next
  <2>5. CASE LimitAblehnen(s, t, q, g) /\ Abweisung(a)
    <3>1. VInv' /\ PZ!Ablehnen(a)
      BY <2>1, <2>2, <2>3, <2>5, AbweisungSchritt DEF LimitAblehnen
    <3> QED BY <2>1, <3>1 DEF PZ!Next
  <2> QED BY <1>1, <2>4, <2>5 DEF a
<1>2. ASSUME NEW s \in SEITE, NEW q \in MENGEN, Markt(s, q), Annahme(PZ!MarktAuftrag(s, q))
      PROVE  VInv' /\ PZ!Next
  <2> DEFINE a == PZ!MarktAuftrag(s, q)
             grenze == IF s = KAUF THEN TICKS - 1 ELSE 0
  <2>1. /\ a \in PZ!AUFTRAEGE /\ a.seite = s /\ a.menge = q
        /\ PZ!Grenze(a) = grenze /\ PZ!Bleibt(a) = FALSE
    BY DEF PZ!AUFTRAEGE, PZ!AuftraegeUeber, PZ!MarktAuftrag, PZ!Grenze, PZ!Bleibt,
           PZ!SEITE, SEITE, KAUF, VERKAUF
  <2>2. Ruhig /\ q # 0 /\ Beginnen(a.seite, grenze, a.menge, FALSE)
    BY <1>2, <2>1 DEF Markt
  <2>3. ~PZ!Unzulaessig(a)
    BY <2>2, UnzulaessigStimmt
  <2>4. Annahme(a)
    BY <1>2
  <2> HIDE DEF a, grenze
  <2>5. VInv' /\ PZ!Rufen(a)
    BY <2>1, <2>2, <2>3, <2>4, AnnahmeSchritt
  <2> QED BY <2>1, <2>5 DEF PZ!Next
<1>3. ASSUME NEW q \in MENGEN, MarktAblehnen(q), Abweisung(PZ!MarktAuftrag(KAUF, q))
      PROVE  VInv' /\ PZ!Next
  <2> DEFINE a == PZ!MarktAuftrag(KAUF, q)
  <2>1. a \in PZ!AUFTRAEGE
    BY DEF PZ!AUFTRAEGE, PZ!AuftraegeUeber, PZ!MarktAuftrag, PZ!SEITE, KAUF
  <2>2. Ruhig /\ q = 0 /\ KAUF \in SEITE
    BY <1>3 DEF MarktAblehnen, SEITE
  <2>3. PZ!Unzulaessig(a)
    BY <2>2, UnzulaessigStimmt
  <2>4. Abweisung(a)
    BY <1>3
  <2> HIDE DEF a
  <2>5. VInv' /\ PZ!Ablehnen(a)
    BY <1>3, <2>1, <2>2, <2>3, <2>4, AbweisungSchritt DEF MarktAblehnen
  <2> QED BY <2>1, <2>5 DEF PZ!Next
<1>4. ASSUME NEW o \in 0 .. MAX_ORDERS + 1, Stornieren(o) \/ StornierenVergeblich(o),
             storno' = o, UNCHANGED <<vor, anfrage, zurecht>>
      PROVE  VInv' /\ PZ!Next
  <2>1. VInv' /\ PZ!Stornieren(o)
    BY <1>4, StornierenSchritt
  <2> QED BY <2>1 DEF PZ!Next
<1>5. ASSUME GeberBleibt \/ GeberVerbraucht, Verlauf
      PROVE  VInv' /\ UNCHANGED PZ!vars
  <2>1. ~Ruhig /\ ~Ruhig' /\ antwort' = antwort
    BY <1>5 DEF GeberBleibt, GeberVerbraucht, Weiter, Verbuchen, Ruhig, IInv, TypeOK, Nehmer
  <2>2. UNCHANGED <<vor, anfrage, storno, zurecht>>
    BY <1>5, <2>1 DEF Verlauf
  <2>3. (StandGlatt \/ StandAngebrochen)' /\ Passt'
    BY <1>5, <2>2, GeberBleibtStand, GeberVerbrauchtStand
  <2>4. nehmer'.oid = nehmer.oid
    BY <1>5 DEF GeberBleibt, GeberVerbraucht, Verbuchen, IInv, TypeOK, Nehmer
  <2>5. VInv'
    BY <2>1, <2>2, <2>3 DEF VInv, Orders
  <2>6. UNCHANGED PZ!vars
    BY <2>1, <2>2, <2>4 DEF PZ!vars
  <2> QED BY <2>5, <2>6
<1>6. CASE OhneRest /\ Verlauf
  BY <1>6, OhneRestSchritt DEF PZ!Next
<1>7. CASE Legen /\ Verlauf
  BY <1>7, LegenSchritt DEF PZ!Next
<1>8. CASE UNCHANGED mcvars
  <2>1. /\ UNCHANGED <<knoten, platz, naechste_oid, nehmer, aus, antwort>>
        /\ UNCHANGED <<vor, anfrage, storno, zurecht>>
    BY <1>8 DEF mcvars, vars, ablage
  <2>2. RuhendeOrders' = RuhendeOrders /\ Ruhig' = Ruhig /\ Range(aus)' = Range(aus)
    BY <2>1, RuhendeGleich DEF Ruhig
  <2>3. Passt' = Passt /\ StandGlatt' = StandGlatt /\ StandAngebrochen' = StandAngebrochen
    BY <2>1, <2>2 DEF Passt, StandGlatt, StandAngebrochen
  <2>4. VInv'
    BY <2>1, <2>2, <2>3 DEF VInv
  <2>5. UNCHANGED PZ!vars
    BY <2>1, <2>2 DEF PZ!vars
  <2> QED BY <2>4, <2>5
<1> QED
  BY <1>1, <1>2, <1>3, <1>4, <1>5, <1>6, <1>7, <1>8 DEF MCNext, Fortsetzung

(* At the start both books are empty.                                      *)
LEMMA VertragAnfang ==
    ASSUME MCInit
    PROVE  VInv /\ PZ!Init
<1>1. Ruhig /\ zurecht /\ anfrage = PZ!KEINE /\ storno = KEIN
  BY DEF MCInit, Init, Ruhig, NIEMAND
<1>2. naechste_oid = 1 /\ aus = <<>> /\ antwort = OFFEN
  BY DEF MCInit, Init
<1>3. RuhendeOrders = {}
  <2>1. \A x \in SLOT : ~Lebt(x)
    BY MaxOrdersAnnahme DEF MCInit, Init, Lebt, SLOT, OID, KEIN
  <2> QED BY <2>1 DEF RuhendeOrders, Lebende
<1>4. Range(aus) = {}
  BY <1>2 DEF Range
<1> QED BY <1>1, <1>2, <1>3, <1>4 DEF VInv, PZ!Init, PZ!OFFEN, OFFEN, PZ!KEIN, KEIN

(* A step of the composition is one of the book.                           *)
LEMMA BuchSchritt == [MCNext]_mcvars => [Next]_vars
BY DEF MCNext, mcvars, Next, Aufruf

(* The invariant holds in every state.                                     *)
LEMMA VertragInvariante == MCSpec => [](IInv /\ VInv)
<1>1. MCInit => IInv /\ VInv
  BY InitIInv, VertragAnfang DEF MCInit
<1>2. (IInv /\ VInv) /\ [MCNext]_mcvars => (IInv /\ VInv)'
  BY SchrittIInv, BuchSchritt, VertragSchritt
<1> QED BY <1>1, <1>2, PTL DEF MCSpec

(* The linked lists, bits and cached bests of buch.rs implement the atomic *)
(* price-time book: with every call the same orders rest, and it gets the  *)
(* same executions and the same answer.                                    *)
THEOREM BuchImplementiertPreisZeit == MCSpec => ImplementiertPreisZeit
<1>1. MCInit => PZ!Init
  BY VertragAnfang
<1>2. (IInv /\ VInv) /\ [MCNext]_mcvars => [PZ!Next]_PZ!vars
  BY VertragSchritt
<1> QED BY <1>1, <1>2, VertragInvariante, PTL DEF MCSpec, ImplementiertPreisZeit, PZ!Spec

(* limit() and markt() turn away exactly what the rules turn away; above   *)
(* all a NurLegen order, for which buch.rs looks at a cached best only.    *)
THEOREM ImmerZurechtAbgelehnt == MCSpec => []NurZurechtAbgelehnt
<1>1. VInv => NurZurechtAbgelehnt
  BY DEF VInv, NurZurechtAbgelehnt
<1> QED BY <1>1, VertragInvariante, PTL
-----------------------------------------------------------------------------
(* The quantity of slots is a sum over one fixed function of all slots.    *)
LEMMA MengeVonSlots ==
    ASSUME NEW k, \A x \in SLOT : k[x].menge \in MENGE, NEW X \in SUBSET SLOT
    PROVE  /\ SumFunction([x \in X |-> k[x].menge])
                = SumFunctionOnSet([x \in SLOT |-> k[x].menge], X)
           /\ SumFunction([x \in X |-> k[x].menge]) \in Nat /\ IsFiniteSet(SLOT)
<1> DEFINE f == [x \in SLOT |-> k[x].menge]
           g == [x \in X |-> k[x].menge]
<1>1. IsFiniteSet(SLOT) /\ IsFiniteSet(X)
  <2>1. IsFiniteSet(SLOT)
    BY MaxOrdersAnnahme, FS_Interval DEF SLOT
  <2> QED BY <2>1, FS_Subset
<1>2. \A x \in SLOT : k[x].menge \in Nat
  BY U64Annahme DEF MENGE
<1>3. (\A x \in X : g[x] = f[x]) /\ \A x \in X : f[x] \in Nat
  BY <1>2
<1>4. SumFunction(g) = SumFunctionOnSet(g, X)
  BY DEF SumFunction
<1> HIDE DEF f, g
<1>5. SumFunctionOnSet(g, X) = SumFunctionOnSet(f, X) /\ SumFunctionOnSet(f, X) \in Nat
  BY <1>1, <1>3, SummeGleich, SummeNat
<1>6. SumFunction(g) = SumFunctionOnSet(f, X) /\ SumFunction(g) \in Nat
  BY <1>4, <1>5
<1> QED BY <1>1, <1>6 DEF f, g

(* What a step does to slot x of level t of side s: it comes, goes or gets *)
(* another quantity, by d in all, and the level's sum goes along.          *)
Umgebucht(x, s, t, d) ==
    /\ \A y \in SLOT \ {x} : /\ Lebt(y)' <=> Lebt(y)
                             /\ OrderIn(y)' = OrderIn(y)
    /\ Lebt(x) => AufStufe(x, s, t)
    /\ Lebt(x)' => AufStufe(x, s, t)'
    /\ d = (IF Lebt(x)' THEN knoten'[x].menge ELSE 0) - (IF Lebt(x) THEN knoten[x].menge ELSE 0)
    /\ \A r \in SEITE, u \in TICK :
          stufen'[r][u].summe = IF r = s /\ u = t THEN (stufen[r][u].summe + d) % U64
                                ELSE stufen[r][u].summe

(* One set of slots before, and one after, that differ at x at most.       *)
LEMMA MengeDanach ==
    ASSUME IInv, IInv', NEW x \in SLOT,
           \A y \in SLOT \ {x} : OrderIn(y)' = OrderIn(y),
           NEW L \in SUBSET SLOT, NEW N \in SUBSET SLOT, L \ {x} = N \ {x}
    PROVE  /\ SumFunction([y \in N |-> knoten'[y].menge])
                = MengeIn(L) - (IF x \in L THEN knoten[x].menge ELSE 0)
                             + (IF x \in N THEN knoten'[x].menge ELSE 0)
           /\ MengeIn(L) \in Nat
<1> DEFINE f == [y \in SLOT |-> knoten[y].menge]
           h == [y \in SLOT |-> knoten'[y].menge]
           n == SumFunction([y \in N |-> knoten'[y].menge])
<1>0. \A y \in SLOT : knoten[y].menge \in MENGE /\ knoten'[y].menge \in MENGE
  BY DEF IInv, TypeOK, Knoten
<1>1. MengeIn(L) = SumFunctionOnSet(f, L) /\ MengeIn(L) \in Nat /\ IsFiniteSet(SLOT)
  BY <1>0, MengeVonSlots DEF MengeIn
<1>2. n = SumFunctionOnSet(h, N)
  BY <1>0, MengeVonSlots
<1>3. \A y \in SLOT : f[y] \in Int /\ h[y] \in Int /\ (y # x => h[y] = f[y])
  <2>1. \A y \in SLOT \ {x} : knoten'[y].menge = knoten[y].menge
    BY DEF OrderIn
  <2> QED BY <1>0, <2>1, U64Annahme DEF MENGE
<1>4. f[x] = knoten[x].menge /\ h[x] = knoten'[x].menge
  OBVIOUS
<1> HIDE DEF f, h, n
<1>5. SumFunctionOnSet(h, N) = SumFunctionOnSet(f, L)
              - (IF x \in L THEN f[x] ELSE 0) + (IF x \in N THEN h[x] ELSE 0)
  BY <1>1, <1>3, Umbuchung
<1> QED BY <1>1, <1>2, <1>4, <1>5 DEF n

(* Such a step keeps the sums of the levels, and the quantity in the book  *)
(* changes by d.                                                           *)
LEMMA UmgebuchtSummen ==
    ASSUME IInv, IInv', SummenStimmen, NEW x \in SLOT, NEW s \in SEITE, NEW t \in TICK,
           NEW d, Umgebucht(x, s, t, d)
    PROVE  /\ SummenStimmen'
           /\ MengeIn(Lebende)' = MengeIn(Lebende) + d /\ MengeIn(Lebende) \in Nat /\ d \in Int
<1> DEFINE m == IF Lebt(x) THEN knoten[x].menge ELSE 0
           q == IF Lebt(x)' THEN knoten'[x].menge ELSE 0
<1>1. /\ \A y \in SLOT \ {x} : /\ Lebt(y)' <=> Lebt(y)
                               /\ OrderIn(y)' = OrderIn(y)
      /\ d = q - m /\ q \in Nat /\ m \in Nat
  <2>1. \A y \in SLOT : knoten[y].menge \in Nat /\ knoten'[y].menge \in Nat
    BY U64Annahme DEF IInv, TypeOK, Knoten, MENGE
  <2> QED BY <2>1 DEF Umgebucht
<1>2. ASSUME NEW r \in SEITE, NEW u \in TICK
      PROVE  stufen'[r][u].summe = MengeIn({y \in Lebende : AufStufe(y, r, u)})' % U64
  <2> DEFINE L == {y \in SLOT : AufStufe(y, r, u)}
             N == {y \in SLOT : AufStufe(y, r, u)'}
             v == SumFunction([y \in N |-> knoten'[y].menge])
  <2>1. L = {y \in Lebende : AufStufe(y, r, u)} /\ N = {y \in Lebende : AufStufe(y, r, u)}'
    BY DEF Lebende, AufStufe
  <2>2. MengeIn({y \in Lebende : AufStufe(y, r, u)})' = v
    BY <2>1 DEF MengeIn
  <2>3. L \in SUBSET SLOT /\ N \in SUBSET SLOT /\ L \ {x} = N \ {x}
    BY <1>1 DEF AufStufe, OrderIn
  <2>4. /\ x \in L <=> Lebt(x) /\ r = s /\ u = t
        /\ x \in N <=> Lebt(x)' /\ r = s /\ u = t
    BY DEF Umgebucht, AufStufe
  <2>5. stufen[r][u].summe = MengeIn(L) % U64
    BY <2>1 DEF SummenStimmen
  <2>6. stufen'[r][u].summe = IF r = s /\ u = t THEN (stufen[r][u].summe + d) % U64
                              ELSE stufen[r][u].summe
    BY DEF Umgebucht
  <2> HIDE DEF L, N, v, m, q
  <2>7. /\ v = MengeIn(L) - (IF x \in L THEN knoten[x].menge ELSE 0)
                          + (IF x \in N THEN knoten'[x].menge ELSE 0)
        /\ MengeIn(L) \in Nat
    BY <1>1, <2>3, MengeDanach DEF v
  <2>8. CASE r = s /\ u = t
    <3>1. v = MengeIn(L) + d
      BY <1>1, <2>4, <2>7, <2>8 DEF m, q
    <3>2. ((MengeIn(L) % U64) + d) % U64 = (MengeIn(L) + d) % U64
      <4>1. MengeIn(L) \in Int /\ d \in Int /\ U64 \in Nat \ {0}
        BY <1>1, <2>7, U64Annahme
      <4> QED BY <4>1, RestPlus
    <3> QED BY <2>2, <2>5, <2>6, <2>8, <3>1, <3>2
  <2>9. CASE ~(r = s /\ u = t)
    <3>1. v = MengeIn(L)
      BY <2>4, <2>7, <2>9
    <3> QED BY <2>2, <2>5, <2>6, <2>9, <3>1
  <2> QED BY <2>8, <2>9
<1>3. MengeIn(Lebende)' = MengeIn(Lebende) + d /\ MengeIn(Lebende) \in Nat
  <2> DEFINE N == {y \in SLOT : Lebt(y)'}
             v == SumFunction([y \in N |-> knoten'[y].menge])
  <2>1. N = Lebende' /\ MengeIn(Lebende)' = v
    BY DEF Lebende, MengeIn
  <2>2. Lebende \in SUBSET SLOT /\ N \in SUBSET SLOT /\ Lebende \ {x} = N \ {x}
    BY <1>1 DEF Lebende
  <2>3. (x \in Lebende <=> Lebt(x)) /\ (x \in N <=> Lebt(x)')
    BY DEF Lebende
  <2> HIDE DEF N, v, m, q
  <2>4. /\ v = MengeIn(Lebende) - (IF x \in Lebende THEN knoten[x].menge ELSE 0)
                                + (IF x \in N THEN knoten'[x].menge ELSE 0)
        /\ MengeIn(Lebende) \in Nat
    BY <1>1, <2>2, MengeDanach DEF v
  <2> QED BY <1>1, <2>1, <2>3, <2>4 DEF m, q
<1>4. SummenStimmen'
  BY <1>2 DEF SummenStimmen
<1> QED BY <1>1, <1>3, <1>4

(* The four steps that change the book: the maker keeps a rest, is used    *)
(* up, a rest is laid in the book, an order is cancelled.                  *)
LEMMA GeberBleibtUmgebucht ==
    ASSUME IInv, GeberBleibt
    PROVE  \E x \in SLOT, s \in SEITE, t \in TICK : Umgebucht(x, s, t, 0 - nehmer.menge)
<1>1. PICK x \in SLOT, s \in SEITE, t \in TICK :
          /\ x = Geber /\ s = GeberSeite /\ t = GeberTick /\ AufStufe(x, s, t)
  BY GeberLiegt DEF GeberBleibt
<1>2. PICK p \in MENGE : p = nehmer.menge
  BY DEF IInv, TypeOK, Nehmer
<1>3. /\ knoten \in [SLOT -> Knoten] /\ stufen \in [SEITE -> [TICK -> Stufe]]
      /\ knoten[x].menge \in Nat /\ p \in Nat
  BY <1>2, U64Annahme DEF IInv, TypeOK, Knoten, MENGE
<1>4. /\ knoten' = [knoten EXCEPT ![x].menge = @ - p] /\ platz' = platz
      /\ stufen' = [stufen EXCEPT ![s][t].summe = (@ - p) % U64]
  BY <1>1, <1>2 DEF GeberBleibt
<1>5. /\ \A y \in SLOT : knoten'[y].oid = knoten[y].oid /\ (y # x => knoten'[y] = knoten[y])
      /\ knoten'[x] = [knoten[x] EXCEPT !.menge = @ - p]
  BY <1>3, <1>4 DEF Knoten
<1>6. /\ knoten'[x].menge = knoten[x].menge - p
      /\ knoten'[x].seite = knoten[x].seite /\ knoten'[x].tick = knoten[x].tick
  BY <1>3, <1>5 DEF Knoten
<1>7. /\ \A y \in SLOT : Lebt(y)' <=> Lebt(y)
      /\ \A y \in SLOT \ {x} : OrderIn(y)' = OrderIn(y)
  BY <1>4, <1>5 DEF Lebt, OrderIn
<1>8. Lebt(x) /\ AufStufe(x, s, t) /\ AufStufe(x, s, t)'
  BY <1>1, <1>6, <1>7 DEF AufStufe
<1>9. \A r \in SEITE, u \in TICK :
         stufen'[r][u].summe = IF r = s /\ u = t THEN (stufen[r][u].summe + (0 - p)) % U64
                               ELSE stufen[r][u].summe
  <2>1. ASSUME NEW r \in SEITE, NEW u \in TICK, r = s /\ u = t
        PROVE  stufen'[r][u].summe = (stufen[r][u].summe - p) % U64
    BY <1>3, <1>4, <2>1 DEF Stufe
  <2>2. ASSUME NEW r \in SEITE, NEW u \in TICK, ~(r = s /\ u = t)
        PROVE  stufen'[r][u].summe = stufen[r][u].summe
    BY <1>3, <1>4, <2>2
  <2>3. \A r \in SEITE, u \in TICK : stufen[r][u].summe \in Int
    BY <1>3, U64Annahme DEF Stufe, MENGE
  <2>4. \A r \in SEITE, u \in TICK : stufen[r][u].summe - p = stufen[r][u].summe + (0 - p)
    BY <1>3, <2>3
  <2> QED BY <2>1, <2>2, <2>4
<1>10. 0 - p = knoten'[x].menge - knoten[x].menge
  BY <1>3, <1>6
<1>11. Umgebucht(x, s, t, 0 - p)
  BY <1>7, <1>8, <1>9, <1>10 DEF Umgebucht
<1> QED BY <1>2, <1>11

LEMMA GeberVerbrauchtUmgebucht ==
    ASSUME IInv, GeberVerbraucht
    PROVE  \E x \in SLOT, s \in SEITE, t \in TICK :
              x = Geber /\ Umgebucht(x, s, t, 0 - knoten[Geber].menge)
<1>1. PICK x \in SLOT, s \in SEITE, t \in TICK :
          /\ x = Geber /\ s = GeberSeite /\ t = GeberTick /\ AufStufe(x, s, t)
  BY GeberLiegt DEF GeberVerbraucht
<1>2. PICK m \in MENGE, w \in VERWEIS : m = knoten[x].menge /\ w = knoten[x].weiter
  BY DEF IInv, TypeOK, Knoten
<1>3. /\ knoten \in [SLOT -> Knoten] /\ stufen \in [SEITE -> [TICK -> Stufe]] /\ m \in Nat
      /\ platz \in [OID -> VERWEIS] /\ Lebt(x)
      /\ \A y \in SLOT : knoten[y].oid \in OID /\ y # KEIN
  BY <1>1, U64Annahme, MaxOrdersAnnahme DEF IInv, TypeOK, Knoten, MENGE, SLOT, KEIN, AufStufe
<1>4. /\ knoten' = [y \in SLOT |->
                      IF y = x THEN [knoten[y] EXCEPT !.menge = 0]
                      ELSE IF y = w THEN NeuerKopf(knoten[y]) ELSE knoten[y]]
      /\ platz' = [platz EXCEPT ![knoten[x].oid] = KEIN]
      /\ stufen' = [stufen EXCEPT ![s][t] = OhneKopf(stufen[s][t], w, m)]
  BY <1>1, <1>2 DEF GeberVerbraucht
<1>5. \A y \in SLOT : knoten'[y].oid = knoten[y].oid /\ (y # x => OrderIn(y)' = OrderIn(y))
  BY <1>3, <1>4 DEF Knoten, NeuerKopf, OrderIn
<1>6. \A y \in SLOT : Lebt(y) /\ y # x => knoten[y].oid # knoten[x].oid
  BY <1>3, RuhendeSindOrders
<1>7. /\ \A y \in SLOT \ {x} : Lebt(y)' <=> Lebt(y)
      /\ ~Lebt(x)'
  BY <1>3, <1>4, <1>5, <1>6 DEF Lebt
<1>8. \A r \in SEITE, u \in TICK :
         stufen'[r][u].summe = IF r = s /\ u = t THEN (stufen[r][u].summe + (0 - m)) % U64
                               ELSE stufen[r][u].summe
  <2>1. ASSUME NEW r \in SEITE, NEW u \in TICK, r = s /\ u = t
        PROVE  stufen'[r][u].summe = (stufen[r][u].summe - m) % U64
    BY <1>3, <1>4, <2>1 DEF OhneKopf
  <2>2. ASSUME NEW r \in SEITE, NEW u \in TICK, ~(r = s /\ u = t)
        PROVE  stufen'[r][u].summe = stufen[r][u].summe
    BY <1>3, <1>4, <2>2
  <2>3. \A r \in SEITE, u \in TICK : stufen[r][u].summe \in Int
    BY <1>3, U64Annahme DEF Stufe, MENGE
  <2>4. \A r \in SEITE, u \in TICK : stufen[r][u].summe - m = stufen[r][u].summe + (0 - m)
    BY <1>3, <2>3
  <2> QED BY <2>1, <2>2, <2>4
<1>9. Umgebucht(x, s, t, 0 - m)
  BY <1>1, <1>2, <1>3, <1>5, <1>7, <1>8 DEF Umgebucht
<1> QED BY <1>1, <1>2, <1>9

LEMMA StornierenUmgebucht ==
    ASSUME IInv, NEW o \in 0 .. MAX_ORDERS + 1, Stornieren(o)
    PROVE  /\ knoten[platz[o]].menge \in MENGE /\ antwort'.storniert = knoten[platz[o]].menge
           /\ \E x \in SLOT, s \in SEITE, t \in TICK :
                 Umgebucht(x, s, t, 0 - knoten[platz[o]].menge)
<1>1. /\ platz \in [OID -> VERWEIS] /\ knoten \in [SLOT -> Knoten]
      /\ stufen \in [SEITE -> [TICK -> Stufe]]
      /\ \A y \in SLOT : knoten[y].oid \in OID /\ y # KEIN
  BY MaxOrdersAnnahme DEF IInv, TypeOK, Knoten, SLOT, KEIN
<1>2. PICK x \in SLOT : x = platz[o] /\ Lebt(x) /\ knoten[x].oid = o
  BY <1>1 DEF Stornieren, liegt, Lebt, IInv, PlatzStimmt, VERWEIS
<1>3. PICK s \in SEITE, t \in TICK, m \in MENGE :
          s = knoten[x].seite /\ t = knoten[x].tick /\ m = knoten[x].menge
  BY <1>1 DEF Knoten
<1>4. /\ platz' = [platz EXCEPT ![o] = KEIN] /\ antwort' = [storniert |-> m]
      /\ stufen' = [stufen EXCEPT ![s][t] = OhneSlot(stufen[s][t], x)]
  BY <1>2, <1>3 DEF Stornieren
<1>5. \A y \in SLOT : OrderIn(y)' = OrderIn(y) /\ knoten'[y].oid = knoten[y].oid
  BY <1>1 DEF Stornieren, Knoten, OrderIn
<1>6. \A y \in SLOT : Lebt(y) /\ y # x => knoten[y].oid # o
  BY <1>2, RuhendeSindOrders
<1>7. /\ \A y \in SLOT \ {x} : Lebt(y)' <=> Lebt(y)
      /\ ~Lebt(x)'
  BY <1>1, <1>2, <1>4, <1>5, <1>6 DEF Lebt
<1>8. \A r \in SEITE, u \in TICK :
         stufen'[r][u].summe = IF r = s /\ u = t THEN (stufen[r][u].summe + (0 - m)) % U64
                               ELSE stufen[r][u].summe
  <2>1. ASSUME NEW r \in SEITE, NEW u \in TICK, r = s /\ u = t
        PROVE  stufen'[r][u].summe = (stufen[r][u].summe - m) % U64
    BY <1>1, <1>3, <1>4, <2>1 DEF OhneSlot
  <2>2. ASSUME NEW r \in SEITE, NEW u \in TICK, ~(r = s /\ u = t)
        PROVE  stufen'[r][u].summe = stufen[r][u].summe
    BY <1>1, <1>4, <2>2
  <2>3. \A r \in SEITE, u \in TICK : stufen[r][u].summe \in Int /\ m \in Int
    BY <1>1, U64Annahme DEF Stufe, MENGE
  <2>4. \A r \in SEITE, u \in TICK : stufen[r][u].summe - m = stufen[r][u].summe + (0 - m)
    BY <2>3
  <2> QED BY <2>1, <2>2, <2>4
<1>9. Umgebucht(x, s, t, 0 - m)
  BY <1>2, <1>3, <1>5, <1>7, <1>8 DEF Umgebucht, AufStufe
<1> QED BY <1>2, <1>3, <1>4, <1>9

LEMMA LegenUmgebucht ==
    ASSUME IInv, Legen
    PROVE  \E x \in SLOT, s \in SEITE, t \in TICK : Umgebucht(x, s, t, nehmer.menge)
<1>1. PICK x \in SLOT : x = FreierSlot /\ ~Lebt(x)
  BY FreierSlotFrei DEF Legen
<1>2. PICK s \in SEITE, t \in TICK, q \in MENGE, n \in OID :
          s = nehmer.seite /\ t = nehmer.grenze /\ q = nehmer.menge /\ n = nehmer.oid
  BY DEF IInv, TypeOK, Nehmer
<1>3. /\ platz \in [OID -> VERWEIS] /\ knoten \in [SLOT -> Knoten] /\ x # KEIN
      /\ stufen \in [SEITE -> [TICK -> Stufe]] /\ q \in Nat
      /\ \A y \in SLOT : knoten[y].oid \in OID /\ y # KEIN
  BY MaxOrdersAnnahme, U64Annahme DEF IInv, TypeOK, Knoten, SLOT, KEIN, MENGE
<1>4. /\ platz' = [platz EXCEPT ![n] = x]
      /\ stufen' = [stufen EXCEPT ![s][t] = MitFuss(stufen[s][t], x, q)]
  BY <1>1, <1>2 DEF Legen
<1>5. /\ knoten'[x].oid = n /\ knoten'[x].menge = q
      /\ knoten'[x].seite = s /\ knoten'[x].tick = t
  <2>1. \E z : knoten'[x] = [oid |-> n, menge |-> q, tick |-> t,
                             seite |-> s, weiter |-> KEIN, zurueck |-> z]
    BY <1>1, <1>2 DEF Legen
  <2> QED BY <2>1
<1>6. \A y \in SLOT \ {x} : OrderIn(y)' = OrderIn(y) /\ knoten'[y].oid = knoten[y].oid
  <2>1. \A y \in SLOT \ {x} : \/ knoten'[y] = knoten[y]
                              \/ knoten'[y] = [knoten[y] EXCEPT !.weiter = x]
    BY <1>1 DEF Legen
  <2>2. ASSUME NEW y \in SLOT \ {x}
        PROVE  /\ knoten'[y].oid = knoten[y].oid /\ knoten'[y].seite = knoten[y].seite
               /\ knoten'[y].tick = knoten[y].tick /\ knoten'[y].menge = knoten[y].menge
    <3>1. knoten[y] \in Knoten
      BY <1>3
    <3>2. CASE knoten'[y] = knoten[y]
      BY <3>2
    <3>3. CASE knoten'[y] = [knoten[y] EXCEPT !.weiter = x]
      BY <3>1, <3>3 DEF Knoten
    <3> QED BY <2>1, <3>2, <3>3
  <2> QED BY <2>2 DEF OrderIn
<1>7. \A y \in SLOT : Lebt(y) => knoten[y].oid # n
  BY <1>2, <1>3 DEF IInv, PlatzStimmt, Lebt
<1>8. Lebt(x)' /\ \A y \in SLOT \ {x} : Lebt(y)' <=> Lebt(y)
  <2>1. Lebt(x)'
    BY <1>3, <1>4, <1>5 DEF Lebt
  <2>2. ASSUME NEW y \in SLOT \ {x} PROVE Lebt(y)' <=> Lebt(y)
    <3>1. CASE knoten[y].oid = n
      BY <1>3, <1>4, <1>6, <1>7, <3>1 DEF Lebt
    <3>2. CASE knoten[y].oid # n
      BY <1>3, <1>4, <1>6, <3>2 DEF Lebt
    <3> QED BY <3>1, <3>2
  <2> QED BY <2>1, <2>2
<1>9. \A r \in SEITE, u \in TICK :
         stufen'[r][u].summe = IF r = s /\ u = t THEN (stufen[r][u].summe + q) % U64
                               ELSE stufen[r][u].summe
  <2>1. ASSUME NEW r \in SEITE, NEW u \in TICK, r = s /\ u = t
        PROVE  stufen'[r][u].summe = (stufen[r][u].summe + q) % U64
    BY <1>3, <1>4, <2>1 DEF MitFuss
  <2>2. ASSUME NEW r \in SEITE, NEW u \in TICK, ~(r = s /\ u = t)
        PROVE  stufen'[r][u].summe = stufen[r][u].summe
    BY <1>3, <1>4, <2>2
  <2> QED BY <2>1, <2>2
<1>10. AufStufe(x, s, t)'
  BY <1>5, <1>8 DEF AufStufe
<1>11. q = (IF Lebt(x)' THEN knoten'[x].menge ELSE 0) - (IF Lebt(x) THEN knoten[x].menge ELSE 0)
  BY <1>1, <1>3, <1>5, <1>8
<1>12. Umgebucht(x, s, t, q)
  BY <1>1, <1>6, <1>8, <1>9, <1>10, <1>11 DEF Umgebucht
<1> QED BY <1>2, <1>12
-----------------------------------------------------------------------------
(* The inductive invariant behind the balance: no quantity is being        *)
(* matched between calls.                                                  *)
BInv ==
    /\ SummenStimmen
    /\ Bilanz
    /\ Ruhig => nehmer.menge = 0

(* What a step books: e comes in, d goes into the book, m is executed; an  *)
(* equation of whole numbers, in which nothing has wrapped yet.            *)
Rechnung(e, d, m) ==
    /\ e \in Int /\ d \in Int /\ m \in Int
    /\ verbleib' = (verbleib + e) % U64
    /\ MengeIn(Lebende) \in Nat /\ MengeIn(Lebende)' = MengeIn(Lebende) + d
    /\ volumen' = (volumen + m) % U64
    /\ nehmer.menge + e = d + nehmer'.menge + 2 * m

(* Then the balance holds after the step.                                  *)
LEMMA BilanzWenn ==
    ASSUME IInv, Bilanz, nehmer.menge \in Int, nehmer'.menge \in Int,
           NEW e, NEW d, NEW m, Rechnung(e, d, m)
    PROVE  Bilanz'
<1> DEFINE Q == MengeIn(Lebende) + nehmer.menge
           P == MengeIn(Lebende)' + nehmer'.menge
<1>1. /\ U64 \in Nat \ {0} /\ volumen \in Int /\ Q \in Int /\ P \in Int
      /\ Q + e = P + 2 * m /\ volumen + m \in Int
  <2>1. volumen \in MENGE
    BY DEF IInv, TypeOK
  <2>2. volumen \in Int
    BY <2>1, U64Annahme DEF MENGE
  <2>3. /\ e \in Int /\ d \in Int /\ m \in Int /\ MengeIn(Lebende) \in Nat
        /\ MengeIn(Lebende)' = MengeIn(Lebende) + d
        /\ nehmer.menge + e = d + nehmer'.menge + 2 * m
    BY DEF Rechnung
  <2>4. PICK b \in Nat : b = MengeIn(Lebende)
    BY <2>3
  <2>5. MengeIn(Lebende)' = b + d
    BY <2>3, <2>4
  <2>6. Q = b + nehmer.menge /\ P = b + d + nehmer'.menge
    BY <2>4, <2>5
  <2> HIDE DEF Q, P
  <2>7. Q \in Int /\ P \in Int
    BY <2>3, <2>6
  <2>8. Q + e = P + 2 * m
    BY <2>3, <2>6
  <2> QED BY <2>2, <2>3, <2>7, <2>8, U64Annahme
<1>2. verbleib = (Q + 2 * volumen) % U64
  BY DEF Bilanz
<1> HIDE DEF Q, P
<1>3. verbleib' = (Q + 2 * volumen + e) % U64
  <2>1. Q + 2 * volumen \in Int
    BY <1>1
  <2>2. verbleib' = (verbleib + e) % U64 /\ e \in Int
    BY DEF Rechnung
  <2> QED BY <1>1, <1>2, <2>1, <2>2, RestPlus
<1>4. (P + 2 * volumen') % U64 = (P + 2 * (volumen + m)) % U64
  <2>1. volumen' = (volumen + m) % U64
    BY DEF Rechnung
  <2> QED BY <1>1, <2>1, RestDoppelt
<1>5. Q + 2 * volumen + e = P + 2 * (volumen + m)
  <2>1. e \in Int /\ m \in Int
    BY DEF Rechnung
  <2> QED BY <1>1, <2>1
<1> QED BY <1>3, <1>4, <1>5 DEF Bilanz, P

(* Steps that leave the book alone.                                        *)
LEMMA UnveraendertSummen ==
    ASSUME IInv, UNCHANGED <<ablage, leiter>>
    PROVE  /\ SummenStimmen => SummenStimmen'
           /\ MengeIn(Lebende)' = MengeIn(Lebende) /\ MengeIn(Lebende) \in Nat
<1>1. knoten' = knoten /\ platz' = platz /\ stufen' = stufen
  BY DEF ablage, leiter
<1>2. Lebende' = Lebende /\ MengeIn(Lebende)' = MengeIn(Lebende)
  BY <1>1 DEF Lebende, Lebt, MengeIn
<1>3. Lebende \in SUBSET SLOT /\ \A x \in SLOT : knoten[x].menge \in MENGE
  BY DEF Lebende, IInv, TypeOK, Knoten
<1>4. MengeIn(Lebende) \in Nat
  BY <1>3, MengeVonSlots DEF MengeIn
<1>5. \A s \in SEITE, t \in TICK :
         MengeIn({x \in Lebende : AufStufe(x, s, t)})' = MengeIn({x \in Lebende : AufStufe(x, s, t)})
  BY <1>1, <1>2 DEF MengeIn, AufStufe, Lebt
<1>6. SummenStimmen => SummenStimmen'
  BY <1>1, <1>5 DEF SummenStimmen
<1> QED BY <1>2, <1>4, <1>6

(* What comes in, expires and is cancelled in a step.                      *)
LEMMA BilanzSchritt ==
    ASSUME IInv, BInv, Next, IInv', verbleib' = (verbleib + Eingang - Verfall - Storno) % U64
    PROVE  BInv'
<1>0. /\ SummenStimmen /\ Bilanz /\ (Ruhig => nehmer.menge = 0)
      /\ nehmer.menge \in Nat /\ nehmer.seite \in SEITE /\ nehmer'.menge \in Nat
      /\ volumen \in MENGE /\ volumen \in Nat /\ verbleib \in Int /\ U64 \in Nat \ {0}
      /\ ruhende_orders \in Nat
  <2>1. nehmer \in Nehmer /\ nehmer' \in Nehmer /\ volumen \in MENGE /\ ruhende_orders \in Nat
    BY DEF IInv, TypeOK
  <2>2. MengeIn(Lebende) \in Nat
    <3>1. Lebende \in SUBSET SLOT /\ \A x \in SLOT : knoten[x].menge \in MENGE
      BY DEF Lebende, IInv, TypeOK, Knoten
    <3> QED BY <3>1, MengeVonSlots DEF MengeIn
  <2>3. nehmer.menge \in Nat /\ nehmer'.menge \in Nat /\ volumen \in Nat
    BY <2>1, U64Annahme DEF Nehmer, MENGE
  <2>4. MengeIn(Lebende) + nehmer.menge + 2 * volumen \in Int
    BY <2>2, <2>3
  <2>5. verbleib \in Int
    BY <2>4, U64Annahme, Teilung DEF BInv, Bilanz
  <2> QED BY <2>1, <2>3, <2>5, U64Annahme DEF BInv, Nehmer
<1>1. ASSUME NEW e, NEW d, NEW m, Rechnung(e, d, m)
      PROVE  Bilanz'
  BY <1>0, <1>1, BilanzWenn
<1>2. (volumen + 0) % U64 = volumen
  BY <1>0, RestKlein DEF MENGE
<1>3. ASSUME NEW s, NEW grenze, NEW q \in MENGEN, NEW bleibt, Ruhig, Beginnen(s, grenze, q, bleibt)
      PROVE  BInv'
  <2>1. /\ nehmer'.menge = q /\ nehmer'.oid = naechste_oid /\ naechste_oid # 0 /\ volumen' = volumen
        /\ UNCHANGED <<ablage, leiter>> /\ q \in Nat
    BY <1>0, <1>3 DEF Beginnen, IInv, TypeOK, zaehler
  <2>2. ~Ruhig' /\ Eingang = q /\ Verfall = 0 /\ Storno = 0
    BY <1>3, <2>1 DEF Ruhig, Eingang, Verfall, Storno
  <2>3. verbleib' = (verbleib + q) % U64
    BY <1>0, <2>1, <2>2
  <2>4. SummenStimmen' /\ MengeIn(Lebende)' = MengeIn(Lebende) /\ MengeIn(Lebende) \in Nat
    BY <1>0, <2>1, UnveraendertSummen
  <2>5. Rechnung(q, 0, 0)
    BY <1>0, <1>2, <1>3, <2>1, <2>3, <2>4 DEF Rechnung
  <2> QED BY <1>1, <2>2, <2>4, <2>5 DEF BInv
<1>4. ASSUME Ruhig, UNCHANGED <<ablage, leiter, zaehler, naechste_oid, nehmer>>,
             antwort' = ABGELEHNT \/ antwort' = [storniert |-> KEIN]
      PROVE  BInv'
  <2>1. Ruhig' /\ nehmer' = nehmer /\ volumen' = volumen /\ UNCHANGED <<ablage, leiter>>
    BY <1>4 DEF Ruhig, zaehler
  <2>2. ABGELEHNT \notin Storniert
    <3>1. \A w \in Storniert : DOMAIN w = {"storniert"}
      BY DEF Storniert
    <3>2. DOMAIN ABGELEHNT # {"storniert"}
      BY DEF ABGELEHNT
    <3> QED BY <3>1, <3>2
  <2>3. Storno = 0
    BY <1>4, <2>2 DEF Storno
  <2>4. Eingang = 0 /\ Verfall = 0
    BY <1>4, <2>1 DEF Eingang, Verfall
  <2>5. verbleib' = (verbleib + 0) % U64
    BY <1>0, <2>3, <2>4
  <2>6. SummenStimmen' /\ MengeIn(Lebende)' = MengeIn(Lebende) /\ MengeIn(Lebende) \in Nat
    BY <1>0, <2>1, UnveraendertSummen
  <2>7. Rechnung(0, 0, 0)
    BY <1>0, <1>2, <2>1, <2>5, <2>6 DEF Rechnung
  <2> QED BY <1>0, <1>1, <1>4, <2>1, <2>6, <2>7 DEF BInv
<1>5. CASE GeberBleibt
  <2>1. PICK x \in SLOT, s \in SEITE, t \in TICK : Umgebucht(x, s, t, 0 - nehmer.menge)
    BY <1>5, GeberBleibtUmgebucht
  <2>2. /\ SummenStimmen' /\ MengeIn(Lebende)' = MengeIn(Lebende) + (0 - nehmer.menge)
        /\ MengeIn(Lebende) \in Nat
    BY <1>0, <2>1, UmgebuchtSummen
  <2>3. nehmer'.menge = 0 /\ nehmer'.oid = nehmer.oid /\ volumen' = (volumen + nehmer.menge) % U64
    BY <1>0, <1>5 DEF GeberBleibt, Verbuchen, IInv, TypeOK, Nehmer
  <2>4. ~Ruhig /\ ~Ruhig'
    BY <1>5, <2>3 DEF GeberBleibt, Weiter, Ruhig
  <2>5. verbleib' = (verbleib + 0) % U64
    BY <1>0, <2>4 DEF Eingang, Verfall, Storno
  <2>6. Rechnung(0, 0 - nehmer.menge, nehmer.menge)
    BY <1>0, <2>2, <2>3, <2>5 DEF Rechnung
  <2> QED BY <1>1, <2>2, <2>4, <2>6 DEF BInv
<1>6. CASE GeberVerbraucht
  <2>0. PICK m \in MENGE : m = knoten[Geber].menge /\ m \in Nat
    BY <1>6, GeberLiegt, U64Annahme DEF GeberVerbraucht, MENGE
  <2>1. PICK x \in SLOT, s \in SEITE, t \in TICK : Umgebucht(x, s, t, 0 - m)
    BY <1>6, <2>0, GeberVerbrauchtUmgebucht
  <2>2. /\ SummenStimmen' /\ MengeIn(Lebende)' = MengeIn(Lebende) + (0 - m)
        /\ MengeIn(Lebende) \in Nat
    BY <1>0, <2>1, UmgebuchtSummen
  <2>3. /\ nehmer'.menge = nehmer.menge - m /\ nehmer'.oid = nehmer.oid
        /\ volumen' = (volumen + m) % U64
    <3>1. Verbuchen(m)
      BY <1>6, <2>0 DEF GeberVerbraucht
    <3> QED BY <3>1 DEF Verbuchen, IInv, TypeOK, Nehmer
  <2>4. ~Ruhig /\ ~Ruhig'
    BY <1>6, <2>3 DEF GeberVerbraucht, Weiter, Ruhig
  <2>5. verbleib' = (verbleib + 0) % U64
    BY <1>0, <2>4 DEF Eingang, Verfall, Storno
  <2>6. Rechnung(0, 0 - m, m)
    BY <1>0, <2>0, <2>2, <2>3, <2>5 DEF Rechnung
  <2> QED BY <1>1, <2>2, <2>4, <2>6 DEF BInv
<1>7. CASE OhneRest
  <2>1. /\ ~Ruhig /\ Ruhig' /\ nehmer'.menge = 0 /\ volumen' = volumen
        /\ ruhende_orders' = ruhende_orders /\ UNCHANGED <<ablage, leiter>>
    BY <1>7 DEF OhneRest, Antworten, NIEMAND, Ruhig
  <2>2. Eingang = 0 /\ Verfall = nehmer.menge /\ Storno = 0
    BY <2>1 DEF Eingang, Verfall, Storno
  <2>3. verbleib' = (verbleib + (0 - nehmer.menge)) % U64
    BY <1>0, <2>2
  <2>4. SummenStimmen' /\ MengeIn(Lebende)' = MengeIn(Lebende) /\ MengeIn(Lebende) \in Nat
    BY <1>0, <2>1, UnveraendertSummen
  <2>5. Rechnung(0 - nehmer.menge, 0, 0)
    BY <1>0, <1>2, <2>1, <2>3, <2>4 DEF Rechnung
  <2> QED BY <1>1, <2>1, <2>4, <2>5 DEF BInv
<1>8. CASE Legen
  <2>1. PICK x \in SLOT, s \in SEITE, t \in TICK : Umgebucht(x, s, t, nehmer.menge)
    BY <1>8, LegenUmgebucht
  <2>2. /\ SummenStimmen' /\ MengeIn(Lebende)' = MengeIn(Lebende) + nehmer.menge
        /\ MengeIn(Lebende) \in Nat
    BY <1>0, <2>1, UmgebuchtSummen
  <2>3. Antworten(nehmer.oid, nehmer.menge) /\ ~Ruhig /\ ruhende_orders' = ruhende_orders + 1
    BY <1>8 DEF Legen
  <2>4. Ruhig' /\ nehmer'.menge = 0 /\ volumen' = volumen /\ ruhende_orders' # ruhende_orders
    BY <1>0, <2>3 DEF Antworten, NIEMAND, Ruhig
  <2>5. verbleib' = (verbleib + 0) % U64
    BY <1>0, <2>3, <2>4 DEF Eingang, Verfall, Storno
  <2>6. Rechnung(0, nehmer.menge, 0)
    BY <1>0, <1>2, <2>2, <2>4, <2>5 DEF Rechnung
  <2> QED BY <1>1, <2>2, <2>4, <2>6 DEF BInv
<1>9. ASSUME NEW o \in 0 .. MAX_ORDERS + 1, Stornieren(o)
      PROVE  BInv'
  <2>0. PICK m \in MENGE, x \in SLOT, s \in SEITE, t \in TICK :
            antwort' = [storniert |-> m] /\ Umgebucht(x, s, t, 0 - m) /\ m \in Nat
    <3>1. antwort' = [storniert |-> knoten[platz[o]].menge]
      BY <1>9 DEF Stornieren
    <3> QED BY <1>9, <3>1, StornierenUmgebucht, U64Annahme DEF MENGE
  <2>2. /\ SummenStimmen' /\ MengeIn(Lebende)' = MengeIn(Lebende) + (0 - m)
        /\ MengeIn(Lebende) \in Nat
    BY <1>0, <2>0, UmgebuchtSummen
  <2>3. Ruhig /\ Ruhig' /\ nehmer' = nehmer /\ volumen' = volumen
    BY <1>9 DEF Stornieren, Ruhig
  <2>4. antwort' \in Storniert /\ antwort'.storniert = m /\ m # KEIN
    BY <2>0 DEF Storniert, KEIN
  <2>5. Eingang = 0 /\ Verfall = 0 /\ Storno = m
    BY <2>3, <2>4 DEF Eingang, Verfall, Storno
  <2>6. verbleib' = (verbleib + (0 - m)) % U64
    BY <1>0, <2>0, <2>5
  <2>7. Rechnung(0 - m, 0 - m, 0)
    BY <1>0, <1>2, <2>0, <2>2, <2>3, <2>6 DEF Rechnung
  <2> QED BY <1>0, <1>1, <2>2, <2>3, <2>7 DEF BInv
<1> QED
  BY <1>3, <1>4, <1>5, <1>6, <1>7, <1>8, <1>9
     DEF Next, Aufruf, Fortsetzung, Limit, Markt, LimitAblehnen, MarktAblehnen, StornierenVergeblich

(* The balance in every state.                                             *)
LEMMA BilanzInvariante == BSpec => [](IInv /\ BInv)
<1>1. BInit => IInv /\ BInv
  <2> SUFFICES ASSUME BInit PROVE IInv /\ BInv
    OBVIOUS
  <2>1. IInv
    BY InitIInv DEF BInit
  <2>2. /\ verbleib = 0 /\ volumen = 0 /\ nehmer.menge = 0
        /\ \A s \in SEITE, t \in TICK : stufen[s][t].summe = 0
        /\ \A x \in SLOT : ~Lebt(x)
    BY MaxOrdersAnnahme DEF BInit, Init, NIEMAND, LEER, Lebt, SLOT, OID, KEIN
  <2>3. MengeIn({}) = 0
    <3>1. MengeIn({}) = SumFunctionOnSet([x \in {} |-> knoten[x].menge], {})
      BY DEF MengeIn, SumFunction
    <3> QED BY <3>1, SummeLeer
  <2>4. 0 % U64 = 0
    BY U64Annahme, RestKlein
  <2>5. Lebende = {} /\ \A s \in SEITE, t \in TICK : {x \in Lebende : AufStufe(x, s, t)} = {}
    BY <2>2 DEF Lebende
  <2>6. SummenStimmen
    BY <2>2, <2>3, <2>4, <2>5 DEF SummenStimmen
  <2>7. Bilanz
    BY <2>2, <2>3, <2>4, <2>5 DEF Bilanz
  <2> QED BY <2>1, <2>2, <2>6, <2>7 DEF BInv
<1>2. (IInv /\ BInv) /\ [BNext]_bvars => (IInv /\ BInv)'
  <2> SUFFICES ASSUME IInv, BInv, [BNext]_bvars PROVE IInv' /\ BInv'
    OBVIOUS
  <2>1. IInv'
    BY SchrittIInv DEF BNext, bvars
  <2>2. CASE BNext
    BY <2>1, <2>2, BilanzSchritt DEF BNext
  <2>3. CASE UNCHANGED bvars
    <3>1. UNCHANGED <<ablage, leiter>> /\ nehmer' = nehmer /\ volumen' = volumen
          /\ verbleib' = verbleib
      BY <2>3 DEF bvars, vars, zaehler
    <3>2. (SummenStimmen => SummenStimmen') /\ MengeIn(Lebende)' = MengeIn(Lebende)
      BY <3>1, UnveraendertSummen
    <3>3. Bilanz'
      BY <3>1, <3>2 DEF BInv, Bilanz
    <3>4. Ruhig' => nehmer'.menge = 0
      BY <3>1 DEF BInv, Ruhig
    <3> QED BY <2>1, <3>2, <3>3, <3>4 DEF BInv
  <2> QED BY <2>1, <2>2, <2>3
<1> QED BY <1>1, <1>2, PTL DEF BSpec

(* menge_auf: a level's sum is the quantity that rests on it, modulo the   *)
(* width of u64, in every state of the matching loop too.                  *)
THEOREM SummenStimmenImmer == BSpec => []SummenStimmen
<1>1. BInv => SummenStimmen
  BY DEF BInv
<1> QED BY <1>1, BilanzInvariante, PTL

(* No quantity appears or disappears, whatever the callers do.             *)
THEOREM BilanzImmer == BSpec => []Bilanz
<1>1. BInv => Bilanz
  BY DEF BInv
<1> QED BY <1>1, BilanzInvariante, PTL
=============================================================================
