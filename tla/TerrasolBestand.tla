--------------------------- MODULE TerrasolBestand ---------------------------
(***************************************************************************)
(* Where every token is: proofs that the balances, the stakes and their    *)
(* total stay within the supply, so that nothing in the program can        *)
(* overflow.  Every token of the supply is a coin, and the argument        *)
(* follows where the coins lie: what accounts hold are numbers of coins,   *)
(* an instruction moves some of them, and no set of coins is larger than   *)
(* all coins.  The last theorems need no coins: they add up the positions, *)
(* and follow the time of the last payment.                                *)
(***************************************************************************)
EXTENDS TerrasolBeweis, MCTerrasol, Summen

(* A coin is named by the user who held it first and a number.             *)
MUENZEN == NUTZER \X (1 .. BESTAND)

(* A coin lies loose on an account, or in the vault for a staker.          *)
Frei(k)    == <<k, DEFAULT>>
Einlage(u) == <<CONFIG, u>>
PLAETZE    == {Frei(k) : k \in NUTZER \cup {CONFIG}} \cup {Einlage(u) : u \in NUTZER}

(* The coins in the vault, and those of them that are stakes.              *)
IM_TRESOR == {Frei(CONFIG)} \cup {Einlage(u) : u \in NUTZER}
EINLAGEN  == {Einlage(u) : u \in NUTZER}

(* The coins at places of S when ort says where each one is.               *)
Muenzen(ort, S) == {m \in MUENZEN : ort[m] \in S}
Anzahl(ort, S)  == Cardinality(Muenzen(ort, S))

(* The accounts hold the coins that lie there.                             *)
Verteilt(ort) ==
    /\ ort \in [MUENZEN -> PLAETZE]
    /\ \A u \in NUTZER : tokens[u] = Anzahl(ort, {Frei(u)})
    /\ \A u \in NUTZER : positionen[u].amount = Anzahl(ort, {Einlage(u)})
    /\ tokens[CONFIG] = Anzahl(ort, IM_TRESOR)
    /\ config.total_staked = Anzahl(ort, EINLAGEN)

(* There is such a distribution; and nothing is staked before initialize.  *)
BestandInv ==
    /\ \E ort : Verteilt(ort)
    /\ ~initialisiert => config.total_staked = 0
-----------------------------------------------------------------------------
(* The places differ.                                                      *)
LEMMA Plaetze ==
    /\ \A u \in NUTZER : Einlage(u) # Frei(CONFIG)
    /\ \A u, v \in NUTZER : Einlage(u) # Frei(v) /\ (Einlage(u) = Einlage(v) => u = v)
    /\ \A j, k \in NUTZER \cup {CONFIG} : Frei(j) = Frei(k) => j = k
    /\ \A u \in NUTZER : Frei(u) \notin IM_TRESOR /\ Einlage(u) \in IM_TRESOR
    /\ \A u \in NUTZER : Frei(u) \notin EINLAGEN /\ Einlage(u) \in EINLAGEN
    /\ Frei(CONFIG) \in IM_TRESOR /\ Frei(CONFIG) \notin EINLAGEN
    /\ IM_TRESOR \subseteq PLAETZE /\ EINLAGEN \subseteq PLAETZE
    /\ \A k \in NUTZER \cup {CONFIG} : Frei(k) \in PLAETZE
    /\ \A u \in NUTZER : Einlage(u) \in PLAETZE
BY Mengen DEF Frei, Einlage, PLAETZE, IM_TRESOR, EINLAGEN

(* There are finitely many coins, fewer than a u64 can count.              *)
LEMMA Umfang == IsFiniteSet(MUENZEN) /\ Cardinality(MUENZEN) < U64
<1>1. IsFiniteSet(1 .. BESTAND) /\ Cardinality(1 .. BESTAND) = BESTAND
  BY FS_Interval, BestandAnnahme
<1>2. IsFiniteSet(NUTZER)
  BY BestandAnnahme
<1>3. /\ IsFiniteSet(MUENZEN)
      /\ Cardinality(MUENZEN) = Cardinality(NUTZER) * Cardinality(1 .. BESTAND)
  BY <1>1, <1>2, FS_Product DEF MUENZEN
<1> QED BY <1>1, <1>3, BestandAnnahme

(* Disjoint sets add up.                                                   *)
LEMMA Disjunkt ==
    ASSUME NEW S, NEW T, IsFiniteSet(S), IsFiniteSet(T), S \cap T = {}
    PROVE  /\ IsFiniteSet(S \cup T)
           /\ Cardinality(S \cup T) = Cardinality(S) + Cardinality(T)
<1>1. /\ IsFiniteSet(S \cup T)
      /\ Cardinality(S \cup T) = Cardinality(S) + Cardinality(T) - Cardinality(S \cap T)
  BY FS_Union
<1>2. Cardinality(S \cap T) = 0
  BY FS_EmptySet
<1>3. Cardinality(S) \in Nat /\ Cardinality(T) \in Nat
  BY FS_CardinalityType
<1> QED BY <1>1, <1>2, <1>3

(* Any set of coins is finite, no larger than the supply, and a part of it *)
(* is no larger.                                                           *)
LEMMA Anzahlen ==
    ASSUME NEW ort
    PROVE  /\ \A S : IsFiniteSet(Muenzen(ort, S))
           /\ \A S : Anzahl(ort, S) \in Nat /\ Anzahl(ort, S) < U64
           /\ \A S, R : S \subseteq R => Anzahl(ort, S) <= Anzahl(ort, R)
           /\ \A S, R : S \cap R = {} => Anzahl(ort, S \cup R) = Anzahl(ort, S) + Anzahl(ort, R)
<1>1. ASSUME NEW S
      PROVE  /\ IsFiniteSet(Muenzen(ort, S))
             /\ Anzahl(ort, S) \in Nat /\ Anzahl(ort, S) < U64
  <2>1. Muenzen(ort, S) \in SUBSET MUENZEN
    BY DEF Muenzen
  <2>2. IsFiniteSet(Muenzen(ort, S)) /\ Cardinality(Muenzen(ort, S)) <= Cardinality(MUENZEN)
    BY <2>1, Umfang, FS_Subset
  <2>3. Cardinality(Muenzen(ort, S)) \in Nat /\ Cardinality(MUENZEN) \in Nat
    BY <2>2, Umfang, FS_CardinalityType
  <2> QED BY <2>2, <2>3, Umfang, U64Annahme DEF Anzahl
<1>2. ASSUME NEW S, NEW R, S \subseteq R
      PROVE  Anzahl(ort, S) <= Anzahl(ort, R)
  <2>1. Muenzen(ort, S) \in SUBSET Muenzen(ort, R)
    BY <1>2 DEF Muenzen
  <2> QED BY <2>1, <1>1, FS_Subset DEF Anzahl
<1>3. ASSUME NEW S, NEW R, S \cap R = {}
      PROVE  Anzahl(ort, S \cup R) = Anzahl(ort, S) + Anzahl(ort, R)
  <2>1. /\ Muenzen(ort, S \cup R) = Muenzen(ort, S) \cup Muenzen(ort, R)
        /\ Muenzen(ort, S) \cap Muenzen(ort, R) = {}
    BY <1>3 DEF Muenzen
  <2> QED BY <2>1, <1>1, Disjunkt DEF Anzahl
<1> QED BY <1>1, <1>2, <1>3

(* A finite set has a part of every smaller size.                          *)
LEMMA Auswahl ==
    ASSUME NEW S, IsFiniteSet(S), NEW q \in Nat, q <= Cardinality(S)
    PROVE  \E T \in SUBSET S : IsFiniteSet(T) /\ Cardinality(T) = q
<1>1. Cardinality(S) \in Nat /\ ExistsBijection(1 .. Cardinality(S), S)
  BY FS_CardinalityType
<1>2. PICK f : f \in Bijection(1 .. Cardinality(S), S)
  BY <1>1 DEF ExistsBijection
<1>3. /\ f \in [1 .. Cardinality(S) -> S]
      /\ \A i, j \in 1 .. Cardinality(S) : f[i] = f[j] => i = j
  BY <1>2 DEF Bijection, Injection, IsInjective
<1> DEFINE T == {f[i] : i \in 1 .. q}
           g == [i \in 1 .. q |-> f[i]]
<1>4. 1 .. q \subseteq 1 .. Cardinality(S)
  BY <1>1
<1>5. g \in Bijection(1 .. q, T)
  BY <1>3, <1>4 DEF Bijection, Injection, Surjection, IsInjective
<1>6. ExistsBijection(1 .. q, T)
  BY <1>5 DEF ExistsBijection
<1>7. IsFiniteSet(1 .. q) /\ Cardinality(1 .. q) = q
  BY FS_Interval
<1>8. IsFiniteSet(T) /\ Cardinality(T) = q
  <2> HIDE DEF T, g
  <2> QED BY <1>6, <1>7, FS_Bijection
<1>9. T \in SUBSET S
  BY <1>3, <1>4
<1> QED BY <1>8, <1>9

(* q coins move from place a to place b.                                   *)
LEMMA Umlegen ==
    ASSUME NEW ort \in [MUENZEN -> PLAETZE], NEW a \in PLAETZE, NEW b \in PLAETZE, a # b,
           NEW q \in Nat, q <= Anzahl(ort, {a})
    PROVE  \E neu \in [MUENZEN -> PLAETZE] : \A S :
              Anzahl(neu, S) = Anzahl(ort, S) + (IF b \in S THEN q ELSE 0) - (IF a \in S THEN q ELSE 0)
<1>1. PICK T \in SUBSET Muenzen(ort, {a}) : IsFiniteSet(T) /\ Cardinality(T) = q
  BY Auswahl, Anzahlen DEF Anzahl
<1> DEFINE neu == [m \in MUENZEN |-> IF m \in T THEN b ELSE ort[m]]
<1>2. neu \in [MUENZEN -> PLAETZE]
  OBVIOUS
<1>3. ASSUME NEW S
      PROVE  Anzahl(neu, S) = Anzahl(ort, S) + (IF b \in S THEN q ELSE 0) - (IF a \in S THEN q ELSE 0)
  <2> DEFINE M == Muenzen(ort, S)
  <2>1. T \subseteq MUENZEN /\ \A m \in T : ort[m] = a
    BY <1>1 DEF Muenzen
  <2>2. IsFiniteSet(M) /\ Cardinality(M) \in Nat /\ Anzahl(ort, S) = Cardinality(M)
    BY Anzahlen DEF Anzahl
  <2>3. /\ IsFiniteSet(M \ T)
        /\ Cardinality(M \ T) = Cardinality(M) - Cardinality(M \cap T)
    BY <2>2, FS_Difference
  <2>4. Cardinality(M \cap T) = IF a \in S THEN q ELSE 0
    <3>1. M \cap T = IF a \in S THEN T ELSE {}
      BY <2>1 DEF Muenzen
    <3> QED BY <3>1, <1>1, FS_EmptySet
  <2>5. Muenzen(neu, S) = IF b \in S THEN (M \ T) \cup T ELSE M \ T
    BY <2>1 DEF Muenzen
  <2>6. Cardinality((M \ T) \cup T) = Cardinality(M \ T) + q
    <3>1. (M \ T) \cap T = {}
      OBVIOUS
    <3> QED BY <3>1, <2>3, <1>1, Disjunkt
  <2>7. Anzahl(neu, S) = IF b \in S THEN Cardinality(M \ T) + q ELSE Cardinality(M \ T)
    BY <2>5, <2>6 DEF Anzahl
  <2>8. Cardinality(M \ T) \in Nat
    BY <2>3, FS_CardinalityType
  <2> HIDE DEF M, neu
  <2> QED BY <2>2, <2>3, <2>4, <2>7, <2>8
<1> HIDE DEF neu
<1> QED BY <1>2, <1>3
-----------------------------------------------------------------------------
(* What a place gains when q coins move from a to b.                       *)
Gewinn(S, a, b, q) == (IF b \in S THEN q ELSE 0) - (IF a \in S THEN q ELSE 0)

(* If the accounts change as the places do, the coins are still where the  *)
(* accounts say.                                                           *)
LEMMA Bewegung ==
    ASSUME NEW ort, Verteilt(ort), NEW a \in PLAETZE, NEW b \in PLAETZE, a # b,
           NEW q \in Nat, q <= Anzahl(ort, {a}),
           \A u \in NUTZER :
              /\ tokens'[u] = tokens[u] + Gewinn({Frei(u)}, a, b, q)
              /\ positionen'[u].amount = positionen[u].amount + Gewinn({Einlage(u)}, a, b, q),
           tokens'[CONFIG] = tokens[CONFIG] + Gewinn(IM_TRESOR, a, b, q),
           config'.total_staked = config.total_staked + Gewinn(EINLAGEN, a, b, q)
    PROVE  (\E neu : Verteilt(neu))'
<1>1. ort \in [MUENZEN -> PLAETZE]
  BY DEF Verteilt
<1>2. PICK neu \in [MUENZEN -> PLAETZE] : \A S :
         Anzahl(neu, S) = Anzahl(ort, S) + (IF b \in S THEN q ELSE 0) - (IF a \in S THEN q ELSE 0)
  BY <1>1, Umlegen
<1>3. \A S : Anzahl(neu, S) = Anzahl(ort, S) + Gewinn(S, a, b, q)
  <2> SUFFICES ASSUME NEW S PROVE Anzahl(neu, S) = Anzahl(ort, S) + Gewinn(S, a, b, q)
    OBVIOUS
  <2>1. Anzahl(ort, S) \in Nat
    BY Anzahlen
  <2> QED BY <2>1, <1>2 DEF Gewinn
<1>4. Verteilt(neu)'
  BY <1>2, <1>3 DEF Verteilt
<1> QED BY <1>4

(* What a user holds is what lies loose on the account.                    *)
LEMMA Gedeckt ==
    ASSUME NEW ort, Verteilt(ort), NEW u \in NUTZER, NEW q, tokens[u] >= q
    PROVE  q <= Anzahl(ort, {Frei(u)})
BY DEF Verteilt

(* A transfer from a user to any account moves loose coins.                *)
LEMMA FreieBewegung ==
    ASSUME TypInv, BestandInv, NEW u \in NUTZER, NEW v \in NUTZER \cup {CONFIG}, NEW q \in Nat,
           TransferFehler(u, u, {u}, q) = OK,
           tokens' = Ueberwiesen(u, v, q), UNCHANGED <<config, positionen, initialisiert>>
    PROVE  BestandInv'
<1>0. /\ tokens \in [NUTZER \cup {CONFIG} -> Nat]
      /\ \A w \in NUTZER : positionen[w].amount \in Nat
      /\ config.total_staked \in Nat
  BY DEF TypInv, CfgTyp, PosTyp
<1>1. PICK ort : Verteilt(ort)
  BY DEF BestandInv
<1>2. u # CONFIG /\ CONFIG \notin NUTZER
  BY Mengen
<1>3. /\ q <= tokens[u]
      /\ \A x \in NUTZER \cup {CONFIG} :
            tokens'[x] = tokens[x] + (IF x = v THEN q ELSE 0) - (IF x = u THEN q ELSE 0)
  BY <1>0, Transfer
<1>4. CASE u = v
  <2>1. \A x \in NUTZER \cup {CONFIG} : tokens'[x] = tokens[x]
    BY <1>0, <1>3, <1>4
  <2>2. Verteilt(ort)'
    BY <1>1, <2>1 DEF Verteilt
  <2> QED BY <2>2 DEF BestandInv
<1>5. CASE u # v
  <2> DEFINE a == Frei(u)
             b == Frei(v)
  <2>1. a \in PLAETZE /\ b \in PLAETZE /\ a # b /\ q <= Anzahl(ort, {a})
    BY Plaetze, Gedeckt, <1>1, <1>3, <1>5
  <2>2. \A w \in NUTZER :
           /\ Gewinn({Frei(w)}, a, b, q) = (IF w = v THEN q ELSE 0) - (IF w = u THEN q ELSE 0)
           /\ Gewinn({Einlage(w)}, a, b, q) = 0
    <3> SUFFICES ASSUME NEW w \in NUTZER
                 PROVE  /\ (b \in {Frei(w)} <=> w = v) /\ (a \in {Frei(w)} <=> w = u)
                        /\ b \notin {Einlage(w)} /\ a \notin {Einlage(w)}
      BY DEF Gewinn
    <3> QED BY Plaetze
  <2>3. Gewinn(IM_TRESOR, a, b, q) = (IF v = CONFIG THEN q ELSE 0) /\ Gewinn(EINLAGEN, a, b, q) = 0
    <3>1. (b \in IM_TRESOR <=> v = CONFIG) /\ a \notin IM_TRESOR /\ b \notin EINLAGEN /\ a \notin EINLAGEN
      BY Plaetze, <1>2
    <3> QED BY <3>1 DEF Gewinn
  <2> HIDE DEF a, b
  <2>4. \A w \in NUTZER :
           /\ tokens'[w] = tokens[w] + Gewinn({Frei(w)}, a, b, q)
           /\ positionen'[w].amount = positionen[w].amount + Gewinn({Einlage(w)}, a, b, q)
    <3> SUFFICES ASSUME NEW w \in NUTZER
                 PROVE  /\ tokens'[w] = tokens[w] + Gewinn({Frei(w)}, a, b, q)
                        /\ positionen'[w].amount = positionen[w].amount + Gewinn({Einlage(w)}, a, b, q)
      OBVIOUS
    <3>1. tokens[w] \in Nat /\ positionen[w].amount \in Nat /\ positionen' = positionen
      BY <1>0
    <3>2. /\ Gewinn({Frei(w)}, a, b, q) = (IF w = v THEN q ELSE 0) - (IF w = u THEN q ELSE 0)
          /\ Gewinn({Einlage(w)}, a, b, q) = 0
      BY <2>2
    <3>3. tokens'[w] = tokens[w] + (IF w = v THEN q ELSE 0) - (IF w = u THEN q ELSE 0)
      BY <1>3
    <3> QED BY <3>1, <3>2, <3>3
  <2>5. tokens'[CONFIG] = tokens[CONFIG] + Gewinn(IM_TRESOR, a, b, q)
    BY <1>0, <1>2, <1>3, <2>3
  <2>6. config'.total_staked = config.total_staked + Gewinn(EINLAGEN, a, b, q)
    BY <1>0, <2>3
  <2>7. (\E neu : Verteilt(neu))'
    BY <1>1, <2>1, <2>4, <2>5, <2>6, Bewegung
  <2> QED BY <2>7 DEF BestandInv
<1> QED BY <1>4, <1>5

(* Every instruction moves coins, or changes nothing that counts them.     *)
LEMMA BestandSchritt == ASSUME TypInv, BestandInv, Schritt PROVE BestandInv'
<1>0. /\ tokens \in [NUTZER \cup {CONFIG} -> Nat]
      /\ \A u \in NUTZER : positionen[u].amount \in Nat
      /\ config.total_staked \in Nat
  BY DEF TypInv, CfgTyp, PosTyp
<1>p. PICK ort : Verteilt(ort)
  BY DEF BestandInv
<1>1. ASSUME NEW u \in NUTZER, NEW k \in KONTO, NEW q \in BETRAEGE, Stake(u, k, q)
      PROVE  BestandInv'
  <2>1. /\ k.owner = u /\ TransferFehler(u, u, {u}, q) = OK
        /\ initialisiert' = initialisiert /\ initialisiert /\ q \in Nat
    BY <1>1, EigenesKonto, Mengen DEF Stake, StakeFehler, OK
  <2>2. /\ q <= tokens[u]
        /\ \A x \in NUTZER \cup {CONFIG} :
              tokens'[x] = tokens[x] + (IF x = CONFIG THEN q ELSE 0) - (IF x = u THEN q ELSE 0)
    <3>1. tokens' = Ueberwiesen(u, CONFIG, q)
      BY <1>1, <2>1 DEF Stake
    <3>2. u \in NUTZER \cup {CONFIG} /\ CONFIG \in NUTZER \cup {CONFIG}
      OBVIOUS
    <3>3. tokens[u] >= q
      BY <1>0, <2>1, <3>2, Transfer
    <3> QED BY <1>0, <2>1, <3>1, <3>2, <3>3 DEF Ueberwiesen
  <2>3. /\ config'.total_staked = config.total_staked + q
        /\ \A v \in NUTZER : positionen'[v].amount =
              positionen[v].amount + (IF v = u THEN q ELSE 0)
    <3>1. config' = [config EXCEPT !.total_staked = config.total_staked + q]
      BY <1>1 DEF Stake, NeueSumme
    <3>2. positionen' = [positionen EXCEPT ![u] =
             [angelegt |-> TRUE, amount |-> positionen[u].amount + q, locked_until |-> SperreBis(u)]]
      BY <1>1 DEF Stake
    <3> QED BY <3>1, <3>2, <1>0 DEF TypInv, CfgTyp, PosTyp
  <2>4. (\E neu : Verteilt(neu))'
    <3> DEFINE a == Frei(u)
               b == Einlage(u)
    <3>1. a \in PLAETZE /\ b \in PLAETZE /\ a # b /\ q <= Anzahl(ort, {a})
      BY Plaetze, Gedeckt, <1>p, <2>2
    <3>2. \A v \in NUTZER : /\ Gewinn({Frei(v)}, a, b, q) = 0 - (IF v = u THEN q ELSE 0)
                            /\ Gewinn({Einlage(v)}, a, b, q) = (IF v = u THEN q ELSE 0)
      BY Plaetze, <2>1 DEF Gewinn
    <3>3. Gewinn(IM_TRESOR, a, b, q) = q /\ Gewinn(EINLAGEN, a, b, q) = q
      BY Plaetze, <2>1 DEF Gewinn
    <3>4. u # CONFIG /\ CONFIG \notin NUTZER
      BY Mengen
    <3> HIDE DEF a, b
    <3>5. \A v \in NUTZER :
             /\ tokens'[v] = tokens[v] + Gewinn({Frei(v)}, a, b, q)
             /\ positionen'[v].amount = positionen[v].amount + Gewinn({Einlage(v)}, a, b, q)
      <4> SUFFICES ASSUME NEW v \in NUTZER
                   PROVE  /\ tokens'[v] = tokens[v] + Gewinn({Frei(v)}, a, b, q)
                          /\ positionen'[v].amount =
                                positionen[v].amount + Gewinn({Einlage(v)}, a, b, q)
        OBVIOUS
      <4>1. tokens[v] \in Nat /\ positionen[v].amount \in Nat /\ v # CONFIG
        BY <1>0, <3>4
      <4>2. /\ Gewinn({Frei(v)}, a, b, q) = 0 - (IF v = u THEN q ELSE 0)
            /\ Gewinn({Einlage(v)}, a, b, q) = (IF v = u THEN q ELSE 0)
        BY <3>2
      <4>3. tokens'[v] = tokens[v] - (IF v = u THEN q ELSE 0)
        BY <4>1, <2>1, <2>2
      <4>4. positionen'[v].amount = positionen[v].amount + (IF v = u THEN q ELSE 0)
        BY <2>3
      <4> QED BY <4>1, <4>2, <4>3, <4>4, <2>1
    <3>6. tokens'[CONFIG] = tokens[CONFIG] + Gewinn(IM_TRESOR, a, b, q)
      BY <1>0, <2>1, <2>2, <3>3, <3>4
    <3>7. config'.total_staked = config.total_staked + Gewinn(EINLAGEN, a, b, q)
      BY <2>3, <3>3
    <3> QED BY <1>p, <2>1, <3>1, <3>5, <3>6, <3>7, Bewegung
  <2> QED BY <2>1, <2>4 DEF BestandInv
<1>2. ASSUME NEW u \in NUTZER, NEW k \in KONTO, NEW q \in BETRAEGE, Ausgezahlt(u, k, q)
      PROVE  BestandInv'
  <2>1. /\ k.owner = u /\ initialisiert' = initialisiert /\ initialisiert /\ q \in Nat
        /\ q <= positionen[u].amount
    <3>1. k.owner = u /\ initialisiert' = initialisiert /\ initialisiert /\ q \in Nat
          /\ ~(positionen[u].amount < q)
      BY <1>2, EigenesKonto, Mengen DEF Ausgezahlt, UnstakeFehler, OK
    <3> QED BY <3>1, <1>0
  <2>2. \A x \in NUTZER \cup {CONFIG} :
           tokens'[x] = tokens[x] + (IF x = u THEN q ELSE 0) - (IF x = CONFIG THEN q ELSE 0)
    BY <1>2, <2>1 DEF Ausgezahlt, Ueberwiesen
  <2>3. /\ config'.total_staked = config.total_staked - q
        /\ \A v \in NUTZER : positionen'[v].amount =
              positionen[v].amount - (IF v = u THEN q ELSE 0)
    <3>1. config' = [config EXCEPT !.total_staked = config.total_staked - q]
      BY <1>2 DEF Ausgezahlt
    <3>2. positionen' = [positionen EXCEPT ![u].amount = positionen[u].amount - q]
      BY <1>2 DEF Ausgezahlt
    <3> QED BY <3>1, <3>2, <1>0 DEF TypInv, CfgTyp, PosTyp
  <2>4. (\E neu : Verteilt(neu))'
    <3> DEFINE a == Einlage(u)
               b == Frei(u)
    <3>1. a \in PLAETZE /\ b \in PLAETZE /\ a # b /\ q <= Anzahl(ort, {a})
      BY Plaetze, <1>p, <2>1 DEF Verteilt
    <3>2. \A v \in NUTZER : /\ Gewinn({Frei(v)}, a, b, q) = (IF v = u THEN q ELSE 0)
                            /\ Gewinn({Einlage(v)}, a, b, q) = 0 - (IF v = u THEN q ELSE 0)
      BY Plaetze, <2>1 DEF Gewinn
    <3>3. Gewinn(IM_TRESOR, a, b, q) = 0 - q /\ Gewinn(EINLAGEN, a, b, q) = 0 - q
      BY Plaetze, <2>1 DEF Gewinn
    <3>4. u # CONFIG /\ CONFIG \notin NUTZER
      BY Mengen
    <3> HIDE DEF a, b
    <3>5. \A v \in NUTZER :
             /\ tokens'[v] = tokens[v] + Gewinn({Frei(v)}, a, b, q)
             /\ positionen'[v].amount = positionen[v].amount + Gewinn({Einlage(v)}, a, b, q)
      <4> SUFFICES ASSUME NEW v \in NUTZER
                   PROVE  /\ tokens'[v] = tokens[v] + Gewinn({Frei(v)}, a, b, q)
                          /\ positionen'[v].amount =
                                positionen[v].amount + Gewinn({Einlage(v)}, a, b, q)
        OBVIOUS
      <4>1. tokens[v] \in Nat /\ positionen[v].amount \in Nat /\ v # CONFIG
        BY <1>0, <3>4
      <4>2. /\ Gewinn({Frei(v)}, a, b, q) = (IF v = u THEN q ELSE 0)
            /\ Gewinn({Einlage(v)}, a, b, q) = 0 - (IF v = u THEN q ELSE 0)
        BY <3>2
      <4>3. tokens'[v] = tokens[v] + (IF v = u THEN q ELSE 0)
        BY <4>1, <2>1, <2>2
      <4>4. positionen'[v].amount = positionen[v].amount - (IF v = u THEN q ELSE 0)
        BY <2>3
      <4> QED BY <4>1, <4>2, <4>3, <4>4, <2>1
    <3>6. tokens'[CONFIG] = tokens[CONFIG] + Gewinn(IM_TRESOR, a, b, q)
      BY <1>0, <2>1, <2>2, <3>3, <3>4
    <3>7. config'.total_staked = config.total_staked + Gewinn(EINLAGEN, a, b, q)
      BY <1>0, <2>1, <2>3, <3>3
    <3> QED BY <1>p, <2>1, <3>1, <3>5, <3>6, <3>7, Bewegung
  <2> QED BY <2>1, <2>4 DEF BestandInv
<1>3. ASSUME NEW u \in NUTZER, NEW i \in DOMAIN listings, NEW kb \in KONTO, NEW ks \in KONTO,
             BuyCredit(u, i, kb, ks)
      PROVE  BestandInv'
  <2>1. /\ kb.owner = u /\ ks.owner = listings[i].seller
        /\ TransferFehler(u, u, {u}, listings[i].price) = OK
    BY <1>3, EigenesKonto DEF BuyCredit, BuyCreditFehler, OK
  <2>2. listings[i].seller \in NUTZER /\ listings[i].price \in Nat
    BY DEF TypInv
  <2>3. /\ tokens' = Ueberwiesen(u, listings[i].seller, listings[i].price)
        /\ UNCHANGED <<config, positionen, initialisiert>>
    BY <1>3, <2>1 DEF BuyCredit
  <2> QED BY <2>1, <2>2, <2>3, FreieBewegung
<1>4. ASSUME NEW u \in NUTZER, NEW v \in NUTZER \cup {CONFIG}, NEW q \in BETRAEGE,
             Ueberweisen(u, v, q)
      PROVE  BestandInv'
  <2>1. q \in Nat
    BY Mengen
  <2> QED BY <1>4, <2>1, FreieBewegung DEF Ueberweisen
<1>5. ASSUME UNCHANGED <<positionen, tokens>>,
             config'.total_staked \in {config.total_staked, 0},
             \/ UNCHANGED initialisiert /\ config'.total_staked = config.total_staked
             \/ ~initialisiert
      PROVE  BestandInv'
  <2>1. config'.total_staked = config.total_staked
    BY <1>5 DEF BestandInv
  <2>2. Verteilt(ort)'
    BY <1>5, <1>p, <2>1 DEF Verteilt
  <2>3. ~initialisiert' => config'.total_staked = 0
    BY <1>5, <2>1 DEF BestandInv
  <2> QED BY <2>2, <2>3 DEF BestandInv
<1> QED BY <1>1, <1>2, <1>3, <1>4, <1>5, RahmenStake

(* At first every coin lies with the user who names it.                    *)
LEMMA BestandInit == Init => BestandInv
<1> SUFFICES ASSUME Init PROVE BestandInv
  OBVIOUS
<1> DEFINE ort == [m \in MUENZEN |-> Frei(m[1])]
<1>1. ort \in [MUENZEN -> PLAETZE]
  BY DEF MUENZEN, PLAETZE
<1>2. ASSUME NEW u \in NUTZER PROVE Anzahl(ort, {Frei(u)}) = BESTAND
  <2>1. Muenzen(ort, {Frei(u)}) = {u} \X (1 .. BESTAND)
    <3>1. \A m \in MUENZEN : m[1] \in NUTZER
      BY DEF MUENZEN
    <3>2. \A m \in MUENZEN : ort[m] \in {Frei(u)} <=> m[1] = u
      BY <3>1, Plaetze
    <3> HIDE DEF ort
    <3> QED BY <3>2 DEF Muenzen, MUENZEN
  <2>2. IsFiniteSet({u}) /\ Cardinality({u}) = 1
    BY FS_Singleton
  <2>3. IsFiniteSet(1 .. BESTAND) /\ Cardinality(1 .. BESTAND) = BESTAND
    BY FS_Interval, BestandAnnahme
  <2>4. Cardinality({u} \X (1 .. BESTAND)) = 1 * BESTAND
    <3> DEFINE X == {u}
               Y == 1 .. BESTAND
    <3>1. IsFiniteSet(X) /\ IsFiniteSet(Y) /\ Cardinality(X) = 1 /\ Cardinality(Y) = BESTAND
      BY <2>2, <2>3
    <3> HIDE DEF X, Y
    <3>2. Cardinality(X \X Y) = Cardinality(X) * Cardinality(Y)
      BY <3>1, FS_Product
    <3>3. Cardinality(X \X Y) = 1 * BESTAND
      BY <3>1, <3>2
    <3> QED BY <3>3 DEF X, Y
  <2>5. 1 * BESTAND = BESTAND
    BY BestandAnnahme
  <2> HIDE DEF ort
  <2> QED BY <2>1, <2>4, <2>5 DEF Anzahl
<1>3. ASSUME NEW S, \A u \in NUTZER : Frei(u) \notin S PROVE Anzahl(ort, S) = 0
  <2>1. Muenzen(ort, S) = {}
    BY <1>3 DEF Muenzen, MUENZEN
  <2> QED BY <2>1, FS_EmptySet DEF Anzahl
<1>4. /\ \A u \in NUTZER : Anzahl(ort, {Einlage(u)}) = 0
      /\ Anzahl(ort, IM_TRESOR) = 0 /\ Anzahl(ort, EINLAGEN) = 0
  <2> HIDE DEF ort
  <2> QED BY <1>3, Plaetze
<1>5. /\ \A u \in NUTZER : tokens[u] = BESTAND /\ positionen[u].amount = 0
      /\ tokens[CONFIG] = 0 /\ config.total_staked = 0
  BY Mengen DEF Init
<1> HIDE DEF ort
<1>6. Verteilt(ort)
  BY <1>1, <1>2, <1>4, <1>5 DEF Verteilt
<1> QED BY <1>5, <1>6 DEF BestandInv

(* The coins are where the accounts say, always.                           *)
LEMMA Bestand == Spec => []BestandInv
<1>1. TypInv /\ BestandInv /\ [Next]_vars => BestandInv'
  BY Faelle, BestandSchritt
<1> QED BY Typen, BestandInit, <1>1, PTL DEF Spec

(* What that says about single accounts: a balance, a stake and the total  *)
(* are below 2^64, a stake is part of the total, and so is the sum of what *)
(* is staked and what one user still has.                                  *)
LEMMA Schranken ==
    ASSUME BestandInv
    PROVE  /\ \A k \in NUTZER \cup {CONFIG} : tokens[k] \in MENGE
           /\ config.total_staked \in MENGE
           /\ \A u \in NUTZER :
                 /\ positionen[u].amount \in MENGE
                 /\ positionen[u].amount <= config.total_staked
                 /\ tokens[u] + config.total_staked < U64
<1>1. PICK ort : Verteilt(ort)
  BY DEF BestandInv
<1>2. \A S : Anzahl(ort, S) \in MENGE
  BY Anzahlen, U64Annahme DEF MENGE
<1>3. ASSUME NEW u \in NUTZER
      PROVE  /\ positionen[u].amount <= config.total_staked
             /\ tokens[u] + config.total_staked < U64
  <2>1. {Einlage(u)} \subseteq EINLAGEN /\ {Frei(u)} \cap EINLAGEN = {}
    BY Plaetze
  <2>2. Anzahl(ort, {Einlage(u)}) <= Anzahl(ort, EINLAGEN)
    BY <2>1, Anzahlen
  <2>3. Anzahl(ort, {Frei(u)} \cup EINLAGEN) = Anzahl(ort, {Frei(u)}) + Anzahl(ort, EINLAGEN)
    BY <2>1, Anzahlen
  <2>4. Anzahl(ort, {Frei(u)} \cup EINLAGEN) < U64
    BY Anzahlen
  <2> QED BY <1>1, <2>2, <2>3, <2>4 DEF Verteilt
<1> QED BY <1>1, <1>2, <1>3 DEF Verteilt
-----------------------------------------------------------------------------
(* The types of what is not counted: clock and signer, the impact records, *)
(* the listings.                                                           *)
UhrInv == uhr \in 0 .. MAX_ZEIT /\ signer \in KEY
AktenInv ==
    /\ config.impact_count \in 0 .. MAX_IMPACTS
    /\ DOMAIN impacts \subseteq IMPACT
    /\ \A i \in DOMAIN impacts : impacts[i] \in Impact
AngebotInv ==
    /\ DOMAIN listings \subseteq IMPACT
    /\ \A i \in DOMAIN listings : listings[i] \in Listing

(* Everything that is inductive together.                                  *)
AllesInv == TypInv /\ BestandInv /\ FristInv /\ UhrInv /\ AktenInv /\ AngebotInv

(* The clock stays within its bound, and whoever signs has a key.          *)
LEMMA UhrSchritt == ASSUME UhrInv, Schritt PROVE UhrInv'
<1>0. uhr \in 0 .. MAX_ZEIT /\ signer \in KEY /\ DEFAULT \in KEY /\ NUTZER \subseteq KEY
  BY DEF UhrInv, KEY
<1>1. ASSUME NEW u \in NUTZER, uhr' = uhr, signer' = u PROVE UhrInv'
  BY <1>0, <1>1 DEF UhrInv
<1>2. ASSUME NEW u \in NUTZER, NEW k, NEW q, Stake(u, k, q) \/ Ausgezahlt(u, k, q)
      PROVE  uhr' = uhr /\ signer' = u
  BY <1>2 DEF Stake, Ausgezahlt, Ausgefuehrt
<1>3. ASSUME NEW u \in NUTZER, NEW s, NEW n, NEW c, NEW b,
             RegisterImpact(u, s, n, c, b) \/ Initialize(u, s, n, c) \/ BuyCredit(u, s, n, c)
      PROVE  uhr' = uhr /\ signer' = u
  BY <1>3 DEF RegisterImpact, Initialize, BuyCredit, Ausgefuehrt
<1>4. ASSUME NEW u \in NUTZER, NEW x, SetOracle(u, x) \/ SetGovernance(u, x) \/ SetPaused(u, x)
                                      \/ SetThresholds(u, x) \/ CancelListing(u, x)
      PROVE  uhr' = uhr /\ signer' = u
  BY <1>4 DEF SetOracle, SetGovernance, SetPaused, SetThresholds, CancelListing, Ausgefuehrt
<1>5. ASSUME NEW u \in NUTZER, NEW i, NEW p, ListCredit(u, i, p) \/ Ueberweisen(u, i, p)
      PROVE  uhr' = uhr /\ signer' = u
  BY <1>5 DEF ListCredit, Ueberweisen, Ausgefuehrt
<1>6. ASSUME Folgenlos PROVE UhrInv'
  BY <1>0, <1>6, GrenzenAnnahme DEF Folgenlos, UhrInv
<1> QED BY <1>1, <1>2, <1>3, <1>4, <1>5, <1>6 DEF Schritt

(* A new record has the next index, within the bound of the model.         *)
LEMMA AktenSchritt == ASSUME TypInv, UhrInv, AktenInv, Schritt PROVE AktenInv'
<1>1. ASSUME NEW u \in NUTZER, NEW s \in NUTZER, NEW n \in Nat, NEW c \in Nat, NEW b \in BOOLEAN,
             RegisterImpact(u, s, n, c, b)
      PROVE  AktenInv'
  <2> DEFINE x == <<s, n>>
             r == [oracle |-> u, co2e_grams |-> c, timestamp |-> uhr, subject |-> s,
                   index |-> config.impact_count]
  <2>1. n = config.impact_count /\ n < MAX_IMPACTS
    BY <1>1 DEF RegisterImpact, RegisterImpactFehler, OK
  <2>2. n \in 0 .. MAX_IMPACTS - 1 /\ n + 1 \in 0 .. MAX_IMPACTS
    BY <2>1, GrenzenAnnahme
  <2>3. x \in IMPACT
    BY <2>2 DEF IMPACT
  <2>4. r \in Impact
    BY <2>1, <2>2, Mengen DEF Impact, UhrInv
  <2>5. config'.impact_count = n + 1
    BY <1>1, <2>1 DEF RegisterImpact, TypInv, CfgTyp
  <2>6. /\ DOMAIN impacts' = DOMAIN impacts \cup {x} /\ impacts'[x] = r
        /\ \A y \in DOMAIN impacts : y # x => impacts'[y] = impacts[y]
    BY <1>1 DEF RegisterImpact, Anlegen
  <2> HIDE DEF x, r
  <2> QED BY <2>2, <2>3, <2>4, <2>5, <2>6 DEF AktenInv
<1>2. ASSUME NEW u, NEW x, NEW y, NEW th, Initialize(u, x, y, th)
      PROVE  AktenInv'
  BY <1>2, GrenzenAnnahme DEF Initialize, AktenInv
<1>3. ASSUME impacts' = impacts, config'.impact_count = config.impact_count
      PROVE  AktenInv'
  BY <1>3 DEF AktenInv
<1> QED BY <1>1, <1>2, <1>3, RahmenImpact

(* A listing refers to a record, and its price is one that was asked.      *)
LEMMA AngebotSchritt == ASSUME AktenInv, AngebotInv, Schritt PROVE AngebotInv'
<1>1. ASSUME NEW u \in NUTZER, NEW i \in IMPACT, NEW p \in PREISE, ListCredit(u, i, p)
      PROVE  AngebotInv'
  <2> DEFINE r == [seller |-> u, impact_index |-> impacts[i].index, price |-> p,
                   buyer |-> DEFAULT, sold |-> FALSE]
  <2>1. i \in DOMAIN impacts
    BY <1>1 DEF ListCredit, ListCreditFehler, OK
  <2>2. impacts[i].index \in 0 .. MAX_IMPACTS - 1
    BY <2>1 DEF AktenInv, Impact
  <2>3. p \in MENGE /\ DEFAULT \in KEY
    BY BetraegeAnnahme DEF MENGE, KEY
  <2>4. r \in Listing
    BY <2>2, <2>3 DEF Listing
  <2>5. /\ DOMAIN listings' = DOMAIN listings \cup {i} /\ listings'[i] = r
        /\ \A j \in DOMAIN listings : j # i => listings'[j] = listings[j]
    BY <1>1 DEF ListCredit, Anlegen
  <2> HIDE DEF r
  <2> QED BY <2>4, <2>5 DEF AngebotInv
<1>2. ASSUME NEW u, NEW i, CancelListing(u, i)
      PROVE  AngebotInv'
  BY <1>2 DEF CancelListing, Schliessen, AngebotInv
<1>3. ASSUME NEW u \in NUTZER, NEW i \in DOMAIN listings, NEW kb, NEW ks, BuyCredit(u, i, kb, ks)
      PROVE  AngebotInv'
  <2>1. listings' = [listings EXCEPT ![i] = [[listings[i] EXCEPT !.buyer = u] EXCEPT !.sold = TRUE]]
    BY <1>3 DEF BuyCredit
  <2>2. [[listings[i] EXCEPT !.buyer = u] EXCEPT !.sold = TRUE] \in Listing
    BY Mengen DEF AngebotInv, Listing
  <2> QED BY <2>1, <2>2 DEF AngebotInv
<1>4. ASSUME listings' = listings PROVE AngebotInv'
  BY <1>4 DEF AngebotInv
<1> QED BY <1>1, <1>2, <1>3, <1>4, RahmenMarkt

(* All of it is inductive.                                                 *)
LEMMA AllesImmer == Spec => []AllesInv
<1>1. Init => UhrInv /\ AktenInv /\ AngebotInv /\ FristInv
  BY GrenzenAnnahme, SperreAnnahme DEF Init, UhrInv, AktenInv, AngebotInv, FristInv, KEY
<1>2. AllesInv /\ [Next]_vars => AllesInv'
  BY Faelle, TypSchritt, BestandSchritt, SperreSchritt, UhrSchritt, AktenSchritt, AngebotSchritt
     DEF AllesInv
<1> QED BY TypInit, BestandInit, <1>1, <1>2, PTL DEF Spec, AllesInv

(* Every account, record, listing and balance keeps its type: no balance,  *)
(* stake or total ever leaves the u64 it is kept in, for any number of     *)
(* users and any supply that fits into a u64.                              *)
THEOREM TypenImmer == Spec => []TypeOK
<1>1. AllesInv => TypeOK
  <2> SUFFICES ASSUME AllesInv PROVE TypeOK
    OBVIOUS
  <2>1. TypInv /\ BestandInv /\ FristInv /\ UhrInv /\ AktenInv /\ AngebotInv
    BY DEF AllesInv
  <2>2. config \in Config
    <3>1. config \in CfgTyp /\ config.total_staked \in MENGE /\ config.impact_count \in 0 .. MAX_IMPACTS
      BY <2>1, Schranken DEF TypInv, AktenInv
    <3> QED BY <3>1 DEF CfgTyp, Config
  <2>3. positionen \in [NUTZER -> Position]
    <3>1. positionen \in [NUTZER -> PosTyp]
      BY <2>1 DEF TypInv
    <3>2. ASSUME NEW u \in NUTZER PROVE positionen[u] \in Position
      <4>1. positionen[u] \in PosTyp /\ positionen[u].amount \in MENGE
        BY <2>1, <3>1, Schranken
      <4>2. positionen[u].locked_until \in 0 .. MAX_ZEIT + SPERRE
        <5>1. /\ positionen[u].locked_until \in Nat
              /\ positionen[u].locked_until <= uhr + SPERRE /\ uhr \in 0 .. MAX_ZEIT
          BY <2>1, <4>1 DEF PosTyp, FristInv, UhrInv
        <5> QED BY <5>1, SperreAnnahme, GrenzenAnnahme
      <4> QED BY <4>1, <4>2 DEF PosTyp, Position
    <3> QED BY <3>1, <3>2
  <2>4. tokens \in [NUTZER \cup {CONFIG} -> MENGE]
    BY <2>1, Schranken DEF TypInv
  <2> QED BY <2>1, <2>2, <2>3, <2>4 DEF TypeOK, TypInv, UhrInv, AktenInv, AngebotInv
<1> QED BY <1>1, AllesImmer, PTL
-----------------------------------------------------------------------------
(* None of the checks of accounts and transfers is the overflow.           *)
LEMMA AndereFehler ==
    /\ \A k, wer : KontoFehler(k, wer) # "MathOverflow"
    /\ \A v, a, S, q : TransferFehler(v, a, S, q) # "MathOverflow"
    /\ \A wer : GovernFehler(wer) # "MathOverflow"
BY DEF KontoFehler, TransferFehler, GovernFehler, OK

(* No step ends with an overflow.                                          *)
LEMMA UeberlaufSchritt == ASSUME AllesInv, KeinUeberlauf, [Next]_vars PROVE KeinUeberlauf'
<1>0. TypInv /\ BestandInv /\ AktenInv
  BY DEF AllesInv
<1>1. ASSUME NEW f, f # "MathOverflow", Gescheitert(f) PROVE KeinUeberlauf'
  BY <1>1 DEF Gescheitert, KeinUeberlauf
<1>2. ASSUME NEW s, NEW e, Ausgefuehrt(s, e) PROVE KeinUeberlauf'
  BY <1>2 DEF Ausgefuehrt, KeinUeberlauf, OK
<1>3. CASE Staking
  <2>1. PICK u \in NUTZER, k \in KONTO, q \in BETRAEGE :
           \/ Stake(u, k, q)
           \/ Gescheitert(StakeFehler(u, k, q))
           \/ Unstake(u, k, q)
    BY <1>3 DEF Staking
  <2>2. /\ q \in Nat /\ tokens[u] \in Nat /\ config.total_staked \in Nat /\ positionen[u].amount \in Nat
        /\ positionen[u].amount <= config.total_staked /\ tokens[u] + config.total_staked < U64
    BY <1>0, Schranken, Mengen
  <2>3. StakeFehler(u, k, q) # "MathOverflow"
    <3> SUFFICES ASSUME StakeFehler(u, k, q) = "MathOverflow" PROVE FALSE
      OBVIOUS
    <3>1. /\ KontoFehler(k, u) = OK /\ TransferFehler(k.owner, u, {u}, q) = OK
          /\ positionen[u].amount + q >= U64 \/ NeueSumme(u, q) >= U64
      BY AndereFehler DEF StakeFehler, OK
    <3>2. k.owner = u
      BY <3>1, EigenesKonto
    <3>3. ~(tokens[u] < q)
      BY <3>1, <3>2 DEF TransferFehler, OK
    <3> QED BY <2>2, <3>1, <3>3, U64Annahme DEF NeueSumme
  <2>4. UnstakeFehler(u, k, q) # "MathOverflow"
    <3> SUFFICES ASSUME UnstakeFehler(u, k, q) = "MathOverflow" PROVE FALSE
      OBVIOUS
    <3>1. ~(positionen[u].amount < q) /\ config.total_staked < q
      BY AndereFehler DEF UnstakeFehler, OK
    <3> QED BY <2>2, <3>1
  <2>5. CASE Stake(u, k, q)
    BY <2>5, <1>2 DEF Stake
  <2>6. CASE Unstake(u, k, q)
    BY <2>4, <2>6, <1>1, <1>2 DEF Unstake
  <2> QED BY <2>1, <2>3, <2>5, <2>6, <1>1
<1>4. CASE Anrechnung
  <2>1. PICK u \in NUTZER, s \in NUTZER, n \in 0 .. MAX_IMPACTS, c \in {0, 1}, b \in BOOLEAN :
           RegisterImpact(u, s, n, c, b) \/ Gescheitert(RegisterImpactFehler(u, s, n, c, b))
    BY <1>4 DEF Anrechnung
  <2>2. config.impact_count + 1 < U64
    BY <1>0, GrenzenAnnahme, U64Annahme DEF AktenInv
  <2>3. RegisterImpactFehler(u, s, n, c, b) # "MathOverflow"
    <3>1. ~(config.impact_count + 1 >= U64)
      BY <1>0, <2>2, U64Annahme DEF AktenInv
    <3> QED BY <3>1 DEF RegisterImpactFehler, OK
  <2> QED BY <2>1, <2>3, <1>1, <1>2 DEF RegisterImpact
<1>5. CASE Governance
  <2>1. /\ \A u, x : SetGovernanceFehler(u, x) # "MathOverflow"
        /\ \A th : InitializeFehler(th) # "MathOverflow"
        /\ \A u, th : SetThresholdsFehler(u, th) # "MathOverflow"
    BY AndereFehler DEF SetGovernanceFehler, InitializeFehler, SetThresholdsFehler, OK
  <2> QED BY <1>5, <2>1, <1>1, <1>2
          DEF Governance, Initialize, SetOracle, SetGovernance, SetThresholds, SetPaused
<1>6. CASE Markt
  <2>1. /\ \A u, i, p : ListCreditFehler(u, i, p) # "MathOverflow"
        /\ \A u, i : CancelListingFehler(u, i) # "MathOverflow"
        /\ \A u, i, kb, ks : BuyCreditFehler(u, i, kb, ks) # "MathOverflow"
    BY AndereFehler DEF ListCreditFehler, CancelListingFehler, BuyCreditFehler, OK
  <2> QED BY <1>6, <2>1, <1>1, <1>2 DEF Markt, ListCredit, CancelListing, BuyCredit
<1>7. CASE Umwelt
  BY <1>7, <1>2 DEF Umwelt, Ticken, Ueberweisen, KeinUeberlauf
<1>8. CASE UNCHANGED vars
  BY <1>8 DEF vars, KeinUeberlauf
<1> QED BY <1>3, <1>4, <1>5, <1>6, <1>7, <1>8 DEF Next

(* The checked additions and subtractions of the program never abort: what *)
(* is staked and what a user can still stake are parts of one supply.      *)
THEOREM NieUeberlauf == Spec => []KeinUeberlauf
<1>1. Init => KeinUeberlauf
  BY DEF Init, KeinUeberlauf, OK
<1>2. AllesInv /\ KeinUeberlauf /\ [Next]_vars => KeinUeberlauf'
  BY UeberlaufSchritt
<1> QED BY AllesImmer, <1>1, <1>2, PTL DEF Spec
-----------------------------------------------------------------------------
(* All that is staked.                                                     *)
EINGELEGT == SumFunctionOnSet([u \in NUTZER |-> positionen[u].amount], NUTZER)

(* A staked amount grows or shrinks by d, and so does all that is staked.  *)
LEMMA EingelegtSchritt ==
    ASSUME TypInv, TypInv', NEW u \in NUTZER, NEW d \in Int,
           positionen'[u].amount = positionen[u].amount + d,
           \A v \in NUTZER : v # u => positionen'[v] = positionen[v]
    PROVE  EINGELEGT' = EINGELEGT + d /\ EINGELEGT \in Int
<1> DEFINE f == [v \in NUTZER |-> positionen[v].amount]
           h == [v \in NUTZER |-> positionen'[v].amount]
<1>1. \A v \in NUTZER : f[v] \in Int /\ h[v] \in Int
  <2>1. \A v \in NUTZER : positionen[v].amount \in Nat
    BY DEF TypInv, PosTyp
  <2>2. \A v \in NUTZER : positionen'[v].amount \in Nat
    BY DEF TypInv, PosTyp
  <2> QED BY <2>1, <2>2
<1>2. h[u] = f[u] + d /\ \A v \in NUTZER \ {u} : h[v] = f[v]
  OBVIOUS
<1>3. EINGELEGT = SumFunctionOnSet(f, NUTZER) /\ EINGELEGT' = SumFunctionOnSet(h, NUTZER)
  BY DEF EINGELEGT
<1> HIDE DEF f, h
<1>4. IsFiniteSet(NUTZER)
  BY BestandAnnahme
<1>5. SumFunctionOnSet(h, NUTZER) = SumFunctionOnSet(f, NUTZER) - f[u] + h[u]
  BY <1>1, <1>2, <1>4, SummeGeaendert
<1>6. SumFunctionOnSet(f, NUTZER) \in Int
  BY <1>1, <1>4, SummeInt
<1> QED BY <1>1, <1>2, <1>3, <1>5, <1>6

(* The total and the sum of the positions change by the same amount.  A    *)
(* second initialize would clear the total and leave the positions; before *)
(* the first nothing is staked.                                            *)
LEMMA EinlagenSchritt ==
    ASSUME TypInv, BestandInv, EINGELEGT = config.total_staked, Schritt
    PROVE  EINGELEGT' = config'.total_staked
<1>0. TypInv' /\ config.total_staked \in Int /\ \A u \in NUTZER : positionen[u].amount \in Int
  BY TypSchritt DEF TypInv, CfgTyp, PosTyp
<1>1. ASSUME NEW u \in NUTZER, NEW k \in KONTO, NEW q \in BETRAEGE, Stake(u, k, q)
      PROVE  EINGELEGT' = config'.total_staked
  <2>1. q \in Int
    BY Mengen
  <2>2. /\ positionen'[u].amount = positionen[u].amount + q
        /\ \A v \in NUTZER : v # u => positionen'[v] = positionen[v]
    BY <1>1 DEF Stake, TypInv
  <2>3. config'.total_staked = config.total_staked + q
    BY <1>1 DEF Stake, NeueSumme, TypInv, CfgTyp
  <2>4. EINGELEGT' = EINGELEGT + q
    BY <1>0, <2>1, <2>2, EingelegtSchritt
  <2> QED BY <2>3, <2>4
<1>2. ASSUME NEW u \in NUTZER, NEW k \in KONTO, NEW q \in BETRAEGE, Ausgezahlt(u, k, q)
      PROVE  EINGELEGT' = config'.total_staked
  <2> DEFINE d == 0 - q
  <2>1. q \in Int /\ d \in Int
    BY Mengen
  <2>2. positionen'[u].amount = positionen[u].amount - q
    BY <1>2 DEF Ausgezahlt, TypInv, PosTyp
  <2>3. positionen'[u].amount = positionen[u].amount + d
    BY <1>0, <2>1, <2>2
  <2>4. \A v \in NUTZER : v # u => positionen'[v] = positionen[v]
    BY <1>2 DEF Ausgezahlt, TypInv
  <2>5. config'.total_staked = config.total_staked - q
    BY <1>2 DEF Ausgezahlt, TypInv, CfgTyp
  <2> HIDE DEF d
  <2>6. EINGELEGT' = EINGELEGT + d
    BY <1>0, <2>1, <2>3, <2>4, EingelegtSchritt
  <2> QED BY <1>0, <2>1, <2>5, <2>6 DEF d
<1>3. ASSUME positionen' = positionen PROVE EINGELEGT' = EINGELEGT
  BY <1>3 DEF EINGELEGT
<1>4. ASSUME NEW u, NEW i, NEW kb, NEW ks, BuyCredit(u, i, kb, ks) \/ Ueberweisen(u, kb, ks)
      PROVE  positionen' = positionen /\ config' = config
  BY <1>4 DEF BuyCredit, Ueberweisen
<1>5. ASSUME positionen' = positionen, config'.total_staked \in {config.total_staked, 0},
             config'.total_staked = config.total_staked \/ ~initialisiert
      PROVE  EINGELEGT' = config'.total_staked
  BY <1>3, <1>5 DEF BestandInv
<1> QED BY <1>1, <1>2, <1>3, <1>4, <1>5, RahmenStake

(* The total in the config is the sum of all positions, always: no         *)
(* sequence of instructions, in whatever order the users send them, lets   *)
(* the two u64 drift apart.                                                *)
THEOREM EinlagenSummeImmer == Spec => []EinlagenSumme
<1>1. Init => EINGELEGT = config.total_staked
  <2> SUFFICES ASSUME Init PROVE EINGELEGT = config.total_staked
    OBVIOUS
  <2> DEFINE f == [u \in NUTZER |-> positionen[u].amount]
  <2>1. \A u \in NUTZER : f[u] = 0
    BY DEF Init
  <2>2. EINGELEGT = SumFunctionOnSet(f, NUTZER)
    BY DEF EINGELEGT
  <2> HIDE DEF f
  <2>3. SumFunctionOnSet(f, NUTZER) = 0
    BY <2>1, SummeNull, BestandAnnahme
  <2>4. config.total_staked = 0
    BY DEF Init
  <2> QED BY <2>2, <2>3, <2>4
<1>2. TypInv /\ BestandInv /\ EINGELEGT = config.total_staked /\ [Next]_vars
        => (EINGELEGT = config.total_staked)'
  BY Faelle, EinlagenSchritt
<1>3. EINGELEGT = config.total_staked => EinlagenSumme
  BY DEF EINGELEGT, EinlagenSumme, SumFunction
<1> QED BY Typen, Bestand, <1>1, <1>2, <1>3, PTL DEF Spec
-----------------------------------------------------------------------------
(* The lock of a position that exists runs from the last payment into it.  *)
EingezahltInv ==
    \A u \in NUTZER : positionen[u].angelegt => positionen[u].locked_until = eingezahlt[u] + SPERRE

LEMMA EingezahltSchritt ==
    ASSUME TypInv, FristInv, EingezahltInv, [MCNext]_<<vars, eingezahlt>>
    PROVE  EingezahltInv'
<1>1. CASE UNCHANGED <<vars, eingezahlt>>
  BY <1>1 DEF EingezahltInv, vars, konten
<1>2. CASE MCNext
  <2>1. \A u \in NUTZER : PositionHaelt(u)
    BY <1>2, Faelle, SperreSchritt DEF MCNext
  <2>2. eingezahlt' = [u \in NUTZER |->
                         IF positionen'[u].amount > positionen[u].amount THEN uhr ELSE eingezahlt[u]]
    BY <1>2 DEF MCNext
  <2>3. ASSUME NEW u \in NUTZER, positionen'[u].angelegt
        PROVE  positionen'[u].locked_until = eingezahlt'[u] + SPERRE
    <3>1. CASE positionen'[u].amount > positionen[u].amount
      <4>1. positionen'[u].locked_until = uhr + SPERRE
        BY <2>1, <3>1 DEF PositionHaelt
      <4> QED BY <2>2, <3>1, <4>1
    <3>2. CASE ~(positionen'[u].amount > positionen[u].amount)
      <4>1. /\ positionen'[u].locked_until = positionen[u].locked_until
            /\ positionen'[u].angelegt = positionen[u].angelegt
        BY <2>1, <3>2 DEF PositionHaelt
      <4> QED BY <2>2, <2>3, <3>2, <4>1 DEF EingezahltInv
    <3> QED BY <3>1, <3>2
  <2> QED BY <2>3 DEF EingezahltInv
<1> QED BY <1>1, <1>2

(* Steps with history are steps of the program.                            *)
LEMMA MitEinzahlungen == MCSpec => Spec
<1>1. MCInit => Init
  BY DEF MCInit
<1>2. [MCNext]_<<vars, eingezahlt>> => [Next]_vars
  BY DEF MCNext
<1> QED BY <1>1, <1>2, PTL DEF MCSpec, Spec

(* unstake() turns a withdrawal away as locked exactly until a full period *)
(* has passed since the last payment into the position, in every state     *)
(* that any instructions can bring about.                                  *)
THEOREM FristImmerGenau == MCSpec => []FristGenau
<1>1. MCInit => EingezahltInv
  BY DEF MCInit, Init, EingezahltInv
<1>2. AllesInv /\ EingezahltInv /\ [MCNext]_<<vars, eingezahlt>> => EingezahltInv'
  BY EingezahltSchritt DEF AllesInv
<1>3. AllesInv /\ EingezahltInv => FristGenau
  <2> SUFFICES ASSUME AllesInv, EingezahltInv, NEW u \in NUTZER, NEW k \in KONTO, NEW q \in BETRAEGE
               PROVE  /\ UnstakeFehler(u, k, q) = "StillLocked" => uhr < eingezahlt[u] + SPERRE
                      /\ UnstakeFehler(u, k, q) \in NACH_DER_FRIST => uhr >= eingezahlt[u] + SPERRE
    BY DEF FristGenau
  <2>1. uhr \in Int /\ positionen[u].locked_until \in Int
    BY DEF AllesInv, TypInv, PosTyp, UhrInv
  <2>2. KontoFehler(k, u) \in {"WrongMint", "WrongOwner", OK}
    BY DEF KontoFehler
  <2>3. UnstakeFehler(u, k, q) = "StillLocked" =>
           positionen[u].angelegt /\ uhr < positionen[u].locked_until
    BY <2>2 DEF UnstakeFehler, TransferFehler, OK
  <2>4. UnstakeFehler(u, k, q) \in NACH_DER_FRIST =>
           positionen[u].angelegt /\ ~(uhr < positionen[u].locked_until)
    BY <2>2 DEF UnstakeFehler, NACH_DER_FRIST, OK
  <2> QED BY <2>1, <2>3, <2>4 DEF EingezahltInv
<1> QED BY MitEinzahlungen, AllesImmer, <1>1, <1>2, <1>3, PTL DEF MCSpec
=============================================================================
