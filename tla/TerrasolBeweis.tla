--------------------------- MODULE TerrasolBeweis ---------------------------
(***************************************************************************)
(* Proofs about the on-chain program, for any users, any supply, any       *)
(* amounts, prices and thresholds.  They do not use what UNTERSCHRIFT is,  *)
(* so they also cover a program whose unstake signs with the seeds of the  *)
(* vault's owner and pays out.                                             *)
(***************************************************************************)
EXTENDS Terrasol, FiniteSetTheorems, TLAPS

(* A withdrawal that succeeds.                                             *)
Ausgezahlt(u, k, q) ==
    /\ UnstakeFehler(u, k, q) = OK
    /\ tokens' = Ueberwiesen(CONFIG, k.owner, q)
    /\ positionen' = [positionen EXCEPT ![u].amount = positionen[u].amount - q]
    /\ config' = [config EXCEPT !.total_staked = @ - q]
    /\ signer' = u
    /\ UNCHANGED <<initialisiert, impacts, listings, uhr>>

(* Steps that change no account: a failing instruction, or time passing.   *)
Folgenlos ==
    /\ UNCHANGED konten
    /\ uhr' \in {uhr, uhr + 1} /\ (uhr' # uhr => uhr < MAX_ZEIT)
    /\ signer' \in {signer, DEFAULT}

(* What a step can be.                                                     *)
Schritt ==
    \/ \E u \in NUTZER, k \in KONTO, q \in BETRAEGE : Stake(u, k, q) \/ Ausgezahlt(u, k, q)
    \/ \E u, s \in NUTZER, n \in Nat, c \in Nat, b \in BOOLEAN : RegisterImpact(u, s, n, c, b)
    \/ \E u \in NUTZER, x, y \in KEY, th \in SCHWELLEN : Initialize(u, x, y, th)
    \/ \E u \in NUTZER, x \in KEY : SetOracle(u, x) \/ SetGovernance(u, x)
    \/ \E u \in NUTZER, th \in SCHWELLEN : SetThresholds(u, th)
    \/ \E u \in NUTZER, b \in BOOLEAN : SetPaused(u, b)
    \/ \E u \in NUTZER, i \in IMPACT, p \in PREISE : ListCredit(u, i, p)
    \/ \E u \in NUTZER, i \in IMPACT : CancelListing(u, i)
    \/ \E u \in NUTZER, i \in DOMAIN listings, kb, ks \in KONTO : BuyCredit(u, i, kb, ks)
    \/ \E u \in NUTZER, v \in NUTZER \cup {CONFIG}, q \in BETRAEGE : Ueberweisen(u, v, q)
    \/ Folgenlos

(* Every step of the specification is one of these.                        *)
LEMMA Faelle == ASSUME [Next]_vars PROVE Schritt
<1>0. ASSUME NEW f, Gescheitert(f) PROVE Folgenlos
  BY <1>0 DEF Gescheitert, Folgenlos
<1>1. CASE Staking
  <2>1. PICK u \in NUTZER, k \in KONTO, q \in BETRAEGE :
           \/ Stake(u, k, q)
           \/ Gescheitert(StakeFehler(u, k, q))
           \/ Unstake(u, k, q)
    BY <1>1 DEF Staking
  <2>2. CASE Stake(u, k, q)
    BY <2>2 DEF Schritt
  <2>3. CASE Gescheitert(StakeFehler(u, k, q))
    BY <2>3, <1>0 DEF Schritt
  <2>4. CASE Unstake(u, k, q)
    <3>1. CASE UnstakeFehler(u, k, q) = OK
      <4>1. Ausgezahlt(u, k, q)
        BY <2>4, <3>1 DEF Unstake, Ausgezahlt, Ausgefuehrt
      <4> QED BY <4>1 DEF Schritt
    <3>2. CASE UnstakeFehler(u, k, q) # OK
      <4>1. Gescheitert(UnstakeFehler(u, k, q))
        BY <2>4, <3>2 DEF Unstake
      <4> QED BY <4>1, <1>0 DEF Schritt
    <3> QED BY <3>1, <3>2
  <2> QED BY <2>1, <2>2, <2>3, <2>4
<1>2. CASE Anrechnung
  <2>1. PICK u \in NUTZER, s \in NUTZER, n \in 0 .. MAX_IMPACTS, c \in {0, 1},
             b \in BOOLEAN :
           \/ RegisterImpact(u, s, n, c, b)
           \/ Gescheitert(RegisterImpactFehler(u, s, n, c, b))
    BY <1>2 DEF Anrechnung
  <2>2. CASE RegisterImpact(u, s, n, c, b)
    <3>1. n \in Nat /\ c \in Nat
      BY GrenzenAnnahme
    <3> QED BY <2>2, <3>1 DEF Schritt
  <2>3. CASE Gescheitert(RegisterImpactFehler(u, s, n, c, b))
    BY <2>3, <1>0 DEF Schritt
  <2> QED BY <2>1, <2>2, <2>3
<1>3. CASE Governance
  BY <1>3, <1>0 DEF Governance, Schritt
<1>4. CASE Markt
  BY <1>4, <1>0 DEF Markt, Schritt
<1>5. CASE Umwelt
  BY <1>5, GrenzenAnnahme DEF Umwelt, Ticken, Schritt, Folgenlos
<1>6. CASE UNCHANGED vars
  BY <1>6 DEF vars, konten, Schritt, Folgenlos
<1> QED BY <1>1, <1>2, <1>3, <1>4, <1>5, <1>6 DEF Next
-----------------------------------------------------------------------------
(* The types the proofs need.  Balances are naturals: no transfer takes    *)
(* more than there is.                                                     *)
CfgTyp   == [governance : KEY, oracle : KEY, tier_thresholds : [1 .. 4 -> MENGE],
             total_staked : Nat, impact_count : Nat, paused : BOOLEAN]
PosTyp   == [angelegt : BOOLEAN, amount : Nat, locked_until : Nat]

TypInv ==
    /\ initialisiert \in BOOLEAN
    /\ config \in CfgTyp
    /\ positionen \in [NUTZER -> PosTyp]
    /\ tokens \in [NUTZER \cup {CONFIG} -> Nat]
    /\ uhr \in Nat
    /\ \A i \in DOMAIN listings : listings[i].seller \in NUTZER /\ listings[i].price \in Nat

(* Amounts, prices and thresholds are naturals.                            *)
LEMMA Mengen ==
    /\ BETRAEGE \subseteq Nat /\ PREISE \subseteq Nat /\ MENGE \subseteq Nat
    /\ SCHWELLEN \subseteq [1 .. 4 -> MENGE]
    /\ NUTZER \subseteq KEY /\ CONFIG \notin NUTZER /\ DEFAULT \notin NUTZER
BY NutzerAnnahme, U64Annahme, BetraegeAnnahme, SchwellenAnnahme DEF MENGE, KEY, CONFIG

(* A transfer that passes the checks leaves no balance negative, and only  *)
(* the source loses.                                                       *)
LEMMA Transfer ==
    ASSUME tokens \in [NUTZER \cup {CONFIG} -> Nat],
           NEW von \in NUTZER \cup {CONFIG}, NEW nach \in NUTZER \cup {CONFIG}, NEW q \in Nat,
           NEW a, NEW S, TransferFehler(von, a, S, q) = OK
    PROVE  /\ tokens[von] >= q
           /\ Ueberwiesen(von, nach, q) \in [NUTZER \cup {CONFIG} -> Nat]
           /\ \A k \in NUTZER \cup {CONFIG} :
                 /\ Ueberwiesen(von, nach, q)[k] =
                      tokens[k] + (IF k = nach THEN q ELSE 0) - (IF k = von THEN q ELSE 0)
                 /\ k # von => Ueberwiesen(von, nach, q)[k] >= tokens[k]
<1>1. tokens[von] >= q
  <2>1. ~(tokens[von] < q)
    BY DEF TransferFehler, OK
  <2> QED BY <2>1
<1>2. ASSUME NEW k \in NUTZER \cup {CONFIG}
      PROVE  /\ Ueberwiesen(von, nach, q)[k] =
                  tokens[k] + (IF k = nach THEN q ELSE 0) - (IF k = von THEN q ELSE 0)
             /\ Ueberwiesen(von, nach, q)[k] \in Nat
             /\ k # von => Ueberwiesen(von, nach, q)[k] >= tokens[k]
  <2>1. Ueberwiesen(von, nach, q)[k] =
           tokens[k] + (IF k = nach THEN q ELSE 0) - (IF k = von THEN q ELSE 0)
    BY DEF Ueberwiesen
  <2>2. tokens[k] \in Nat
    OBVIOUS
  <2> QED BY <1>1, <2>1, <2>2
<1>3. Ueberwiesen(von, nach, q) = [k \in NUTZER \cup {CONFIG} |-> Ueberwiesen(von, nach, q)[k]]
  BY DEF Ueberwiesen
<1> QED BY <1>1, <1>2, <1>3

(* An account whose mint and owner were checked is the user's own.         *)
LEMMA EigenesKonto ==
    ASSUME NEW k, NEW wer, KontoFehler(k, wer) = OK
    PROVE  k.owner = wer
BY DEF KontoFehler, OK

(* The initial state is well typed.                                        *)
LEMMA TypInit == Init => TypInv
<1> SUFFICES ASSUME Init PROVE TypInv
  OBVIOUS
<1>1. initialisiert \in BOOLEAN /\ uhr \in Nat
  BY DEF Init
<1>2. config \in CfgTyp
  <2>1. 0 \in MENGE
    BY U64Annahme DEF MENGE
  <2> QED BY <2>1 DEF Init, CfgTyp, KEY
<1>3. positionen \in [NUTZER -> PosTyp]
  BY DEF Init, PosTyp
<1>4. tokens \in [NUTZER \cup {CONFIG} -> Nat]
  BY BestandAnnahme DEF Init
<1>5. DOMAIN listings = {}
  BY DEF Init
<1> QED BY <1>1, <1>2, <1>3, <1>4, <1>5 DEF TypInv

(* Every step keeps the types.                                             *)
LEMMA TypSchritt == ASSUME TypInv, Schritt PROVE TypInv'
<1> USE Mengen DEF TypInv
<1>1. ASSUME NEW u \in NUTZER, NEW k \in KONTO, NEW q \in BETRAEGE, Stake(u, k, q)
      PROVE  TypInv'
  <2>1. k.owner = u /\ TransferFehler(k.owner, u, {u}, q) = OK
    BY <1>1, EigenesKonto DEF Stake, StakeFehler, OK
  <2>2. tokens' \in [NUTZER \cup {CONFIG} -> Nat]
    BY <1>1, <2>1, Transfer DEF Stake
  <2>3. positionen' \in [NUTZER -> PosTyp]
    <3>1. [angelegt |-> TRUE, amount |-> positionen[u].amount + q, locked_until |-> uhr + SPERRE]
             \in PosTyp
      BY SperreAnnahme DEF PosTyp
    <3> QED BY <1>1, <3>1 DEF Stake, SperreBis
  <2>4. config' \in CfgTyp
    <3>1. config.total_staked + q \in Nat
      BY DEF CfgTyp
    <3> QED BY <1>1, <3>1 DEF Stake, NeueSumme, CfgTyp
  <2> QED BY <1>1, <2>2, <2>3, <2>4 DEF Stake, Ausgefuehrt
<1>2. ASSUME NEW u \in NUTZER, NEW k \in KONTO, NEW q \in BETRAEGE, Ausgezahlt(u, k, q)
      PROVE  TypInv'
  <2>1. k.owner = u
    BY <1>2, EigenesKonto DEF Ausgezahlt, UnstakeFehler, OK
  <2>2. TransferFehler(CONFIG, CONFIG, {u, UNTERSCHRIFT}, q) = OK
    BY <1>2 DEF Ausgezahlt, UnstakeFehler, OK
  <2>3. positionen[u].amount >= q /\ config.total_staked >= q
    BY <1>2 DEF Ausgezahlt, UnstakeFehler, OK, CfgTyp, PosTyp
  <2>4. tokens' \in [NUTZER \cup {CONFIG} -> Nat]
    BY <1>2, <2>1, <2>2, Transfer DEF Ausgezahlt
  <2>5. positionen' \in [NUTZER -> PosTyp]
    <3>1. [positionen[u] EXCEPT !.amount = positionen[u].amount - q] \in PosTyp
      BY <2>3 DEF PosTyp
    <3> QED BY <1>2, <3>1 DEF Ausgezahlt
  <2>6. config' \in CfgTyp
    <3>1. config.total_staked - q \in Nat
      BY <2>3 DEF CfgTyp
    <3> QED BY <1>2, <3>1 DEF Ausgezahlt, CfgTyp
  <2> QED BY <1>2, <2>4, <2>5, <2>6 DEF Ausgezahlt
<1>3. ASSUME NEW u \in NUTZER, NEW s \in NUTZER, NEW n \in Nat, NEW c \in Nat,
             NEW b \in BOOLEAN, RegisterImpact(u, s, n, c, b)
      PROVE  TypInv'
  <2>1. config' \in CfgTyp
    BY <1>3 DEF RegisterImpact, CfgTyp
  <2> QED BY <1>3, <2>1 DEF RegisterImpact, Ausgefuehrt
<1>4. ASSUME NEW u \in NUTZER, NEW x \in KEY, NEW y \in KEY, NEW th \in SCHWELLEN,
             Initialize(u, x, y, th)
      PROVE  TypInv'
  <2>1. config' \in CfgTyp
    BY <1>4 DEF Initialize, CfgTyp
  <2> QED BY <1>4, <2>1 DEF Initialize, Ausgefuehrt
<1>5. ASSUME NEW u \in NUTZER, NEW x \in KEY, SetOracle(u, x) \/ SetGovernance(u, x)
      PROVE  TypInv'
  <2>1. config' \in CfgTyp
    BY <1>5 DEF SetOracle, SetGovernance, CfgTyp
  <2> QED BY <1>5, <2>1 DEF SetOracle, SetGovernance, Ausgefuehrt
<1>6. ASSUME NEW u \in NUTZER, NEW th \in SCHWELLEN, SetThresholds(u, th)
      PROVE  TypInv'
  <2>1. config' \in CfgTyp
    BY <1>6 DEF SetThresholds, CfgTyp
  <2> QED BY <1>6, <2>1 DEF SetThresholds, Ausgefuehrt
<1>7. ASSUME NEW u \in NUTZER, NEW b \in BOOLEAN, SetPaused(u, b)
      PROVE  TypInv'
  <2>1. config' \in CfgTyp
    BY <1>7 DEF SetPaused, CfgTyp
  <2> QED BY <1>7, <2>1 DEF SetPaused, Ausgefuehrt
<1>8. ASSUME NEW u \in NUTZER, NEW i \in IMPACT, NEW p \in PREISE, ListCredit(u, i, p)
      PROVE  TypInv'
  <2>1. \A j \in DOMAIN listings' :
           listings'[j].seller \in NUTZER /\ listings'[j].price \in Nat
    BY <1>8 DEF ListCredit, Anlegen
  <2> QED BY <1>8, <2>1 DEF ListCredit, Ausgefuehrt
<1>9. ASSUME NEW u \in NUTZER, NEW i \in IMPACT, CancelListing(u, i)
      PROVE  TypInv'
  <2>1. \A j \in DOMAIN listings' :
           listings'[j].seller \in NUTZER /\ listings'[j].price \in Nat
    BY <1>9 DEF CancelListing, Schliessen
  <2> QED BY <1>9, <2>1 DEF CancelListing, Ausgefuehrt
<1>10. ASSUME NEW u \in NUTZER, NEW i \in DOMAIN listings, NEW kb \in KONTO, NEW ks \in KONTO,
              BuyCredit(u, i, kb, ks)
       PROVE  TypInv'
  <2>1. kb.owner = u /\ ks.owner = listings[i].seller
    BY <1>10, EigenesKonto DEF BuyCredit, BuyCreditFehler, OK
  <2>2. TransferFehler(kb.owner, u, {u}, listings[i].price) = OK
    BY <1>10 DEF BuyCredit, BuyCreditFehler, OK
  <2>3. tokens' \in [NUTZER \cup {CONFIG} -> Nat]
    BY <1>10, <2>1, <2>2, Transfer DEF BuyCredit
  <2>4. \A j \in DOMAIN listings' :
           listings'[j].seller \in NUTZER /\ listings'[j].price \in Nat
    BY <1>10 DEF BuyCredit
  <2> QED BY <1>10, <2>3, <2>4 DEF BuyCredit, Ausgefuehrt
<1>11. ASSUME NEW u \in NUTZER, NEW v \in NUTZER \cup {CONFIG}, NEW q \in BETRAEGE,
              Ueberweisen(u, v, q)
       PROVE  TypInv'
  <2>1. tokens' \in [NUTZER \cup {CONFIG} -> Nat]
    BY <1>11, Transfer DEF Ueberweisen
  <2> QED BY <1>11, <2>1 DEF Ueberweisen, Ausgefuehrt
<1>12. ASSUME Folgenlos PROVE TypInv'
  BY <1>12 DEF Folgenlos, konten
<1> HIDE Mengen DEF TypInv
<1> QED BY <1>1, <1>2, <1>3, <1>4, <1>5, <1>6, <1>7, <1>8, <1>9, <1>10, <1>11, <1>12
        DEF Schritt
-----------------------------------------------------------------------------
(* Which steps touch what: the balances, the total and the positions.      *)
LEMMA RahmenStake ==
    ASSUME TypInv, Schritt
    PROVE  \/ \E u \in NUTZER, k \in KONTO, q \in BETRAEGE : Stake(u, k, q) \/ Ausgezahlt(u, k, q)
           \/ \E u \in NUTZER, i \in DOMAIN listings, kb, ks \in KONTO : BuyCredit(u, i, kb, ks)
           \/ \E u \in NUTZER, v \in NUTZER \cup {CONFIG}, q \in BETRAEGE : Ueberweisen(u, v, q)
           \/ /\ UNCHANGED <<positionen, tokens>> /\ uhr' \in {uhr, uhr + 1}
              /\ config'.total_staked \in {config.total_staked, 0}
              /\ \/ UNCHANGED initialisiert /\ config'.total_staked = config.total_staked
                 \/ ~initialisiert
<1> USE DEF TypInv, CfgTyp
<1>1. ASSUME NEW u, NEW s, NEW n, NEW c, NEW b, RegisterImpact(u, s, n, c, b)
      PROVE  UNCHANGED <<positionen, tokens, uhr, initialisiert>>
             /\ config'.total_staked = config.total_staked
  BY <1>1 DEF RegisterImpact, Ausgefuehrt
<1>2. ASSUME NEW u, NEW x, NEW y, NEW th, Initialize(u, x, y, th)
      PROVE  UNCHANGED <<positionen, tokens, uhr>> /\ config'.total_staked = 0
             /\ ~initialisiert
  BY <1>2 DEF Initialize, InitializeFehler, OK, Ausgefuehrt
<1>3. ASSUME NEW u, NEW x, SetOracle(u, x) \/ SetGovernance(u, x) \/ SetThresholds(u, x)
                           \/ SetPaused(u, x)
      PROVE  UNCHANGED <<positionen, tokens, uhr, initialisiert>>
             /\ config'.total_staked = config.total_staked
  BY <1>3 DEF SetOracle, SetGovernance, SetThresholds, SetPaused, Ausgefuehrt
<1>4. ASSUME NEW u, NEW i, NEW p, ListCredit(u, i, p) \/ CancelListing(u, i)
      PROVE  UNCHANGED <<positionen, tokens, uhr, initialisiert>>
             /\ config'.total_staked = config.total_staked
  BY <1>4 DEF ListCredit, CancelListing, Ausgefuehrt
<1>5. ASSUME Folgenlos
      PROVE  /\ UNCHANGED <<positionen, tokens, initialisiert>> /\ uhr' \in {uhr, uhr + 1}
             /\ config'.total_staked = config.total_staked
  BY <1>5 DEF Folgenlos, konten
<1> HIDE DEF TypInv, CfgTyp
<1> QED BY <1>1, <1>2, <1>3, <1>4, <1>5 DEF Schritt

(* The vault covers all stakes after every step, if it did before.         *)
LEMMA TresorSchritt == ASSUME TypInv, Schritt, TresorGedeckt PROVE TresorGedeckt'
<1> USE Mengen DEF TypInv
<1> DEFINE K == NUTZER \cup {CONFIG}
<1>0. config.total_staked \in Nat
  BY DEF CfgTyp
<1>1. ASSUME NEW u \in NUTZER, NEW k \in KONTO, NEW q \in BETRAEGE, Stake(u, k, q)
      PROVE  TresorGedeckt'
  <2>1. k.owner = u /\ TransferFehler(k.owner, u, {u}, q) = OK
    BY <1>1, EigenesKonto DEF Stake, StakeFehler, OK
  <2>2. tokens'[CONFIG] = tokens[CONFIG] + q
    BY <1>1, <2>1 DEF Stake, Ueberwiesen
  <2>3. config'.total_staked = config.total_staked + q
    BY <1>1 DEF Stake, NeueSumme, CfgTyp
  <2>4. tokens[CONFIG] \in Nat /\ q \in Nat
    OBVIOUS
  <2> HIDE Mengen DEF TypInv
  <2> QED BY <1>0, <2>2, <2>3, <2>4 DEF TresorGedeckt
<1>2. ASSUME NEW u \in NUTZER, NEW k \in KONTO, NEW q \in BETRAEGE, Ausgezahlt(u, k, q)
      PROVE  TresorGedeckt'
  <2>1. k.owner = u
    BY <1>2, EigenesKonto DEF Ausgezahlt, UnstakeFehler, OK
  <2>2. tokens'[CONFIG] = tokens[CONFIG] - q
    BY <1>2, <2>1 DEF Ausgezahlt, Ueberwiesen
  <2>3. config'.total_staked = config.total_staked - q
    BY <1>2 DEF Ausgezahlt, CfgTyp
  <2> QED BY <1>0, <2>2, <2>3 DEF TresorGedeckt
<1>3. ASSUME NEW u \in NUTZER, NEW i \in DOMAIN listings, NEW kb \in KONTO, NEW ks \in KONTO,
             BuyCredit(u, i, kb, ks)
      PROVE  TresorGedeckt'
  <2>1. kb.owner = u /\ ks.owner = listings[i].seller
    BY <1>3, EigenesKonto DEF BuyCredit, BuyCreditFehler, OK
  <2>2. tokens'[CONFIG] = tokens[CONFIG]
    BY <1>3, <2>1 DEF BuyCredit, Ueberwiesen
  <2> QED BY <1>3, <2>2 DEF TresorGedeckt, BuyCredit
<1>4. ASSUME NEW u \in NUTZER, NEW v \in NUTZER \cup {CONFIG}, NEW q \in BETRAEGE,
             Ueberweisen(u, v, q)
      PROVE  TresorGedeckt'
  <2>1. /\ tokens'[CONFIG] >= tokens[CONFIG]
        /\ tokens'[CONFIG] \in Nat /\ tokens[CONFIG] \in Nat
    <3>1. u # CONFIG /\ TransferFehler(u, u, {u}, q) = OK
      BY <1>4 DEF Ueberweisen
    <3>2. q \in Nat /\ u \in NUTZER \cup {CONFIG} /\ tokens' = Ueberwiesen(u, v, q)
      BY <1>4 DEF Ueberweisen
    <3>3. /\ Ueberwiesen(u, v, q) \in [NUTZER \cup {CONFIG} -> Nat]
          /\ Ueberwiesen(u, v, q)[CONFIG] >= tokens[CONFIG]
      BY <3>1, <3>2, Transfer
    <3>4. tokens \in [NUTZER \cup {CONFIG} -> Nat]
      OBVIOUS
    <3> HIDE DEF TypInv
    <3> QED BY <3>2, <3>3, <3>4
  <2>2. config' = config
    BY <1>4 DEF Ueberweisen
  <2> QED BY <1>0, <2>1, <2>2 DEF TresorGedeckt
<1>5. ASSUME UNCHANGED tokens, config'.total_staked \in {config.total_staked, 0}
      PROVE  TresorGedeckt'
  BY <1>5, <1>0 DEF TresorGedeckt
<1> HIDE Mengen DEF TypInv
<1> QED BY <1>1, <1>2, <1>3, <1>4, <1>5, RahmenStake

(* The types and the covered vault together are inductive.                 *)
LEMMA Typen == Spec => []TypInv
<1>1. TypInv /\ [Next]_vars => TypInv'
  BY Faelle, TypSchritt
<1> QED BY TypInit, <1>1, PTL DEF Spec

(* The vault always holds what stakers have put in: for any users and      *)
(* amounts, whatever is moved into it from outside, and also in a program  *)
(* whose unstake pays out.                                                 *)
THEOREM TresorImmerGedeckt == Spec => []TresorGedeckt
<1>1. Init => TresorGedeckt
  BY NutzerAnnahme DEF Init, TresorGedeckt, CONFIG
<1>2. TypInv /\ TresorGedeckt /\ [Next]_vars => TresorGedeckt'
  BY Faelle, TresorSchritt
<1> QED BY Typen, <1>1, <1>2, PTL DEF Spec
-----------------------------------------------------------------------------
(* Which steps touch the impact records, their count and the thresholds.   *)
LEMMA RahmenImpact ==
    ASSUME TypInv, Schritt
    PROVE  \/ \E u, s \in NUTZER, n \in Nat, c \in Nat, b \in BOOLEAN : RegisterImpact(u, s, n, c, b)
           \/ \E u \in NUTZER, x, y \in KEY, th \in SCHWELLEN : Initialize(u, x, y, th)
           \/ /\ UNCHANGED <<impacts, initialisiert>> /\ config'.impact_count = config.impact_count
              /\ \/ config'.tier_thresholds = config.tier_thresholds
                 \/ \E u \in NUTZER, th \in SCHWELLEN : SetThresholds(u, th)
<1> DEFINE R == /\ UNCHANGED <<impacts, initialisiert>>
                /\ config'.impact_count = config.impact_count
                /\ config'.tier_thresholds = config.tier_thresholds
<1> USE DEF TypInv, CfgTyp
<1>1. ASSUME NEW u, NEW k, NEW q, Stake(u, k, q) \/ Ausgezahlt(u, k, q) PROVE R
  BY <1>1 DEF Stake, Ausgezahlt
<1>2. ASSUME NEW u, NEW x, SetOracle(u, x) \/ SetGovernance(u, x) \/ SetPaused(u, x) PROVE R
  BY <1>2 DEF SetOracle, SetGovernance, SetPaused
<1>3. ASSUME NEW u, NEW th, SetThresholds(u, th)
      PROVE  UNCHANGED <<impacts, initialisiert>> /\ config'.impact_count = config.impact_count
  BY <1>3 DEF SetThresholds
<1>4. ASSUME NEW u, NEW i, NEW p, ListCredit(u, i, p) \/ CancelListing(u, i) PROVE R
  BY <1>4 DEF ListCredit, CancelListing
<1>5. ASSUME NEW u, NEW i, NEW kb, NEW ks,
             BuyCredit(u, i, kb, ks) \/ Ueberweisen(u, i, kb)
      PROVE  R
  BY <1>5 DEF BuyCredit, Ueberweisen
<1>6. ASSUME Folgenlos PROVE R
  BY <1>6 DEF Folgenlos, konten
<1> HIDE DEF TypInv, CfgTyp
<1> QED BY <1>1, <1>2, <1>3, <1>4, <1>5, <1>6 DEF Schritt

(* What the sequence of records needs to be inductive: the indices are     *)
(* naturals, and before the config there is no record.                     *)
KetteInv ==
    /\ ~initialisiert => DOMAIN impacts = {} /\ config.impact_count = 0
    /\ \A i \in DOMAIN impacts : i \in NUTZER \X Nat
    /\ ImpactKette

(* A new record continues the sequence; nothing else touches it.           *)
LEMMA KetteSchritt == ASSUME TypInv, Schritt, KetteInv PROVE KetteInv'
<1>0. config.impact_count \in Nat
  BY DEF TypInv, CfgTyp
<1>1. ASSUME NEW u \in NUTZER, NEW s \in NUTZER, NEW n \in Nat, NEW c \in Nat, NEW b \in BOOLEAN,
             RegisterImpact(u, s, n, c, b)
      PROVE  KetteInv'
  <2> DEFINE x == <<s, n>>
  <2>1. initialisiert /\ n = config.impact_count
    BY <1>1 DEF RegisterImpact, RegisterImpactFehler, OK
  <2>2. /\ DOMAIN impacts' = DOMAIN impacts \cup {x}
        /\ impacts'[x].subject = s /\ impacts'[x].index = n
        /\ \A y \in DOMAIN impacts : y # x => impacts'[y] = impacts[y]
    BY <1>1, <2>1 DEF RegisterImpact, Anlegen
  <2>3. config'.impact_count = n + 1 /\ initialisiert'
    BY <1>1, <2>1 DEF RegisterImpact, TypInv, CfgTyp
  <2>4. \A y \in DOMAIN impacts : y \in NUTZER \X Nat /\ y[2] < n /\ y # x
    BY <2>1, <1>0 DEF KetteInv, ImpactKette
  <2>5. \A y \in DOMAIN impacts' : /\ y \in NUTZER \X Nat /\ y[2] < n + 1
                                   /\ impacts'[y].subject = y[1] /\ impacts'[y].index = y[2]
    BY <2>2, <2>4 DEF KetteInv, ImpactKette
  <2>6. \A y, z \in DOMAIN impacts' : y[2] = z[2] => y = z
    BY <2>2, <2>4 DEF KetteInv, ImpactKette
  <2>7. ASSUME NEW m \in 0 .. n PROVE \E y \in DOMAIN impacts' : y[2] = m
    <3>1. CASE m = n
      BY <3>1, <2>2
    <3>2. CASE m # n
      <4>1. m \in 0 .. config.impact_count - 1
        BY <3>2, <2>1, <1>0
      <4> QED BY <4>1, <2>2 DEF KetteInv, ImpactKette
    <3> QED BY <3>1, <3>2
  <2>8. 0 .. config'.impact_count - 1 = 0 .. n
    BY <2>3
  <2> QED BY <2>3, <2>5, <2>6, <2>7, <2>8 DEF KetteInv, ImpactKette
<1>2. ASSUME NEW u \in NUTZER, NEW x \in KEY, NEW y \in KEY, NEW th \in SCHWELLEN,
             Initialize(u, x, y, th)
      PROVE  KetteInv'
  <2>1. ~initialisiert
    BY <1>2 DEF Initialize, InitializeFehler, OK
  <2>2. impacts' = impacts /\ initialisiert' /\ config'.impact_count = 0
    BY <1>2 DEF Initialize
  <2> QED BY <2>1, <2>2 DEF KetteInv, ImpactKette
<1>3. ASSUME UNCHANGED <<impacts, initialisiert>>, config'.impact_count = config.impact_count
      PROVE  KetteInv'
  BY <1>3 DEF KetteInv, ImpactKette
<1> QED BY <1>1, <1>2, <1>3, RahmenImpact

(* The oracle's records form one unbroken sequence, whatever addresses     *)
(* clients derive and whoever is the oracle.                               *)
THEOREM KetteUngebrochen == Spec => []ImpactKette
<1>1. Init => KetteInv
  BY DEF Init, KetteInv, ImpactKette
<1>2. TypInv /\ KetteInv /\ [Next]_vars => KetteInv'
  BY Faelle, KetteSchritt
<1>3. KetteInv => ImpactKette
  BY DEF KetteInv
<1> QED BY Typen, <1>1, <1>2, <1>3, PTL DEF Spec

(* No step changes or removes an impact record.                            *)
THEOREM ImpactsBleiben == Spec => ImpactUnveraenderlich
<1>1. TypInv /\ [Next]_vars =>
         \A i \in DOMAIN impacts : i \in DOMAIN impacts' /\ impacts'[i] = impacts[i]
  <2>1. ASSUME NEW u, NEW s, NEW n, NEW c, NEW b, RegisterImpact(u, s, n, c, b),
               NEW i \in DOMAIN impacts
        PROVE  i \in DOMAIN impacts' /\ impacts'[i] = impacts[i]
    <3>1. <<s, n>> \notin DOMAIN impacts
      BY <2>1 DEF RegisterImpact, RegisterImpactFehler, OK
    <3> QED BY <2>1, <3>1 DEF RegisterImpact, Anlegen
  <2>2. ASSUME NEW u, NEW x, NEW y, NEW th, Initialize(u, x, y, th) PROVE impacts' = impacts
    BY <2>2 DEF Initialize
  <2> QED BY <2>1, <2>2, Faelle, RahmenImpact
<1> QED BY Typen, <1>1, PTL DEF Spec, ImpactUnveraenderlich

(* The thresholds in force never decrease from one tier to the next.       *)
SchwellenSteigen ==
    \A i, j \in 1 .. 4 :
        i < j => config.tier_thresholds[i] <= config.tier_thresholds[j]

LEMMA SchwellenImmerSteigend == Spec => []SchwellenSteigen
<1>1. Init => SchwellenSteigen
  BY DEF Init, SchwellenSteigen
<1>2. ASSUME NEW th \in [1 .. 4 -> MENGE], Steigend(th)
      PROVE  \A i, j \in 1 .. 4 : i < j => th[i] <= th[j]
  <2>1. th[1] \in Int /\ th[2] \in Int /\ th[3] \in Int /\ th[4] \in Int
    BY DEF MENGE
  <2>2. th[2] >= th[1] /\ th[3] >= th[2] /\ th[4] >= th[3]
    BY <1>2 DEF Steigend
  <2>3. ASSUME NEW i \in 1 .. 4, NEW j \in 1 .. 4, i < j PROVE th[i] <= th[j]
    <3>1. \/ i = 1 /\ j \in {2, 3, 4}
          \/ i = 2 /\ j \in {3, 4}
          \/ i = 3 /\ j = 4
      BY <2>3
    <3> QED BY <3>1, <2>1, <2>2
  <2> QED BY <2>3
<1>3. TypInv /\ SchwellenSteigen /\ [Next]_vars => SchwellenSteigen'
  <2> SUFFICES ASSUME TypInv, Schritt, SchwellenSteigen PROVE SchwellenSteigen'
    BY Faelle
  <2>1. ASSUME NEW u \in NUTZER, NEW x \in KEY, NEW y \in KEY, NEW th \in SCHWELLEN,
               Initialize(u, x, y, th)
        PROVE  SchwellenSteigen'
    <3>1. Steigend(th) /\ config'.tier_thresholds = th
      BY <2>1 DEF Initialize, InitializeFehler, OK
    <3>2. th \in [1 .. 4 -> MENGE]
      BY Mengen
    <3> QED BY <3>1, <3>2, <1>2 DEF SchwellenSteigen
  <2>2. ASSUME NEW u \in NUTZER, NEW th \in SCHWELLEN, SetThresholds(u, th)
        PROVE  SchwellenSteigen'
    <3>1. Steigend(th)
      BY <2>2 DEF SetThresholds, SetThresholdsFehler, OK
    <3>2. config'.tier_thresholds = th
      BY <2>2 DEF SetThresholds, TypInv, CfgTyp
    <3>3. th \in [1 .. 4 -> MENGE]
      BY Mengen
    <3> QED BY <3>1, <3>2, <3>3, <1>2 DEF SchwellenSteigen
  <2>3. ASSUME NEW u, NEW s, NEW n, NEW c, NEW b, RegisterImpact(u, s, n, c, b)
        PROVE  SchwellenSteigen'
    BY <2>3 DEF RegisterImpact, SchwellenSteigen, TypInv, CfgTyp
  <2>4. ASSUME config'.tier_thresholds = config.tier_thresholds PROVE SchwellenSteigen'
    BY <2>4 DEF SchwellenSteigen
  <2> QED BY <2>1, <2>2, <2>3, <2>4, RahmenImpact
<1> QED BY Typen, <1>1, <1>3, PTL DEF Spec
-----------------------------------------------------------------------------
(* Which steps touch the market.                                           *)
LEMMA RahmenMarkt ==
    ASSUME Schritt
    PROVE  \/ \E u \in NUTZER, i \in IMPACT, p \in PREISE : ListCredit(u, i, p)
           \/ \E u \in NUTZER, i \in IMPACT : CancelListing(u, i)
           \/ \E u \in NUTZER, i \in DOMAIN listings, kb, ks \in KONTO : BuyCredit(u, i, kb, ks)
           \/ listings' = listings
<1>1. ASSUME NEW u, NEW k, NEW q, Stake(u, k, q) \/ Ausgezahlt(u, k, q) PROVE listings' = listings
  BY <1>1 DEF Stake, Ausgezahlt
<1>2. ASSUME NEW u, NEW x, SetOracle(u, x) \/ SetGovernance(u, x) \/ SetPaused(u, x)
                           \/ SetThresholds(u, x)
      PROVE  listings' = listings
  BY <1>2 DEF SetOracle, SetGovernance, SetPaused, SetThresholds
<1>3. ASSUME NEW u, NEW s, NEW n, NEW c, NEW b,
             RegisterImpact(u, s, n, c, b) \/ Initialize(u, s, n, c) \/ Ueberweisen(u, s, n)
      PROVE  listings' = listings
  BY <1>3 DEF RegisterImpact, Initialize, Ueberweisen
<1>4. ASSUME Folgenlos PROVE listings' = listings
  BY <1>4 DEF Folgenlos, konten
<1> QED BY <1>1, <1>2, <1>3, <1>4 DEF Schritt

(* A sold listing stays, and keeps its buyer.                              *)
THEOREM VerkauftBleibtImmer == Spec => VerkauftBleibt
<1>1. [Next]_vars => \A i \in DOMAIN listings : listings[i].sold =>
                        i \in DOMAIN listings' /\ listings'[i] = listings[i]
  <2> SUFFICES ASSUME Schritt, NEW i \in DOMAIN listings, listings[i].sold
               PROVE  i \in DOMAIN listings' /\ listings'[i] = listings[i]
    BY Faelle
  <2>1. ASSUME NEW u, NEW j, NEW p, ListCredit(u, j, p)
        PROVE  i \in DOMAIN listings' /\ listings'[i] = listings[i]
    <3>1. j # i
      BY <2>1 DEF ListCredit, ListCreditFehler, OK
    <3> QED BY <2>1, <3>1 DEF ListCredit, Anlegen
  <2>2. ASSUME NEW u, NEW j, CancelListing(u, j)
        PROVE  i \in DOMAIN listings' /\ listings'[i] = listings[i]
    <3>1. j # i
      BY <2>2 DEF CancelListing, CancelListingFehler, OK
    <3> QED BY <2>2, <3>1 DEF CancelListing, Schliessen
  <2>3. ASSUME NEW u, NEW j, NEW kb, NEW ks, BuyCredit(u, j, kb, ks)
        PROVE  i \in DOMAIN listings' /\ listings'[i] = listings[i]
    <3>1. j # i
      BY <2>3 DEF BuyCredit, BuyCreditFehler, OK
    <3> QED BY <2>3, <3>1 DEF BuyCredit
  <2> QED BY <2>1, <2>2, <2>3, RahmenMarkt
<1> QED BY <1>1, PTL DEF Spec, VerkauftBleibt

(* A listing is well formed beside its record.                             *)
Echt(l, r) ==
    /\ l.seller = r.subject /\ l.impact_index = r.index
    /\ l.price > 0
    /\ l.sold <=> l.buyer # DEFAULT
    /\ l.buyer # l.seller

(* Every listing offers an attested credit of its seller, and a sold one   *)
(* has another buyer.                                                      *)
THEOREM AngebotImmerEcht == Spec => []AngebotEcht
<1>0. AngebotEcht <=> \A i \in DOMAIN listings : i \in DOMAIN impacts /\ Echt(listings[i], impacts[i])
  BY DEF AngebotEcht, Echt
<1>1. Init => AngebotEcht
  BY DEF Init, AngebotEcht
<1>2. ASSUME TypInv, AngebotEcht, Schritt,
             \A i \in DOMAIN impacts : i \in DOMAIN impacts' /\ impacts'[i] = impacts[i]
      PROVE  AngebotEcht'
  <2>0. \A i \in DOMAIN listings : i \in DOMAIN impacts' /\ Echt(listings[i], impacts'[i])
    BY <1>2, <1>0
  <2>1. ASSUME NEW u \in NUTZER, NEW j \in IMPACT, NEW p \in PREISE, ListCredit(u, j, p)
        PROVE  \A i \in DOMAIN listings' : i \in DOMAIN impacts' /\ Echt(listings'[i], impacts'[i])
    <3>1. j \in DOMAIN impacts /\ impacts[j].subject = u /\ p # 0
      BY <2>1 DEF ListCredit, ListCreditFehler, OK
    <3>2. p > 0 /\ u # DEFAULT
      BY <3>1, Mengen
    <3>3. impacts'[j] = impacts[j] /\ j \in DOMAIN impacts'
      BY <3>1, <1>2
    <3>4. Echt([seller |-> u, impact_index |-> impacts[j].index, price |-> p,
                buyer |-> DEFAULT, sold |-> FALSE], impacts'[j])
      BY <3>1, <3>2, <3>3 DEF Echt
    <3>5. /\ DOMAIN listings' = DOMAIN listings \cup {j}
          /\ listings'[j] = [seller |-> u, impact_index |-> impacts[j].index, price |-> p,
                             buyer |-> DEFAULT, sold |-> FALSE]
          /\ \A i \in DOMAIN listings : i # j => listings'[i] = listings[i]
      BY <2>1 DEF ListCredit, Anlegen
    <3> QED BY <2>0, <3>3, <3>4, <3>5
  <2>2. ASSUME NEW u, NEW j, CancelListing(u, j)
        PROVE  \A i \in DOMAIN listings' : i \in DOMAIN impacts' /\ Echt(listings'[i], impacts'[i])
    BY <2>2, <2>0 DEF CancelListing, Schliessen
  <2>3. ASSUME NEW u \in NUTZER, NEW j \in DOMAIN listings, NEW kb \in KONTO, NEW ks \in KONTO,
               BuyCredit(u, j, kb, ks)
        PROVE  \A i \in DOMAIN listings' : i \in DOMAIN impacts' /\ Echt(listings'[i], impacts'[i])
    <3>1. u # listings[j].seller /\ u # DEFAULT
      BY <2>3, Mengen DEF BuyCredit, BuyCreditFehler, OK
    <3> DEFINE neu == [[listings[j] EXCEPT !.buyer = u] EXCEPT !.sold = TRUE]
    <3>2. /\ DOMAIN listings' = DOMAIN listings
          /\ \A i \in DOMAIN listings : i # j => listings'[i] = listings[i]
      BY <2>3 DEF BuyCredit
    <3>3. listings'[j] = neu
      BY <2>3 DEF BuyCredit
    <3>4. Echt(listings[j], impacts'[j])
      BY <2>0
    <3>5. Echt(neu, impacts'[j])
      BY <3>1, <3>4 DEF Echt
    <3> QED BY <2>0, <3>2, <3>3, <3>5
  <2>4. ASSUME listings' = listings
        PROVE  \A i \in DOMAIN listings' : i \in DOMAIN impacts' /\ Echt(listings'[i], impacts'[i])
    BY <2>4, <2>0
  <2>5. \A i \in DOMAIN listings' : i \in DOMAIN impacts' /\ Echt(listings'[i], impacts'[i])
    BY <1>2, <2>1, <2>2, <2>3, <2>4, RahmenMarkt
  <2> QED BY <2>5 DEF AngebotEcht, Echt
<1>3. Spec => [][\A i \in DOMAIN impacts : i \in DOMAIN impacts' /\ impacts'[i] = impacts[i]]_vars
  BY ImpactsBleiben DEF ImpactUnveraenderlich
<1>4. TypInv /\ AngebotEcht /\ [Next]_vars
      /\ [\A i \in DOMAIN impacts : i \in DOMAIN impacts' /\ impacts'[i] = impacts[i]]_vars
        => AngebotEcht'
  BY <1>2, Faelle DEF vars, konten
<1> QED BY Typen, <1>1, <1>3, <1>4, PTL DEF Spec
-----------------------------------------------------------------------------
(* No lock reaches further than a full period from now.                    *)
FristInv == \A u \in NUTZER : positionen[u].locked_until <= uhr + SPERRE

(* A position grows and is locked for a full period, or it does not grow   *)
(* and its lock stays.                                                     *)
PositionHaelt(u) ==
    \/ /\ positionen'[u].amount > positionen[u].amount
       /\ positionen'[u].locked_until = uhr + SPERRE
    \/ /\ ~(positionen'[u].amount > positionen[u].amount)
       /\ positionen'[u].locked_until = positionen[u].locked_until
       /\ positionen'[u].angelegt = positionen[u].angelegt

(* Every step does one of the two, and keeps every lock within a period.   *)
LEMMA SperreSchritt ==
    ASSUME TypInv, Schritt, FristInv
    PROVE  FristInv' /\ \A u \in NUTZER : PositionHaelt(u)
<1> USE Mengen, SperreAnnahme DEF TypInv, PosTyp
<1>1. ASSUME NEW u \in NUTZER, NEW k \in KONTO, NEW q \in BETRAEGE, Stake(u, k, q)
      PROVE  FristInv' /\ \A v \in NUTZER : PositionHaelt(v)
  <2>1. uhr' = uhr
    BY <1>1 DEF Stake, Ausgefuehrt
  <2>2. /\ positionen'[u].locked_until = uhr + SPERRE
        /\ positionen'[u].amount = positionen[u].amount + q
        /\ \A v \in NUTZER : v # u => positionen'[v] = positionen[v]
    BY <1>1 DEF Stake, SperreBis
  <2>6. q > 0
    BY <1>1 DEF Stake, StakeFehler, OK
  <2>3. FristInv'
    BY <2>1, <2>2 DEF FristInv
  <2>4. PositionHaelt(u)
    BY <2>2, <2>6 DEF PositionHaelt
  <2>5. ASSUME NEW v \in NUTZER, v # u PROVE PositionHaelt(v)
    BY <2>2, <2>5 DEF PositionHaelt
  <2> QED BY <2>3, <2>4, <2>5
<1>2. ASSUME NEW u \in NUTZER, NEW k \in KONTO, NEW q \in BETRAEGE, Ausgezahlt(u, k, q)
      PROVE  FristInv' /\ \A v \in NUTZER : PositionHaelt(v)
  <2>1. uhr' = uhr /\ ~(uhr < positionen[u].locked_until)
    BY <1>2 DEF Ausgezahlt, UnstakeFehler, OK
  <2>2. /\ positionen'[u].locked_until = positionen[u].locked_until
        /\ positionen'[u].angelegt = positionen[u].angelegt
        /\ positionen'[u].amount = positionen[u].amount - q
        /\ \A v \in NUTZER : v # u => positionen'[v] = positionen[v]
    BY <1>2 DEF Ausgezahlt
  <2>3. FristInv'
    BY <2>1, <2>2 DEF FristInv
  <2>4. PositionHaelt(u)
    BY <2>1, <2>2 DEF PositionHaelt
  <2>5. ASSUME NEW v \in NUTZER, v # u PROVE PositionHaelt(v)
    BY <2>2, <2>5 DEF PositionHaelt
  <2> QED BY <2>3, <2>4, <2>5
<1>3. ASSUME positionen' = positionen, uhr' \in {uhr, uhr + 1}
      PROVE  FristInv' /\ \A v \in NUTZER : PositionHaelt(v)
  <2>1. FristInv'
    BY <1>3 DEF FristInv
  <2>2. ASSUME NEW v \in NUTZER PROVE PositionHaelt(v)
    BY <1>3 DEF PositionHaelt
  <2> QED BY <2>1, <2>2
<1>4. ASSUME NEW u, NEW i, NEW kb, NEW ks, BuyCredit(u, i, kb, ks) \/ Ueberweisen(u, i, kb)
      PROVE  positionen' = positionen /\ uhr' = uhr
  BY <1>4 DEF BuyCredit, Ueberweisen, Ausgefuehrt
<1> HIDE Mengen, SperreAnnahme DEF TypInv, PosTyp
<1> QED BY <1>1, <1>2, <1>3, <1>4, RahmenStake
-----------------------------------------------------------------------------
(* What NurBefugte says of a step.                                         *)
Befugt ==
    /\ impacts' # impacts => signer' = config.oracle /\ ~config.paused
    /\ initialisiert =>
          \A f \in {"governance", "oracle", "tier_thresholds", "paused"} :
             config'[f] # config[f] => signer' = config.governance
    /\ \A u \in NUTZER :
          positionen'[u] # positionen[u] \/ tokens'[u] < tokens[u] => signer' = u
    /\ \A i \in DOMAIN listings : i \notin DOMAIN listings' => signer' = listings[i].seller
    /\ tokens'[CONFIG] < tokens[CONFIG] =>
          tokens[CONFIG] - tokens'[CONFIG] = config.total_staked - config'.total_staked

(* Every step is signed by whoever it concerns.                            *)
LEMMA BefugtSchritt == ASSUME TypInv, Schritt PROVE Befugt
<1> USE Mengen DEF TypInv, CfgTyp
<1> DEFINE F == {"governance", "oracle", "tier_thresholds", "paused"}
<1>0. \A k \in NUTZER \cup {CONFIG} : tokens[k] \in Nat
  OBVIOUS
<1>1. ASSUME NEW u \in NUTZER, NEW k \in KONTO, NEW q \in BETRAEGE, Stake(u, k, q)
      PROVE  Befugt
  <2>1. k.owner = u /\ TransferFehler(k.owner, u, {u}, q) = OK
    BY <1>1, EigenesKonto DEF Stake, StakeFehler, OK
  <2>2. \A v \in NUTZER \cup {CONFIG} : v # u => tokens'[v] >= tokens[v]
    BY <1>1, <2>1, Transfer DEF Stake
  <2>3. \A v \in NUTZER : v # u => positionen'[v] = positionen[v]
    BY <1>1 DEF Stake
  <2>4. \A f \in F : config'[f] = config[f]
    BY <1>1 DEF Stake
  <2>5. signer' = u /\ impacts' = impacts /\ listings' = listings
    BY <1>1 DEF Stake, Ausgefuehrt
  <2>6. \A v \in NUTZER \cup {CONFIG} : v # u => ~(tokens'[v] < tokens[v])
    <3>1. \A v \in NUTZER \cup {CONFIG} : tokens'[v] \in Nat
      BY TypSchritt
    <3> QED BY <2>2, <3>1, <1>0
  <2> QED BY <2>3, <2>4, <2>5, <2>6 DEF Befugt
<1>2. ASSUME NEW u \in NUTZER, NEW k \in KONTO, NEW q \in BETRAEGE, Ausgezahlt(u, k, q)
      PROVE  Befugt
  <2>1. k.owner = u
    BY <1>2, EigenesKonto DEF Ausgezahlt, UnstakeFehler, OK
  <2>2. \A v \in NUTZER : ~(tokens'[v] < tokens[v])
    BY <1>2, <2>1, <1>0 DEF Ausgezahlt, Ueberwiesen
  <2>3. tokens'[CONFIG] = tokens[CONFIG] - q /\ config'.total_staked = config.total_staked - q
    BY <1>2, <2>1 DEF Ausgezahlt, Ueberwiesen
  <2>4. \A v \in NUTZER : v # u => positionen'[v] = positionen[v]
    BY <1>2 DEF Ausgezahlt
  <2>5. \A f \in F : config'[f] = config[f]
    BY <1>2 DEF Ausgezahlt
  <2>6. signer' = u /\ impacts' = impacts /\ listings' = listings
    BY <1>2 DEF Ausgezahlt
  <2>7. tokens[CONFIG] - tokens'[CONFIG] = config.total_staked - config'.total_staked
    <3>1. tokens[CONFIG] \in Nat /\ config.total_staked \in Nat /\ q \in Nat
      BY <1>0
    <3> QED BY <2>3, <3>1
  <2> QED BY <2>2, <2>4, <2>5, <2>6, <2>7 DEF Befugt
<1>3. ASSUME NEW u \in NUTZER, NEW s, NEW n, NEW c, NEW b, RegisterImpact(u, s, n, c, b)
      PROVE  Befugt
  <2>1. u = config.oracle /\ ~config.paused
    BY <1>3 DEF RegisterImpact, RegisterImpactFehler, OK
  <2>2. \A f \in F : config'[f] = config[f]
    BY <1>3 DEF RegisterImpact
  <2>3. signer' = u /\ UNCHANGED <<positionen, listings, tokens>>
    BY <1>3 DEF RegisterImpact, Ausgefuehrt
  <2> QED BY <2>1, <2>2, <2>3, <1>0 DEF Befugt
<1>4. ASSUME NEW u, NEW x, NEW y, NEW th, Initialize(u, x, y, th)
      PROVE  Befugt
  <2>1. ~initialisiert
    BY <1>4 DEF Initialize, InitializeFehler, OK
  <2>2. UNCHANGED <<positionen, impacts, listings, tokens>>
    BY <1>4 DEF Initialize
  <2> QED BY <2>1, <2>2, <1>0 DEF Befugt
<1>5. ASSUME NEW u, NEW x, SetOracle(u, x) \/ SetGovernance(u, x) \/ SetThresholds(u, x)
                           \/ SetPaused(u, x)
      PROVE  Befugt
  <2>1. GovernFehler(u) = OK
    BY <1>5 DEF SetOracle, SetGovernance, SetThresholds, SetPaused, SetGovernanceFehler,
                SetThresholdsFehler, OK
  <2>2. u = config.governance
    BY <2>1 DEF GovernFehler, OK
  <2>3. signer' = u /\ UNCHANGED <<positionen, impacts, listings, tokens>>
    BY <1>5 DEF SetOracle, SetGovernance, SetThresholds, SetPaused, Ausgefuehrt
  <2> QED BY <2>2, <2>3, <1>0 DEF Befugt
<1>6. ASSUME NEW u, NEW i, NEW p, ListCredit(u, i, p)
      PROVE  Befugt
  <2>1. UNCHANGED <<config, positionen, impacts, tokens>>
    BY <1>6 DEF ListCredit
  <2>2. \A j \in DOMAIN listings : j \in DOMAIN listings'
    BY <1>6 DEF ListCredit, Anlegen
  <2> QED BY <2>1, <2>2, <1>0 DEF Befugt
<1>7. ASSUME NEW u, NEW i, CancelListing(u, i)
      PROVE  Befugt
  <2>1. UNCHANGED <<config, positionen, impacts, tokens>> /\ signer' = u
    BY <1>7 DEF CancelListing, Ausgefuehrt
  <2>2. u = listings[i].seller
    BY <1>7 DEF CancelListing, CancelListingFehler, OK
  <2>3. \A j \in DOMAIN listings : j # i => j \in DOMAIN listings'
    BY <1>7 DEF CancelListing, Schliessen
  <2> QED BY <2>1, <2>2, <2>3, <1>0 DEF Befugt
<1>8. ASSUME NEW u \in NUTZER, NEW i \in DOMAIN listings, NEW kb \in KONTO, NEW ks \in KONTO,
             BuyCredit(u, i, kb, ks)
      PROVE  Befugt
  <2>1. kb.owner = u /\ ks.owner = listings[i].seller
    BY <1>8, EigenesKonto DEF BuyCredit, BuyCreditFehler, OK
  <2>2. UNCHANGED <<config, positionen, impacts>> /\ signer' = u
        /\ DOMAIN listings' = DOMAIN listings
    BY <1>8 DEF BuyCredit, Ausgefuehrt
  <2>3. listings[i].price \in Nat
    OBVIOUS
  <2>4. \A v \in NUTZER \cup {CONFIG} : v # u => ~(tokens'[v] < tokens[v])
    BY <1>8, <2>1, <2>3, <1>0 DEF BuyCredit, Ueberwiesen
  <2> QED BY <2>2, <2>4 DEF Befugt
<1>9. ASSUME NEW u \in NUTZER, NEW v \in NUTZER \cup {CONFIG}, NEW q \in BETRAEGE,
             Ueberweisen(u, v, q)
      PROVE  Befugt
  <2>1. UNCHANGED <<config, positionen, impacts, listings>> /\ signer' = u
    BY <1>9 DEF Ueberweisen, Ausgefuehrt
  <2>2. \A w \in NUTZER \cup {CONFIG} : w # u => ~(tokens'[w] < tokens[w])
    <3>1. q \in Nat /\ tokens' = Ueberwiesen(u, v, q)
      BY <1>9 DEF Ueberweisen
    <3>2. ASSUME NEW w \in NUTZER \cup {CONFIG}, w # u PROVE ~(tokens'[w] < tokens[w])
      <4>1. tokens'[w] = tokens[w] + (IF w = v THEN q ELSE 0)
        BY <3>1, <3>2, <1>0 DEF Ueberwiesen
      <4> QED BY <3>1, <4>1, <1>0
    <3> QED BY <3>2
  <2> QED BY <2>1, <2>2 DEF Befugt
<1>10. ASSUME Folgenlos PROVE Befugt
  <2>1. UNCHANGED <<config, positionen, impacts, listings, tokens>>
    BY <1>10 DEF Folgenlos, konten
  <2> QED BY <2>1, <1>0 DEF Befugt
<1> HIDE Mengen DEF TypInv, CfgTyp
<1> QED BY <1>1, <1>2, <1>3, <1>4, <1>5, <1>6, <1>7, <1>8, <1>9, <1>10 DEF Schritt

(* SECURITY.md, invariants 2, 3 and 6: only the oracle attests, only       *)
(* governance configures, nobody moves another's stake, offer or tokens,   *)
(* and the vault pays out only what stakes shrink by.                      *)
THEOREM ImmerBefugt == Spec => NurBefugte
<1>1. TypInv /\ [Next]_vars => Befugt
  BY Faelle, BefugtSchritt
<1> QED BY Typen, <1>1, PTL DEF Spec, NurBefugte, Befugt
-----------------------------------------------------------------------------
(* Where thresholds never decrease, the last threshold a stake is not      *)
(* below is also the number of thresholds it is not below.                 *)
LEMMA StufeAnzahl ==
    ASSUME NEW th \in [1 .. 4 -> MENGE], NEW x \in Nat,
           \A i, j \in 1 .. 4 : i < j => th[i] <= th[j]
    PROVE  tier_for(th, x) = Cardinality({i \in 1 .. 4 : x >= th[i]})
<1> DEFINE T == {i \in 1 .. 4 : x >= th[i]}
<1>1. \A i \in 1 .. 4 : th[i] \in Nat
  BY Mengen
<1>2. tier_for(th, x) = IF T = {} THEN 0 ELSE CHOOSE i \in T : \A j \in T : j <= i
  BY DEF tier_for
<1>3. CASE T = {}
  BY <1>2, <1>3, FS_EmptySet
<1>4. CASE T # {}
  <2>1. \E m \in T : \A j \in T : j <= m
    <3>1. T \subseteq {1, 2, 3, 4}
      OBVIOUS
    <3> HIDE DEF T
    <3>2. CASE 4 \in T
      BY <3>1, <3>2
    <3>3. CASE 4 \notin T /\ 3 \in T
      BY <3>1, <3>3
    <3>4. CASE 4 \notin T /\ 3 \notin T /\ 2 \in T
      BY <3>1, <3>4
    <3>5. CASE 4 \notin T /\ 3 \notin T /\ 2 \notin T
      <4>1. T = {1}
        BY <1>4, <3>1, <3>5
      <4> QED BY <4>1
    <3> QED BY <3>2, <3>3, <3>4, <3>5
  <2>2. PICK m \in T : m = tier_for(th, x) /\ \A j \in T : j <= m
    BY <1>2, <1>4, <2>1
  <2>3. m \in 1 .. 4 /\ x >= th[m]
    OBVIOUS
  <2>4. ASSUME NEW i \in 1 .. m PROVE i \in T
    <3>1. i \in 1 .. 4 /\ (i = m \/ i < m)
      BY <2>3
    <3>2. th[i] <= th[m]
      BY <1>1, <2>3, <3>1
    <3>3. x >= th[i]
      BY <1>1, <2>3, <3>1, <3>2
    <3> QED BY <3>1, <3>3
  <2>5. ASSUME NEW i \in T PROVE i \in 1 .. m
    <3>1. i \in 1 .. 4 /\ i <= m
      BY <2>2
    <3> QED BY <2>3, <3>1
  <2>6. T = 1 .. m
    BY <2>4, <2>5
  <2>7. Cardinality(1 .. m) = m
    <3>1. 1 \in Int /\ m \in Int /\ ~(1 > m) /\ m - 1 + 1 = m
      BY <2>3
    <3> HIDE DEF T
    <3> QED BY <3>1, FS_Interval
  <2> QED BY <2>2, <2>6, <2>7
<1> QED BY <1>3, <1>4

(* An event that names a tier names the one of the signer's new stake.     *)
Gestuft ==
    \E u \in NUTZER : /\ signer' = u
                      /\ config'.tier_thresholds = config.tier_thresholds
                      /\ ereignis'.tier = tier_for(config.tier_thresholds, positionen'[u].amount)

LEMMA StufenSchritt ==
    ASSUME TypInv, [Next]_vars, ereignis'.art \in {"Staked", "Unstaked"}, ereignis' # ereignis
    PROVE  Gestuft
<1>0. ASSUME NEW f, Gescheitert(f) PROVE FALSE
  BY <1>0 DEF Gescheitert, KEINS
<1>7. ASSUME NEW s, NEW e, e.art \notin {"Staked", "Unstaked"}, Ausgefuehrt(s, e) PROVE FALSE
  BY <1>7 DEF Ausgefuehrt
<1>1. CASE Staking
  <2>1. PICK u \in NUTZER, k \in KONTO, q \in BETRAEGE : Stake(u, k, q) \/ Unstake(u, k, q)
    BY <1>1, <1>0 DEF Staking
  <2>2. CASE Stake(u, k, q)
    <3>1. /\ signer' = u
          /\ ereignis' = [art |-> "Staked",
                tier |-> tier_for(config.tier_thresholds, positionen[u].amount + q)]
      BY <2>2 DEF Stake, Ausgefuehrt
    <3>2. positionen'[u].amount = positionen[u].amount + q
      BY <2>2 DEF Stake, TypInv
    <3>3. config'.tier_thresholds = config.tier_thresholds
      BY <2>2 DEF Stake, TypInv, CfgTyp
    <3> QED BY <3>1, <3>2, <3>3 DEF Gestuft
  <2>3. CASE Unstake(u, k, q)
    <3>0. UnstakeFehler(u, k, q) = OK
      BY <2>3, <1>0 DEF Unstake
    <3>1. /\ signer' = u
          /\ ereignis' = [art |-> "Unstaked",
                tier |-> tier_for(config.tier_thresholds, positionen[u].amount - q)]
      BY <2>3, <3>0 DEF Unstake, Ausgefuehrt
    <3>2. positionen'[u].amount = positionen[u].amount - q
      BY <2>3, <3>0 DEF Unstake, TypInv, PosTyp
    <3>3. config'.tier_thresholds = config.tier_thresholds
      BY <2>3, <3>0 DEF Unstake, TypInv, CfgTyp
    <3> QED BY <3>1, <3>2, <3>3 DEF Gestuft
  <2> QED BY <2>1, <2>2, <2>3
<1>2. CASE Anrechnung
  BY <1>2, <1>0 DEF Anrechnung, RegisterImpact, Ausgefuehrt
<1>3. CASE Governance
  BY <1>3, <1>0 DEF Governance, Initialize, SetOracle, SetGovernance, SetThresholds, SetPaused,
                    Ausgefuehrt, KEINS
<1>4. CASE Markt
  <2>1. ASSUME NEW u, NEW i, NEW p, ListCredit(u, i, p) PROVE FALSE
    <3>1. Ausgefuehrt(u, [art |-> "CreditListed"])
      BY <2>1 DEF ListCredit
    <3> QED BY <3>1, <1>7
  <2>2. ASSUME NEW u, NEW i, CancelListing(u, i) PROVE FALSE
    <3>1. Ausgefuehrt(u, [art |-> "ListingCancelled"])
      BY <2>2 DEF CancelListing
    <3> QED BY <3>1, <1>7
  <2>3. ASSUME NEW u, NEW i, NEW kb, NEW ks, BuyCredit(u, i, kb, ks) PROVE FALSE
    <3>1. Ausgefuehrt(u, [art |-> "CreditSold"])
      BY <2>3 DEF BuyCredit
    <3> QED BY <3>1, <1>7
  <2> QED BY <1>4, <1>0, <2>1, <2>2, <2>3 DEF Markt
<1>5. CASE Umwelt
  <2>1. ASSUME NEW u, NEW v, NEW q, Ueberweisen(u, v, q) PROVE FALSE
    <3>1. Ausgefuehrt(u, KEINS)
      BY <2>1 DEF Ueberweisen
    <3> QED BY <3>1, <1>7 DEF KEINS
  <2>2. ~Ticken
    BY DEF Ticken
  <2> QED BY <1>5, <2>1, <2>2 DEF Umwelt
<1>6. CASE UNCHANGED vars
  BY <1>6 DEF vars
<1> QED BY <1>1, <1>2, <1>3, <1>4, <1>5, <1>6 DEF Next

(* Whatever thresholds were submitted and however stakes grew and shrank,  *)
(* the tier an event of stake or unstake reports counts the thresholds     *)
(* the new stake has reached.                                              *)
THEOREM StufeZaehltImmer == Spec => StufeZaehlt
<1> DEFINE Zaehlt == ereignis'.art \in {"Staked", "Unstaked"} /\ ereignis' # ereignis =>
                        ereignis'.tier = Cardinality({i \in 1 .. 4 :
                              positionen'[signer'].amount >= config'.tier_thresholds[i]})
<1>1. TypInv /\ SchwellenSteigen /\ [Next]_vars => Zaehlt
  <2> SUFFICES ASSUME TypInv, SchwellenSteigen, [Next]_vars,
                      ereignis'.art \in {"Staked", "Unstaked"}, ereignis' # ereignis
               PROVE  ereignis'.tier = Cardinality({i \in 1 .. 4 :
                         positionen'[signer'].amount >= config'.tier_thresholds[i]})
    OBVIOUS
  <2>1. PICK u \in NUTZER :
           /\ signer' = u
           /\ config'.tier_thresholds = config.tier_thresholds
           /\ ereignis'.tier = tier_for(config.tier_thresholds, positionen'[u].amount)
    BY StufenSchritt DEF Gestuft
  <2>2. config.tier_thresholds \in [1 .. 4 -> MENGE]
    BY DEF TypInv, CfgTyp
  <2>3. positionen'[u].amount \in Nat
    <3>1. TypInv'
      BY Faelle, TypSchritt
    <3> QED BY <3>1 DEF TypInv, PosTyp
  <2>4. \A i, j \in 1 .. 4 :
           i < j => config.tier_thresholds[i] <= config.tier_thresholds[j]
    BY DEF SchwellenSteigen
  <2>5. tier_for(config.tier_thresholds, positionen'[u].amount) =
           Cardinality({i \in 1 .. 4 : positionen'[u].amount >= config.tier_thresholds[i]})
    BY <2>2, <2>3, <2>4, StufeAnzahl
  <2> QED BY <2>1, <2>5
<1> QED BY Typen, SchwellenImmerSteigend, <1>1, PTL DEF Spec, StufeZaehlt
=============================================================================
