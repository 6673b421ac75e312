----------------------------- MODULE Hip2Beweis -----------------------------
(***************************************************************************)
(* Proofs about the market maker, for any ladder, any book and any orders  *)
(* of other traders.                                                       *)
(*                                                                         *)
(* First what follows from order numbers, prices and sides alone: levels   *)
(* and orders belong together, and the ladder never takes.  Then the       *)
(* quantities, with the lemmas of Summen: what an execution takes from the *)
(* ladder's orders is what is booked, so the inventory is right and never  *)
(* offered twice.                                                          *)
(*                                                                         *)
(* stufe_stellen cuts a price off at the width of a tick; an order of a    *)
(* price beyond it would rest elsewhere than at the level's price.  The    *)
(* theorems are about ladders whose prices fit.                            *)
(***************************************************************************)
EXTENDS MCHip2, Summen

PreisePassen == \A i \in STUFEN : preise[i] \in 0 .. U32 - 1

(* The fields of a resting order.                                          *)
FELDER == {"oid", "seite", "tick", "menge"}

(* Zuordnung is inductive together with: numbers are given once, and a     *)
(* level knows only numbers the ladder was given.                          *)
IInv ==
    /\ naechste_oid \in Nat \ {0}
    /\ eigene \subseteq 1 .. naechste_oid - 1
    /\ liegend \in [STUFEN -> eigene \cup {KEIN}]
    /\ ist_kauf \in [STUFEN -> BOOLEAN]
    /\ dran \in STUFEN
    /\ \A r \in ruhend : DOMAIN r = FELDER /\ r.oid \in 1 .. naechste_oid - 1
    /\ Zuordnung

(* An order number that was never given belongs to no order of the ladder. *)
LEMMA NummerNeu ==
    ASSUME IInv
    PROVE  /\ naechste_oid \notin eigene
           /\ \A i \in STUFEN : liegend[i] # naechste_oid
           /\ \A r \in ruhend : r.oid # naechste_oid /\ r.oid # KEIN
           /\ KEIN \notin eigene
<1>1. naechste_oid \notin 1 .. naechste_oid - 1 /\ KEIN \notin 1 .. naechste_oid - 1
      /\ naechste_oid # KEIN
  BY DEF IInv, KEIN
<1> QED BY <1>1 DEF IInv

(* After a call, an order in the book is one that was there, with its      *)
(* number, price and side, or what rests of the new one.                   *)
LEMMA DanachOrder ==
    ASSUME NEW R, \A r \in R : DOMAIN r = FELDER, NEW a, NEW n, NEW x \in Danach(R, a, n)
    PROVE  /\ DOMAIN x = FELDER
           /\ \/ \E r \in R : x.oid = r.oid /\ x.tick = r.tick /\ x.seite = r.seite
              \/ /\ Ruhend(R, a) > 0
                 /\ x.oid = n /\ x.tick = Grenze(a) /\ x.seite = a.seite
<1>1. CASE x \in R \ Erreichbar(R, a)
  BY <1>1
<1>2. ASSUME NEW r \in R, x = [r EXCEPT !.menge = @ - Gibt(R, a, r)]
      PROVE  /\ DOMAIN x = FELDER
             /\ x.oid = r.oid /\ x.tick = r.tick /\ x.seite = r.seite
  BY <1>2 DEF FELDER
<1>3. CASE Ruhend(R, a) > 0 /\ x = [oid |-> n, seite |-> a.seite, tick |-> Grenze(a), menge |-> Rest(R, a)]
  BY <1>3 DEF FELDER
<1>4. Erreichbar(R, a) \subseteq R
  BY DEF Erreichbar
<1> QED BY <1>1, <1>2, <1>3, <1>4 DEF Danach

(* A level is placed in a book R without its former order: it knows the    *)
(* order that rests, at its price and on its side, and all orders of R are *)
(* still there.                                                            *)
LEMMA Gelegt ==
    ASSUME PreisePassen, IInv, NEW R \in SUBSET ruhend, NEW i \in STUFEN, NEW kauf \in BOOLEAN,
           \A r \in R : r.oid # liegend[i],
           \A r \in ruhend \ R : r.oid = liegend[i],
           StufeLegen(R, i, kauf), ist_kauf' = [ist_kauf EXCEPT ![i] = kauf], dran' \in STUFEN
    PROVE  IInv' /\ R \subseteq ruhend'
<1> DEFINE a == StufenAuftrag(i, kauf)
           n == naechste_oid
<1>0. /\ n \in Nat /\ n # KEIN /\ n \notin eigene
      /\ \A j \in STUFEN : liegend[j] # n
      /\ \A r \in R : r.oid # n /\ r.oid # KEIN /\ DOMAIN r = FELDER /\ r.oid \in 1 .. n - 1
      /\ KEIN \notin eigene
  BY NummerNeu DEF IInv, KEIN
<1>1. ist_kauf' \in [STUFEN -> BOOLEAN]
  BY DEF IInv
<1>2. CASE Abzulehnen(R, a)
  <2>1. ruhend' = R /\ liegend' = [liegend EXCEPT ![i] = KEIN]
        /\ naechste_oid' = naechste_oid /\ eigene' = eigene
    BY <1>2 DEF StufeLegen
  <2>2. Zuordnung'
    <3>1. \A r \in R : r.oid \in eigene <=> \E j \in STUFEN : liegend'[j] = r.oid
      BY <1>0, <2>1 DEF IInv, Zuordnung
    <3>2. ASSUME NEW j \in STUFEN, NEW r \in R, r.oid = liegend'[j]
          PROVE  r.tick = preise[j] /\ r.seite = SeiteVon(ist_kauf'[j])
      <4>1. j # i /\ liegend'[j] = liegend[j] /\ ist_kauf'[j] = ist_kauf[j]
        BY <1>0, <2>1, <3>2 DEF IInv
      <4> QED BY <3>2, <4>1 DEF IInv, Zuordnung, OrderVon
    <3>3. \A j, k \in STUFEN : liegend'[j] = liegend'[k] => j = k \/ liegend'[j] = KEIN
      BY <2>1 DEF IInv, Zuordnung
    <3> QED BY <2>1, <3>1, <3>2, <3>3 DEF Zuordnung, OrderVon
  <2>3. liegend' \in [STUFEN -> eigene' \cup {KEIN}]
    BY <2>1 DEF IInv
  <2> QED BY <1>1, <2>1, <2>2, <2>3 DEF IInv
<1>3. CASE ~Abzulehnen(R, a)
  <2> DEFINE o == IF Ruhend(R, a) > 0 THEN n ELSE KEIN
  <2>1. /\ ruhend' = Danach(R, a, n) /\ liegend' = [liegend EXCEPT ![i] = o]
        /\ naechste_oid' = n + 1 /\ eigene' = eigene \cup {n}
    BY <1>3 DEF StufeLegen
  <2>2. Erreichbar(R, a) = {} /\ Grenze(a) = preise[i] /\ a.seite = SeiteVon(kauf)
    <3>1. /\ a.art = "limit" /\ a.gueltigkeit = "NurLegen" /\ a.seite = SeiteVon(kauf)
          /\ a.tick = preise[i] % U32
      BY DEF StufenAuftrag, LimitAuftrag
    <3>2. preise[i] % U32 = preise[i]
      BY BreiteAnnahme DEF PreisePassen
    <3> QED BY <1>3, <3>1, <3>2 DEF Abzulehnen, Grenze
  <2>3. R \subseteq ruhend'
    BY <2>1, <2>2 DEF Danach
  <2>4. ASSUME NEW x \in ruhend'
        PROVE  /\ DOMAIN x = FELDER
               /\ \/ /\ \E r \in R : x.oid = r.oid /\ x.tick = r.tick /\ x.seite = r.seite
                     /\ x.oid # n /\ x.oid \in 1 .. n - 1 /\ x.oid # liegend[i]
                  \/ o = n /\ x.oid = n /\ x.tick = preise[i] /\ x.seite = SeiteVon(kauf)
    BY <1>0, <2>1, <2>2, DanachOrder
  <2> HIDE DEF a, o
  <2>5. o \in {n, KEIN}
    BY DEF o
  <2>6. liegend'[i] = o /\ \A j \in STUFEN : j # i => liegend'[j] = liegend[j] /\ ist_kauf'[j] = ist_kauf[j]
    BY <2>1 DEF IInv
  <2>7. ist_kauf'[i] = kauf
    BY DEF IInv
  <2>8. \A x \in ruhend' : x.oid \in eigene' <=> \E j \in STUFEN : liegend'[j] = x.oid
    <3> SUFFICES ASSUME NEW x \in ruhend'
                 PROVE  x.oid \in eigene' <=> \E j \in STUFEN : liegend'[j] = x.oid
      OBVIOUS
    <3>1. CASE x.oid = n
      BY <2>1, <2>4, <2>6, <3>1
    <3>2. CASE x.oid # n
      <4>1. PICK r \in R : x.oid = r.oid /\ x.oid # liegend[i] /\ x.oid # KEIN
        BY <1>0, <2>4, <3>2
      <4>2. r.oid \in eigene <=> \E j \in STUFEN : liegend[j] = r.oid
        BY DEF IInv, Zuordnung
      <4>3. (\E j \in STUFEN : liegend[j] = r.oid) <=> \E j \in STUFEN : liegend'[j] = r.oid
        BY <2>5, <2>6, <3>2, <4>1
      <4> QED BY <2>1, <3>2, <4>1, <4>2, <4>3
    <3> QED BY <3>1, <3>2
  <2>9. ASSUME NEW j \in STUFEN, NEW x \in ruhend', x.oid = liegend'[j]
        PROVE  x.tick = preise[j] /\ x.seite = SeiteVon(ist_kauf'[j])
    <3>1. CASE x.oid = n
      <4>1. j = i
        BY <1>0, <2>6, <2>9, <3>1
      <4> QED BY <2>4, <2>7, <3>1, <4>1
    <3>2. CASE x.oid # n
      <4>1. PICK r \in R : x.oid = r.oid /\ x.tick = r.tick /\ x.seite = r.seite /\ r.oid # KEIN
        BY <1>0, <2>4, <3>2
      <4>2. j # i /\ r.oid = liegend[j] /\ ist_kauf'[j] = ist_kauf[j]
        BY <2>5, <2>6, <2>9, <3>2, <4>1
      <4> QED BY <4>1, <4>2 DEF IInv, Zuordnung, OrderVon
    <3> QED BY <3>1, <3>2
  <2>10. \A j, k \in STUFEN : liegend'[j] = liegend'[k] => j = k \/ liegend'[j] = KEIN
    BY <1>0, <2>5, <2>6 DEF IInv, Zuordnung
  <2>11. Zuordnung'
    BY <2>8, <2>9, <2>10 DEF Zuordnung, OrderVon
  <2>12. naechste_oid' \in Nat \ {0} /\ eigene' \subseteq 1 .. naechste_oid' - 1
    BY <1>0, <2>1 DEF IInv
  <2>13. liegend' \in [STUFEN -> eigene' \cup {KEIN}]
    BY <2>1, <2>5 DEF IInv
  <2>14. \A x \in ruhend' : DOMAIN x = FELDER /\ x.oid \in 1 .. naechste_oid' - 1
    <3>1. 1 .. n - 1 \subseteq 1 .. naechste_oid' - 1 /\ n \in 1 .. naechste_oid' - 1
      BY <1>0, <2>1 DEF IInv
    <3>2. ASSUME NEW x \in ruhend' PROVE DOMAIN x = FELDER /\ (x.oid \in 1 .. n - 1 \/ x.oid = n)
      BY <2>4
    <3> QED BY <3>1, <3>2
  <2> QED BY <1>1, <2>3, <2>11, <2>12, <2>13, <2>14 DEF IInv
<1> QED BY <1>2, <1>3 DEF StufeLegen

(* The next level is one of the ladder's.                                  *)
LEMMA NaechsteIstStufe == ASSUME dran \in STUFEN, NaechsteStufe PROVE dran' \in STUFEN
BY LeiterAnnahme DEF NaechsteStufe, STUFEN

(* Every step keeps the invariant; a step of the ladder leaves all orders  *)
(* in the book but that of its level, in particular those of others.       *)
LEMMA InvSchritt ==
    ASSUME PreisePassen, IInv, [Next]_vars
    PROVE  /\ IInv'
           /\ lauf # "ruht" => \A r \in ruhend : r.oid # liegend[dran] => r \in ruhend'
           /\ lauf # "ruht" => Fremde \subseteq ruhend'
<1>1. CASE Stellen
  <2>1. ist_kauf' = ist_kauf /\ dran' \in STUFEN
    BY <1>1, NaechsteIstStufe DEF Stellen, IInv
  <2>2. CASE liegend[dran] # KEIN
    <3>1. UNCHANGED <<buch, liegend, eigene>>
      BY <1>1, <2>2 DEF Stellen
    <3> QED BY <2>1, <3>1 DEF buch, IInv, Zuordnung, OrderVon, Fremde
  <2>3. CASE liegend[dran] = KEIN
    <3>1. StufeLegen(ruhend, dran, ist_kauf[dran])
      BY <1>1, <2>3 DEF Stellen
    <3>2. /\ dran \in STUFEN /\ ist_kauf[dran] \in BOOLEAN
          /\ ist_kauf' = [ist_kauf EXCEPT ![dran] = ist_kauf[dran]]
      BY <2>1 DEF IInv
    <3>3. \A r \in ruhend : r.oid # liegend[dran]
      BY <2>3, NummerNeu
    <3>4. IInv' /\ ruhend \subseteq ruhend'
      BY <2>1, <3>1, <3>2, <3>3, Gelegt
    <3> QED BY <3>4 DEF Fremde
  <2> QED BY <2>2, <2>3
<1>2. CASE StufeAktualisieren
  <2>1. dran' \in STUFEN /\ dran \in STUFEN
    BY <1>2, NaechsteIstStufe DEF StufeAktualisieren, IInv
  <2>2. CASE ~NeuZuLegen(dran)
    <3>1. UNCHANGED <<buch, liegend, ist_kauf, eigene>>
      BY <1>2, <2>2 DEF StufeAktualisieren
    <3> QED BY <2>1, <3>1 DEF buch, IInv, Zuordnung, OrderVon, Fremde
  <2>3. CASE NeuZuLegen(dran)
    <3> DEFINE R == OhneStufe(dran)
               kauf == dran <= grenze
    <3>1. StufeLegen(R, dran, kauf) /\ ist_kauf' = [ist_kauf EXCEPT ![dran] = kauf]
      BY <1>2, <2>3 DEF StufeAktualisieren
    <3>2. /\ R \in SUBSET ruhend /\ kauf \in BOOLEAN
          /\ \A r \in R : r.oid # liegend[dran]
          /\ \A r \in ruhend \ R : r.oid = liegend[dran]
      BY DEF OhneStufe, Ohne
    <3>3. IInv' /\ R \subseteq ruhend'
      <4> HIDE DEF R, kauf
      <4> QED BY <2>1, <3>1, <3>2, Gelegt
    <3>4. Fremde \subseteq R
      BY <2>1 DEF Fremde, OhneStufe, Ohne, IInv, Zuordnung
    <3> HIDE DEF R
    <3> QED BY <3>2, <3>3, <3>4
  <2> QED BY <2>2, <2>3
<1>3. ASSUME NEW a, Handeln(a)
      PROVE  IInv' /\ lauf = "ruht"
  <2> DEFINE n == naechste_oid
  <2>1. /\ ruhend' = Danach(ruhend, a, n) /\ naechste_oid' = n + 1
        /\ UNCHANGED <<liegend, ist_kauf, lauf, dran, eigene>> /\ lauf = "ruht"
    BY <1>3 DEF Handeln
  <2>2. /\ n \in Nat /\ n # KEIN /\ n \notin eigene
        /\ \A j \in STUFEN : liegend[j] # n
        /\ \A r \in ruhend : DOMAIN r = FELDER /\ r.oid \in 1 .. n - 1
    BY NummerNeu DEF IInv, KEIN
  <2>3. ASSUME NEW x \in ruhend'
        PROVE  /\ DOMAIN x = FELDER
               /\ \/ \E r \in ruhend : x.oid = r.oid /\ x.tick = r.tick /\ x.seite = r.seite
                  \/ x.oid = n
    BY <2>1, <2>2, DanachOrder
  <2>4. \A x \in ruhend' : x.oid \in 1 .. n + 1 - 1
    <3> SUFFICES ASSUME NEW x \in ruhend' PROVE x.oid \in 1 .. n + 1 - 1
      OBVIOUS
    <3>1. x.oid \in 1 .. n - 1 \/ x.oid = n
      BY <2>2, <2>3
    <3> QED BY <2>2, <3>1 DEF IInv
  <2>5. \A x \in ruhend' : x.oid \in eigene <=> \E j \in STUFEN : liegend[j] = x.oid
    BY <2>2, <2>3 DEF IInv, Zuordnung
  <2>6. ASSUME NEW j \in STUFEN, NEW x \in ruhend', x.oid = liegend[j]
        PROVE  x.tick = preise[j] /\ x.seite = SeiteVon(ist_kauf[j])
    <3>1. PICK r \in ruhend : x.oid = r.oid /\ x.tick = r.tick /\ x.seite = r.seite
      BY <2>2, <2>3, <2>6
    <3> QED BY <2>6, <3>1 DEF IInv, Zuordnung, OrderVon
  <2>7. Zuordnung'
    <3>1. \A j, k \in STUFEN : liegend[j] = liegend[k] => j = k \/ liegend[j] = KEIN
      BY DEF IInv, Zuordnung
    <3> QED BY <2>1, <2>5, <2>6, <3>1 DEF Zuordnung, OrderVon
  <2>8. eigene \subseteq 1 .. n + 1 - 1
    BY <2>2 DEF IInv
  <2> QED BY <2>1, <2>2, <2>3, <2>4, <2>7, <2>8 DEF IInv
<1>4. ASSUME NEW o, FremdStornieren(o)
      PROVE  IInv' /\ lauf = "ruht"
  <2>1. /\ ruhend' \subseteq ruhend /\ lauf = "ruht"
        /\ UNCHANGED <<naechste_oid, liegend, ist_kauf, dran, eigene>>
    BY <1>4 DEF FremdStornieren, Ohne
  <2> QED BY <2>1 DEF IInv, Zuordnung, OrderVon
<1>5. CASE Aktualisieren \/ Verstreichen
  BY <1>5 DEF Aktualisieren, Verstreichen, buch, IInv, Zuordnung, OrderVon
<1>6. CASE UNCHANGED vars
  BY <1>6 DEF vars, buch, IInv, Zuordnung, OrderVon, Fremde
<1> QED BY <1>1, <1>2, <1>3, <1>4, <1>5, <1>6 DEF Next

(* The invariant holds always.                                             *)
LEMMA Invariante == ASSUME PreisePassen PROVE Spec => []IInv
<1>1. Init => IInv
  <2> SUFFICES ASSUME Init PROVE IInv
    OBVIOUS
  <2>1. liegend \in [STUFEN -> eigene \cup {KEIN}] /\ ist_kauf \in [STUFEN -> BOOLEAN]
    BY LeiterAnnahme DEF Init, STUFEN
  <2>2. Zuordnung
    BY DEF Init, Zuordnung, OrderVon
  <2>3. dran \in STUFEN /\ naechste_oid = 1 /\ eigene = {} /\ ruhend = {}
    BY LeiterAnnahme DEF Init, STUFEN
  <2> QED BY <2>1, <2>2, <2>3 DEF IInv
<1>2. IInv /\ [Next]_vars => IInv'
  BY InvSchritt
<1> QED BY <1>1, <1>2, PTL DEF Spec

(* What ausfuehrung_verbuchen relies on: every order the ladder has in the *)
(* book is known to exactly one level and rests at its price and on its    *)
(* side, for every ladder whose prices fit into a tick.                    *)
THEOREM ZuordnungImmer == ASSUME PreisePassen PROVE Spec => []Zuordnung
<1>1. IInv => Zuordnung
  BY DEF IInv
<1> QED BY Invariante, <1>1, PTL

(* The ladder only places: no call of stellen() or aktualisieren() ever    *)
(* executes against another trader's order, or against one of its own.     *)
THEOREM NimmtNie == ASSUME PreisePassen PROVE Spec => ProtokollNimmtNie
<1>1. IInv /\ [Next]_vars =>
         (lauf # "ruht" => \A r \in ruhend : r.oid # liegend[dran] => r \in ruhend')
  BY InvSchritt
<1> QED BY Invariante, <1>1, PTL DEF Spec, ProtokollNimmtNie
-----------------------------------------------------------------------------
(* Quantities.  The minimum of two numbers.                                *)
LEMMA MinVon ==
    ASSUME NEW a \in Int, NEW b \in Int
    PROVE  Min({a, b}) = IF a <= b THEN a ELSE b
<1> DEFINE m == IF a <= b THEN a ELSE b
<1>1. m \in {a, b} /\ \A y \in {a, b} : m <= y
  OBVIOUS
<1>2. \A z \in {a, b} : (\A y \in {a, b} : z <= y) => z = m
  OBVIOUS
<1> HIDE DEF m
<1>3. Min({a, b}) = m
  BY <1>1, <1>2 DEF Min
<1> QED BY <1>3 DEF m

(* What a set of orders or executions adds up to, with any function that   *)
(* gives their quantities.                                                 *)
LEMMA SummeVon ==
    ASSUME NEW R, IsFiniteSet(R), \A r \in R : r.menge \in Nat
    PROVE  /\ Summe(R) \in Nat
           /\ \A m : (\A r \in R : m[r] = r.menge) => Summe(R) = SumFunctionOnSet(m, R)
<1> DEFINE f == [r \in R |-> r.menge]
<1>1. Summe(R) = SumFunctionOnSet(f, R)
  BY DEF Summe, SumFunction
<1>2. \A r \in R : f[r] = r.menge /\ f[r] \in Nat
  OBVIOUS
<1> HIDE DEF f
<1>3. SumFunctionOnSet(f, R) \in Nat
  BY <1>2, SummeNat
<1>4. ASSUME NEW m, \A r \in R : m[r] = r.menge
      PROVE  SumFunctionOnSet(f, R) = SumFunctionOnSet(m, R)
  BY <1>2, <1>4, SummeGleich
<1> QED BY <1>1, <1>3, <1>4

(* Fewer orders, no greater quantity.                                      *)
LEMMA SummeWeniger ==
    ASSUME NEW R, IsFiniteSet(R), \A r \in R : r.menge \in Nat, NEW T \in SUBSET R
    PROVE  Summe(T) <= Summe(R)
<1> DEFINE m == [r \in R |-> r.menge]
<1>1. IsFiniteSet(T) /\ \A r \in T : r.menge \in Nat
  BY FS_Subset
<1>2. \A r \in R : m[r] = r.menge /\ m[r] \in Nat
  OBVIOUS
<1> HIDE DEF m
<1>3. Summe(T) = SumFunctionOnSet(m, T) /\ Summe(R) = SumFunctionOnSet(m, R)
  BY <1>1, <1>2, SummeVon
<1>4. SumFunctionOnSet(m, T) <= SumFunctionOnSet(m, R)
  BY <1>2, SummeTeil
<1> QED BY <1>3, <1>4

(* r is an order.                                                          *)
Satz(r) == r = [oid |-> r.oid, seite |-> r.seite, tick |-> r.tick, menge |-> r.menge]

(* A book: finitely many orders, each with a number of its own.            *)
Buch(R) ==
    /\ IsFiniteSet(R)
    /\ \A r \in R :
          /\ DOMAIN r = FELDER /\ Satz(r)
          /\ r.seite \in SEITE /\ r.tick \in 0 .. TICKS - 1 /\ r.menge \in Nat \ {0}
    /\ \A r, q \in R : r.oid = q.oid => r = q

(* What a taker takes from an order, and what it leaves of it.             *)
Abgang(R, a, r) == IF r \in Erreichbar(R, a) THEN Gibt(R, a, r) ELSE 0
Uebrig(R, a, r) == IF r \in Erreichbar(R, a) THEN [r EXCEPT !.menge = @ - Gibt(R, a, r)] ELSE r

(* Nobody takes more from an order than it has.                            *)
LEMMA AbgangTyp ==
    ASSUME NEW R, Buch(R), NEW a, a.menge \in Nat, NEW r \in R
    PROVE  Gibt(R, a, r) \in 0 .. r.menge /\ Abgang(R, a, r) \in 0 .. r.menge
<1> DEFINE T == {z \in Erreichbar(R, a) : Vorrang(z, r)}
           d == Summe(T)
<1>1. r.menge \in Nat
  BY DEF Buch
<1>2. d \in Nat
  <2>1. T \subseteq R
    BY DEF Erreichbar
  <2>2. IsFiniteSet(T) /\ \A z \in T : z.menge \in Nat
    <3> HIDE DEF T
    <3> QED BY <2>1, FS_Subset DEF Buch
  <2> HIDE DEF T
  <2> QED BY <2>2, SummeVon
<1>3. Gibt(R, a, r) = IF d >= a.menge THEN 0 ELSE Min({r.menge, a.menge - d})
  BY DEF Gibt
<1> HIDE DEF d
<1>4. Gibt(R, a, r) \in 0 .. r.menge
  <2>1. CASE d >= a.menge
    BY <1>1, <1>3, <2>1
  <2>2. CASE ~(d >= a.menge)
    <3> DEFINE e == a.menge - d
    <3>1. e \in Nat
      BY <1>2, <2>2
    <3>2. Gibt(R, a, r) = Min({r.menge, e})
      BY <1>3, <2>2
    <3> HIDE DEF e
    <3> QED BY <1>1, <3>1, <3>2, MinVon
  <2> QED BY <2>1, <2>2
<1> QED BY <1>1, <1>4 DEF Abgang

(* What is left of an order has its number, price and side.                *)
LEMMA UebrigFelder ==
    ASSUME NEW R, Buch(R), NEW a, a.menge \in Nat, NEW r \in R
    PROVE  LET x == Uebrig(R, a, r)
           IN  /\ DOMAIN x = FELDER /\ Satz(x)
               /\ x.oid = r.oid /\ x.seite = r.seite /\ x.tick = r.tick
               /\ x.menge = r.menge - Abgang(R, a, r) /\ x.menge \in 0 .. r.menge
<1>1. DOMAIN r = FELDER /\ Satz(r) /\ r.menge \in Nat
  BY DEF Buch
<1>2. Abgang(R, a, r) \in 0 .. r.menge
  BY AbgangTyp
<1>3. CASE r \in Erreichbar(R, a)
  <2>1. Abgang(R, a, r) = Gibt(R, a, r) /\ Uebrig(R, a, r) = [r EXCEPT !.menge = @ - Gibt(R, a, r)]
    BY <1>3 DEF Abgang, Uebrig
  <2> QED BY <1>1, <1>2, <2>1 DEF FELDER, Satz
<1>4. CASE r \notin Erreichbar(R, a)
  <2>1. Abgang(R, a, r) = 0 /\ Uebrig(R, a, r) = r
    BY <1>4 DEF Abgang, Uebrig
  <2> QED BY <1>1, <2>1
<1> QED BY <1>3, <1>4

(* The new order, if something of it rests.                                *)
Neue(R, a, n) ==
    IF Ruhend(R, a) > 0
    THEN {[oid |-> n, seite |-> a.seite, tick |-> Grenze(a), menge |-> Rest(R, a)]}
    ELSE {}

(* After a call the book holds what is left of each order, and the rest of *)
(* the new one.                                                            *)
LEMMA DanachIst ==
    ASSUME NEW R, Buch(R), NEW a, a.menge \in Nat, NEW n
    PROVE  Danach(R, a, n) = {Uebrig(R, a, r) : r \in {z \in R : Abgang(R, a, z) # z.menge}}
                                \cup Neue(R, a, n)
<1> DEFINE E == Erreichbar(R, a)
           X == {[r EXCEPT !.menge = @ - Gibt(R, a, r)] : r \in {z \in E : Gibt(R, a, z) < z.menge}}
           Y == {Uebrig(R, a, r) : r \in {z \in R : Abgang(R, a, z) # z.menge}}
<1>1. Danach(R, a, n) = ((R \ E) \cup X) \cup Neue(R, a, n)
  BY DEF Danach, Neue
<1>2. E \subseteq R
  BY DEF Erreichbar
<1>3. ASSUME NEW r \in R PROVE Abgang(R, a, r) # r.menge <=> r \notin E \/ Gibt(R, a, r) < r.menge
  <2>1. r.menge \in Nat \ {0} /\ Gibt(R, a, r) \in 0 .. r.menge
    BY AbgangTyp DEF Buch
  <2> QED BY <2>1 DEF Abgang
<1>4. (R \ E) \cup X = Y
  <2>1. \A r \in R \ E : Uebrig(R, a, r) = r
    BY DEF Uebrig
  <2>2. \A r \in E : Uebrig(R, a, r) = [r EXCEPT !.menge = @ - Gibt(R, a, r)]
    BY DEF Uebrig
  <2> HIDE DEF E
  <2>3. R \ E \subseteq Y
    BY <1>3, <2>1
  <2>4. X \subseteq Y
    <3> SUFFICES ASSUME NEW r \in E, Gibt(R, a, r) < r.menge
                 PROVE  [r EXCEPT !.menge = @ - Gibt(R, a, r)] \in Y
      OBVIOUS
    <3>1. r \in {z \in R : Abgang(R, a, z) # z.menge}
      BY <1>2, <1>3
    <3> QED BY <2>2, <3>1
  <2>5. Y \subseteq (R \ E) \cup X
    <3> SUFFICES ASSUME NEW r \in R, Abgang(R, a, r) # r.menge
                 PROVE  Uebrig(R, a, r) \in (R \ E) \cup X
      OBVIOUS
    <3>1. CASE r \notin E
      BY <2>1, <3>1
    <3>2. CASE r \in E
      <4>1. Gibt(R, a, r) < r.menge
        BY <1>3, <3>2
      <4> QED BY <2>2, <3>2, <4>1
    <3> QED BY <3>1, <3>2
  <2> QED BY <2>3, <2>4, <2>5
<1> QED BY <1>1, <1>4

(* Prices, quantities and rests of the calls the model makes.              *)
AuftragTyp(a) ==
    /\ a.menge \in Nat /\ a.seite \in SEITE
    /\ a.art \in {"limit", "markt"} /\ (a.art = "limit" => a.tick \in Nat)

(* What rests of an accepted call has a price of the book.                 *)
LEMMA RestTyp ==
    ASSUME NEW R, Buch(R), NEW a, AuftragTyp(a), ~Abzulehnen(R, a)
    PROVE  /\ Rest(R, a) \in 0 .. a.menge /\ Ruhend(R, a) \in 0 .. a.menge
           /\ Ruhend(R, a) > 0 => /\ Rest(R, a) > 0
                                  /\ Grenze(a) = a.tick /\ a.tick \in 0 .. TICKS - 1
<1> DEFINE s == Summe(Erreichbar(R, a))
<1>1. s \in Nat
  <2>1. IsFiniteSet(Erreichbar(R, a)) /\ \A r \in Erreichbar(R, a) : r.menge \in Nat
    <3>1. Erreichbar(R, a) \subseteq R
      BY DEF Erreichbar
    <3> QED BY <3>1, FS_Subset DEF Buch
  <2> QED BY <2>1, SummeVon
<1>2. a.menge \in Nat
  BY DEF AuftragTyp
<1>3. Rest(R, a) = a.menge - Min({a.menge, s})
  BY DEF Rest
<1> HIDE DEF s
<1>4. Rest(R, a) \in 0 .. a.menge
  BY <1>1, <1>2, <1>3, MinVon
<1>5. Ruhend(R, a) \in {0, Rest(R, a)}
  BY DEF Ruhend
<1>6. ASSUME Ruhend(R, a) > 0
      PROVE  Rest(R, a) > 0 /\ Grenze(a) = a.tick /\ a.tick \in 0 .. TICKS - 1
  <2>1. Bleibt(a) /\ Rest(R, a) > 0
    BY <1>6 DEF Ruhend
  <2>2. a.art = "limit"
    BY <2>1 DEF Bleibt
  <2>3. ~(a.tick >= TICKS) /\ a.tick \in Nat
    BY <2>2 DEF Abzulehnen, AuftragTyp
  <2> QED BY <2>1, <2>2, <2>3, BreiteAnnahme DEF Grenze
<1> QED BY <1>2, <1>4, <1>5, <1>6

(* A call leaves a book behind, and no order in it is greater than before. *)
LEMMA DanachBuch ==
    ASSUME NEW R, Buch(R), NEW a, AuftragTyp(a), ~Abzulehnen(R, a), NEW n, \A r \in R : r.oid # n
    PROVE  /\ Buch(Danach(R, a, n))
           /\ \A x \in Danach(R, a, n) :
                 \/ \E r \in R : x.oid = r.oid /\ x.seite = r.seite /\ x.menge <= r.menge
                 \/ x.oid = n /\ x.seite = a.seite /\ x.menge <= a.menge
<1> DEFINE W == {z \in R : Abgang(R, a, z) # z.menge}
           u == [r \in R |-> Uebrig(R, a, r)]
           Y == {u[r] : r \in W}
           Z == Neue(R, a, n)
<1>0. a.menge \in Nat /\ a.seite \in SEITE
  BY DEF AuftragTyp
<1>1. Danach(R, a, n) = Y \cup Z
  <2>1. Y = {Uebrig(R, a, r) : r \in W}
    OBVIOUS
  <2> HIDE DEF Y
  <2> QED BY <1>0, <2>1, DanachIst
<1>2. IsFiniteSet(Y)
  <2>1. IsFiniteSet(W)
    BY FS_Subset DEF Buch
  <2> HIDE DEF W, u
  <2> QED BY <2>1, BildEndlich
<1>3. ASSUME NEW r \in W
      PROVE  /\ DOMAIN u[r] = FELDER /\ Satz(u[r])
             /\ u[r].oid = r.oid /\ u[r].seite = r.seite /\ u[r].tick = r.tick
             /\ u[r].menge \in Nat \ {0} /\ u[r].menge <= r.menge
  <2>1. r \in R /\ r.menge \in Nat /\ Abgang(R, a, r) \in 0 .. r.menge /\ Abgang(R, a, r) # r.menge
    BY <1>0, AbgangTyp DEF Buch
  <2>2. u[r] = Uebrig(R, a, r)
    BY <2>1
  <2> HIDE DEF u, W
  <2>3. /\ DOMAIN u[r] = FELDER /\ Satz(u[r])
        /\ u[r].oid = r.oid /\ u[r].seite = r.seite /\ u[r].tick = r.tick
        /\ u[r].menge = r.menge - Abgang(R, a, r)
    BY <1>0, <2>1, <2>2, UebrigFelder
  <2> QED BY <2>1, <2>3
<1>4. IsFiniteSet(Z)
  BY FS_Singleton, FS_EmptySet DEF Neue
<1>5. ASSUME NEW x \in Z
      PROVE  /\ DOMAIN x = FELDER /\ Satz(x) /\ x.oid = n /\ x.seite = a.seite
             /\ x.tick \in 0 .. TICKS - 1 /\ x.menge \in Nat \ {0} /\ x.menge <= a.menge
  <2>1. Ruhend(R, a) > 0 /\ x = [oid |-> n, seite |-> a.seite, tick |-> Grenze(a), menge |-> Rest(R, a)]
    BY DEF Neue
  <2>2. Rest(R, a) \in 0 .. a.menge /\ Rest(R, a) > 0 /\ Grenze(a) \in 0 .. TICKS - 1
    BY <2>1, RestTyp
  <2> QED BY <1>0, <2>1, <2>2 DEF FELDER, Satz
<1>6. \A x, y \in Z : x = y
  BY DEF Neue
<1>7. W \subseteq R
  OBVIOUS
<1>8. \A x \in Y : \E r \in W : x = u[r]
  OBVIOUS
<1> HIDE DEF W, u, Y, Z
<1>9. IsFiniteSet(Y \cup Z)
  BY <1>2, <1>4, FS_Union
<1>10. ASSUME NEW x \in Y \cup Z
       PROVE  /\ DOMAIN x = FELDER /\ Satz(x)
              /\ x.seite \in SEITE /\ x.tick \in 0 .. TICKS - 1 /\ x.menge \in Nat \ {0}
              /\ \/ \E r \in R : x.oid = r.oid /\ x.seite = r.seite /\ x.menge <= r.menge
                 \/ x.oid = n /\ x.seite = a.seite /\ x.menge <= a.menge
  <2>1. CASE x \in Z
    BY <1>0, <1>5, <2>1
  <2>2. CASE x \in Y
    <3>1. PICK r \in W : x = u[r]
      BY <1>8, <2>2
    <3>2. r \in R /\ r.seite \in SEITE /\ r.tick \in 0 .. TICKS - 1
      BY <1>7 DEF Buch
    <3> QED BY <1>3, <3>1, <3>2
  <2> QED BY <2>1, <2>2
<1>11. ASSUME NEW x \in Y \cup Z, NEW y \in Y \cup Z, x.oid = y.oid
       PROVE  x = y
  <2>1. CASE x \in Z /\ y \in Z
    BY <1>6, <2>1
  <2>2. CASE x \in Y /\ y \in Y
    <3>1. PICK r \in W : x = u[r]
      BY <1>8, <2>2
    <3>2. PICK q \in W : y = u[q]
      BY <1>8, <2>2
    <3>3. r.oid = q.oid
      BY <1>3, <1>11, <3>1, <3>2
    <3>4. r = q
      BY <1>7, <3>3 DEF Buch
    <3> QED BY <3>1, <3>2, <3>4
  <2>3. \A z \in Y : z.oid # n
    <3> SUFFICES ASSUME NEW z \in Y PROVE z.oid # n
      OBVIOUS
    <3>1. PICK r \in W : z = u[r]
      BY <1>8
    <3> QED BY <1>3, <1>7, <3>1
  <2>4. \A z \in Z : z.oid = n
    BY <1>5
  <2> QED BY <1>11, <2>1, <2>2, <2>3, <2>4
<1> QED BY <1>1, <1>9, <1>10, <1>11 DEF Buch

(* The orders of one side with a number in E.                              *)
Darin(R, E, s) == {r \in R : r.oid \in E /\ r.seite = s}

(* What they lose is what the taker takes from them.                       *)
LEMMA SummeDanach ==
    ASSUME NEW R, Buch(R), NEW a, AuftragTyp(a), ~Abzulehnen(R, a),
           NEW n, \A r \in R : r.oid # n, NEW E, n \notin E, NEW s
    PROVE  Summe(Darin(Danach(R, a, n), E, s))
              = Summe(Darin(R, E, s)) - SumFunctionOnSet([r \in R |-> Abgang(R, a, r)], Darin(R, E, s))
<1> DEFINE X == {r \in R : r.oid \in E /\ r.seite = s}
           Y == {r \in Danach(R, a, n) : r.oid \in E /\ r.seite = s}
           m == [r \in R |-> r.menge]
           b == [r \in R |-> Abgang(R, a, r)]
           f == [r \in R |-> r.menge - Abgang(R, a, r)]
           u == [r \in R |-> Uebrig(R, a, r)]
           h == [x \in Y |-> x.menge]
<1>0. a.menge \in Nat
  BY DEF AuftragTyp
<1>1. ASSUME NEW r \in X
      PROVE  /\ r \in R /\ r.menge \in Nat /\ r.menge # 0 /\ m[r] = r.menge /\ m[r] \in Int
             /\ b[r] \in 0 .. r.menge /\ b[r] \in Int /\ b[r] = Abgang(R, a, r)
             /\ f[r] = m[r] - b[r] /\ f[r] \in Int
             /\ u[r] = Uebrig(R, a, r)
             /\ u[r].oid = r.oid /\ u[r].seite = s /\ u[r].menge = f[r]
  <2>1. r \in R /\ r.seite = s /\ r.menge \in Nat /\ r.menge # 0 /\ Abgang(R, a, r) \in 0 .. r.menge
    BY <1>0, AbgangTyp DEF Buch
  <2>2. /\ Uebrig(R, a, r).oid = r.oid /\ Uebrig(R, a, r).seite = r.seite
        /\ Uebrig(R, a, r).menge = r.menge - Abgang(R, a, r)
    BY <1>0, <2>1, UebrigFelder
  <2>3. m[r] = r.menge /\ b[r] = Abgang(R, a, r) /\ f[r] = r.menge - Abgang(R, a, r)
        /\ u[r] = Uebrig(R, a, r)
    BY <2>1
  <2> HIDE DEF m, b, f, u
  <2> QED BY <2>1, <2>2, <2>3
<1>2. Y = {u[r] : r \in {z \in X : f[z] # 0}}
  <2>1. \A x \in Neue(R, a, n) : x.oid \notin E
    BY DEF Neue
  <2>2. Danach(R, a, n) = {Uebrig(R, a, r) : r \in {z \in R : Abgang(R, a, z) # z.menge}}
                             \cup Neue(R, a, n)
    BY <1>0, DanachIst
  <2>3. ASSUME NEW r \in X PROVE f[r] # 0 <=> Abgang(R, a, r) # r.menge
    <3> HIDE DEF X, m, b, f, u
    <3> QED BY <1>1
  <2>4. ASSUME NEW r \in R, Uebrig(R, a, r).oid \in E, Uebrig(R, a, r).seite = s
        PROVE  r \in X
    BY <1>0, <2>4, UebrigFelder
  <2>5. \A x \in Y : \E r \in X : x = u[r] /\ f[r] # 0
    <3> SUFFICES ASSUME NEW x \in Y PROVE \E r \in X : x = u[r] /\ f[r] # 0
      OBVIOUS
    <3>1. x \in Danach(R, a, n) /\ x.oid \in E /\ x.seite = s
      OBVIOUS
    <3> HIDE DEF X, Y, f, u, m, b, h
    <3>2. PICK r \in R : x = Uebrig(R, a, r) /\ Abgang(R, a, r) # r.menge
      BY <2>1, <2>2, <3>1
    <3>3. r \in X
      BY <2>4, <3>1, <3>2
    <3> QED BY <1>1, <2>3, <3>2, <3>3
  <2>6. \A r \in X : f[r] # 0 => u[r] \in Y
    <3> SUFFICES ASSUME NEW r \in X, f[r] # 0 PROVE u[r] \in Y
      OBVIOUS
    <3>1. r.oid \in E /\ r \in R
      OBVIOUS
    <3> HIDE DEF X, f, u, m, b, h
    <3>2. u[r] = Uebrig(R, a, r) /\ Abgang(R, a, r) # r.menge /\ u[r].oid \in E /\ u[r].seite = s
      BY <1>1, <2>3, <3>1
    <3> QED BY <2>2, <3>1, <3>2
  <2> HIDE DEF X, Y, f, u, m, b, h
  <2> QED BY <2>5, <2>6
<1>3. IsFiniteSet(X)
  BY FS_Subset DEF Buch
<1>4. IsFiniteSet(Y) /\ \A x \in Y : x.menge \in Nat /\ h[x] = x.menge
  <2>1. Buch(Danach(R, a, n))
    BY DanachBuch
  <2> QED BY <2>1, FS_Subset DEF Buch
<1>5. \A r, q \in X : r.oid = q.oid => r = q
  BY DEF Buch
<1> HIDE DEF X, Y, m, b, f, u, h
<1>6. \A r \in X : f[r] # 0 => h[u[r]] = f[r]
  BY <1>1, <1>2, <1>4
<1>7. \A r, q \in X : f[r] # 0 /\ f[q] # 0 /\ u[r] = u[q] => r = q
  BY <1>1, <1>5
<1>8. Summe(Y) = SumFunctionOnSet(f, X)
  <2>1. SumFunctionOnSet(h, {u[r] : r \in {z \in X : f[z] # 0}}) = SumFunctionOnSet(f, X)
    BY <1>1, <1>3, <1>6, <1>7, SummeUmbenannt
  <2>2. Summe(Y) = SumFunctionOnSet(h, Y)
    BY <1>4, SummeVon
  <2> QED BY <1>2, <2>1, <2>2
<1>9. SumFunctionOnSet(f, X) = SumFunctionOnSet(m, X) - SumFunctionOnSet(b, X)
  BY <1>1, <1>3, SummeDifferenz
<1>10. Summe(X) = SumFunctionOnSet(m, X)
  BY <1>1, <1>3, SummeVon
<1>11. Summe(Y) = Summe(X) - SumFunctionOnSet(b, X)
  BY <1>8, <1>9, <1>10
<1> QED BY <1>11 DEF X, Y, b, Darin

(* The execution against order r.                                          *)
Beleg(R, a, n, r) ==
    [tick |-> r.tick, menge |-> Gibt(R, a, r), nehmer |-> n, geber |-> r.oid,
     nehmer_kauft |-> a.seite = "kauf"]

(* The executions of A against orders of X.                                *)
Gegen(A, X) == {x \in A : \E r \in X : x.geber = r.oid}

(* They are what the taker takes from them.  *)
LEMMA SummeAusgefuehrt ==
    ASSUME NEW R, Buch(R), NEW a, a.menge \in Nat, NEW n, NEW X \in SUBSET R
    PROVE  LET A == Ausfuehrungen(R, a, n)
           IN  /\ IsFiniteSet(A) /\ \A x \in A : x.menge \in Nat
               /\ Summe(Gegen(A, X))
                    = SumFunctionOnSet([r \in R |-> Abgang(R, a, r)], X)
<1> DEFINE A == Ausfuehrungen(R, a, n)
           Y == {x \in A : \E r \in X : x.geber = r.oid}
           b == [r \in R |-> Abgang(R, a, r)]
           e == [r \in R |-> Beleg(R, a, n, r)]
           h == [x \in A |-> x.menge]
           W == {z \in R : b[z] # 0}
<1>1. ASSUME NEW r \in R
      PROVE  /\ b[r] \in Nat /\ b[r] = Abgang(R, a, r) /\ e[r].geber = r.oid
             /\ b[r] # 0 => e[r].menge = b[r]
  <2>1. Abgang(R, a, r) \in 0 .. r.menge /\ r.menge \in Nat
    BY AbgangTyp DEF Buch
  <2> QED BY <2>1 DEF Abgang, Beleg
<1>2. A = {e[r] : r \in W}
  <2>1. Erreichbar(R, a) \subseteq R
    BY DEF Erreichbar
  <2>2. ASSUME NEW r \in R PROVE b[r] # 0 <=> r \in Erreichbar(R, a) /\ Gibt(R, a, r) > 0
    <3>1. Gibt(R, a, r) \in Nat /\ b[r] = Abgang(R, a, r)
      <4>1. Gibt(R, a, r) \in 0 .. r.menge /\ r.menge \in Nat
        BY AbgangTyp DEF Buch
      <4> QED BY <4>1
    <3> HIDE DEF b
    <3> QED BY <3>1 DEF Abgang
  <2> DEFINE V == {z \in Erreichbar(R, a) : Gibt(R, a, z) > 0}
  <2>3. V = W
    <3> HIDE DEF b
    <3> QED BY <2>1, <2>2
  <2>4. A = {Beleg(R, a, n, r) : r \in V}
    BY DEF Ausfuehrungen, Beleg
  <2>5. \A r \in W : e[r] = Beleg(R, a, n, r)
    OBVIOUS
  <2> HIDE DEF W, V, A, e, b
  <2> QED BY <2>3, <2>4, <2>5
<1>3. W \subseteq R /\ IsFiniteSet(W) /\ \A r \in R : r \in W <=> b[r] # 0
  BY FS_Subset DEF Buch
<1>4. \A r, q \in R : r.oid = q.oid => r = q
  BY DEF Buch
<1>5. \A x \in A : h[x] = x.menge
  OBVIOUS
<1>6. IsFiniteSet(X)
  BY FS_Subset DEF Buch
<1> HIDE DEF A, W, b, e, h
<1>7. IsFiniteSet(A)
  BY <1>2, <1>3, BildEndlich
<1>8. \A x \in A : \E r \in W : x = e[r] /\ x.menge = b[r] /\ x.menge \in Nat /\ x.geber = r.oid
  BY <1>1, <1>2, <1>3
<1>9. Y = {e[r] : r \in {z \in X : b[z] # 0}}
  <2>1. \A r \in R : b[r] # 0 => e[r] \in A
    BY <1>2, <1>3
  <2>2. \A r \in X : b[r] # 0 => e[r] \in Y
    BY <1>1, <2>1
  <2>3. \A x \in Y : \E r \in X : x = e[r] /\ b[r] # 0
    <3> SUFFICES ASSUME NEW x \in Y PROVE \E r \in X : x = e[r] /\ b[r] # 0
      OBVIOUS
    <3>1. PICK r \in W : x = e[r] /\ x.geber = r.oid
      BY <1>8
    <3>2. PICK q \in X : x.geber = q.oid
      OBVIOUS
    <3>3. r = q
      BY <1>3, <1>4, <3>1, <3>2
    <3> QED BY <1>3, <3>1, <3>2, <3>3
  <2> HIDE DEF Y
  <2> QED BY <2>2, <2>3
<1>10. IsFiniteSet(Y) /\ \A x \in Y : x.menge \in Nat /\ h[x] = x.menge
  BY <1>5, <1>7, <1>8, FS_Subset
<1> HIDE DEF Y
<1>11. Summe(Y) = SumFunctionOnSet(b, X)
  <2>1. SumFunctionOnSet(h, {e[r] : r \in {z \in X : b[z] # 0}}) = SumFunctionOnSet(b, X)
    <3>1. \A r \in X : b[r] \in Int
      BY <1>1
    <3>2. \A r \in X : b[r] # 0 => h[e[r]] = b[r]
      BY <1>1, <1>9, <1>10
    <3>3. \A r, q \in X : b[r] # 0 /\ b[q] # 0 /\ e[r] = e[q] => r = q
      BY <1>1, <1>4
    <3> QED BY <1>6, <3>1, <3>2, <3>3, SummeUmbenannt
  <2>2. Summe(Y) = SumFunctionOnSet(h, Y)
    BY <1>10, SummeVon
  <2> QED BY <1>9, <2>1, <2>2
<1>12. \A x \in A : x.menge \in Nat
  BY <1>3, <1>8
<1> QED BY <1>7, <1>11, <1>12 DEF A, Y, b, Gegen
-----------------------------------------------------------------------------
(* The book is one, and a level has no more than a full order in it.       *)
OrderInv ==
    /\ Buch(ruhend)
    /\ \A r \in ruhend : r.oid \in eigene => r.menge <= ORDER_GROESSE

(* The loops go through the levels from below, and know the dividing line: *)
(* what is to be sold above it is in the inventory.                        *)
LaufInv ==
    /\ lauf \in {"stellen", "aktualisieren", "ruht"} /\ grenze \in 0 .. N_ORDERS
    /\ seit \in 0 .. TAKT_SEKUNDEN
    /\ basis_bestand \in Nat /\ quote_bestand \in Nat
    /\ lauf = "ruht" => dran = 1
    /\ lauf = "stellen" => \A i \in STUFEN : ist_kauf[i] = (i <= grenze)
    /\ lauf = "aktualisieren" => \A i \in STUFEN : i < dran => ist_kauf[i] = (i <= grenze)
    /\ lauf # "ruht" => (N_ORDERS - grenze) * ORDER_GROESSE <= basis_bestand

(* Inductive together with IInv.                                           *)
HInv == OrderInv /\ LaufInv /\ VerkaufGedeckt

(* The calls of other traders and of the ladder are well formed.           *)
LEMMA FremdAuftrag == ASSUME NEW a \in AuftraegeUeber(FREMDMENGEN) PROVE AuftragTyp(a)
<1>1. \/ \E s \in SEITE, t \in 0 .. TICKS, q \in FREMDMENGEN, g \in GUELTIGKEIT :
            a = LimitAuftrag(s, t, q, g)
      \/ \E s \in SEITE, q \in FREMDMENGEN : a = MarktAuftrag(s, q)
  BY DEF AuftraegeUeber
<1>2. FREMDMENGEN \subseteq Nat /\ 0 .. TICKS \subseteq Nat
  BY FremdAnnahme, BreiteAnnahme
<1>3. ASSUME NEW s \in SEITE, NEW t \in 0 .. TICKS, NEW q \in FREMDMENGEN, NEW g \in GUELTIGKEIT,
             a = LimitAuftrag(s, t, q, g)
      PROVE  AuftragTyp(a)
  BY <1>2, <1>3 DEF LimitAuftrag, AuftragTyp
<1>4. ASSUME NEW s \in SEITE, NEW q \in FREMDMENGEN, a = MarktAuftrag(s, q)
      PROVE  AuftragTyp(a)
  BY <1>2, <1>4 DEF MarktAuftrag, AuftragTyp
<1> QED BY <1>1, <1>3, <1>4

LEMMA LeiterAuftrag ==
    ASSUME PreisePassen, NEW i \in STUFEN, NEW kauf \in BOOLEAN
    PROVE  LET a == StufenAuftrag(i, kauf)
           IN  /\ AuftragTyp(a) /\ a.menge = ORDER_GROESSE /\ a.seite = SeiteVon(kauf)
               /\ a.art = "limit" /\ a.gueltigkeit = "NurLegen" /\ a.tick = preise[i]
<1>1. preise[i] % U32 = preise[i] /\ preise[i] \in Nat
  BY BreiteAnnahme DEF PreisePassen
<1> DEFINE a == StufenAuftrag(i, kauf)
<1>2. /\ a.art = "limit" /\ a.gueltigkeit = "NurLegen" /\ a.seite = SeiteVon(kauf)
      /\ a.tick = preise[i] /\ a.menge = ORDER_GROESSE
  BY <1>1 DEF StufenAuftrag, LimitAuftrag
<1>3. a.seite \in SEITE /\ ORDER_GROESSE \in Nat
  BY <1>2, LeiterAnnahme DEF SeiteVon, SEITE
<1> HIDE DEF a
<1>4. AuftragTyp(a)
  BY <1>1, <1>2, <1>3 DEF AuftragTyp
<1> QED BY <1>2, <1>4 DEF a

(* The orders of R that levels know by L, and that buy by K, or sell.      *)
AufStufen(R, L, K, kauf) ==
    UNION {{r \in R : r.oid = L[i]} : i \in {j \in STUFEN : K[j] = kauf}}

(* The numbers L of the levels are those of the ladder's orders in R, and  *)
(* each order is on the side K of its level.                               *)
Geordnet(R, E, L, K) ==
    /\ \A i \in STUFEN : K[i] \in BOOLEAN
    /\ \A r \in R : r.oid \in E <=> \E i \in STUFEN : L[i] = r.oid
    /\ \A i \in STUFEN : \A r \in R : r.oid = L[i] => r.seite = SeiteVon(K[i])

(* Then the orders of the levels that buy are the ladder's orders that buy.*)
LEMMA EigeneVon ==
    ASSUME NEW R, NEW E, NEW L, NEW K, Geordnet(R, E, L, K), NEW kauf \in BOOLEAN
    PROVE  /\ AufStufen(R, L, K, kauf) = Darin(R, E, SeiteVon(kauf))
           /\ \A r \in Darin(R, E, SeiteVon(kauf)) : \E i \in STUFEN : L[i] = r.oid /\ K[i] = kauf
<1>1. \A k \in BOOLEAN : SeiteVon(k) = SeiteVon(kauf) => k = kauf
  BY DEF SeiteVon
<1>2. ASSUME NEW r \in R, r.oid \in E, r.seite = SeiteVon(kauf)
      PROVE  \E i \in STUFEN : L[i] = r.oid /\ K[i] = kauf
  <2>1. PICK i \in STUFEN : L[i] = r.oid
    BY <1>2 DEF Geordnet
  <2>2. SeiteVon(K[i]) = SeiteVon(kauf) /\ K[i] \in BOOLEAN
    BY <1>2, <2>1 DEF Geordnet
  <2> QED BY <1>1, <2>1, <2>2
<1>3. AufStufen(R, L, K, kauf) \subseteq Darin(R, E, SeiteVon(kauf))
  BY DEF AufStufen, Darin, Geordnet
<1>4. Darin(R, E, SeiteVon(kauf)) \subseteq AufStufen(R, L, K, kauf)
  BY <1>2 DEF AufStufen, Darin
<1> QED BY <1>2, <1>3, <1>4 DEF Darin

(* The ladder's orders by level and side, as the invariant has them.       *)
LEMMA EigeneSind ==
    ASSUME IInv
    PROVE  /\ Geordnet(ruhend, eigene, liegend, ist_kauf)
           /\ \A kauf \in BOOLEAN : Eigene(kauf) = Darin(ruhend, eigene, SeiteVon(kauf))
<1>1. Geordnet(ruhend, eigene, liegend, ist_kauf)
  BY DEF IInv, Zuordnung, OrderVon, Geordnet
<1>2. \A kauf \in BOOLEAN : Eigene(kauf) = AufStufen(ruhend, liegend, ist_kauf, kauf)
  BY DEF Eigene, AufStufen, OrderVon
<1> QED BY <1>1, <1>2, EigeneVon

LEMMA EigeneSindDanach ==
    ASSUME IInv'
    PROVE  /\ Geordnet(ruhend', eigene', liegend', ist_kauf')
           /\ \A kauf \in BOOLEAN : Eigene(kauf)' = Darin(ruhend', eigene', SeiteVon(kauf))
<1>1. Geordnet(ruhend', eigene', liegend', ist_kauf')
  BY DEF IInv, Zuordnung, OrderVon, Geordnet
<1>2. \A kauf \in BOOLEAN : Eigene(kauf)' = AufStufen(ruhend', liegend', ist_kauf', kauf)
  BY DEF Eigene, AufStufen, OrderVon
<1> QED BY <1>1, <1>2, EigeneVon

(* Orders of levels above k, none of them more than full, fill no more     *)
(* than those levels.                                                      *)
LEMMA Deckel ==
    ASSUME NEW X, IsFiniteSet(X), \A r \in X : r.menge \in Nat /\ r.menge <= ORDER_GROESSE,
           \A r, q \in X : r.oid = q.oid => r = q,
           NEW k \in 0 .. N_ORDERS, NEW L, \A r \in X : \E i \in k + 1 .. N_ORDERS : L[i] = r.oid
    PROVE  Summe(X) <= (N_ORDERS - k) * ORDER_GROESSE
<1> DEFINE T == k + 1 .. N_ORDERS
           g == [r \in X |-> CHOOSE i \in T : L[i] = r.oid]
           m == [r \in X |-> r.menge]
           c == Cardinality(X)
<1>1. \A r \in X : g[r] \in T /\ L[g[r]] = r.oid
  OBVIOUS
<1>2. N_ORDERS \in Nat /\ ORDER_GROESSE \in Nat /\ k \in Nat /\ k <= N_ORDERS
  BY LeiterAnnahme
<1>3. IsFiniteSet(T) /\ Cardinality(T) = N_ORDERS - k
  <2>1. IsFiniteSet(T) /\ Cardinality(T) = IF k + 1 > N_ORDERS THEN 0 ELSE N_ORDERS - (k + 1) + 1
    BY <1>2, FS_Interval
  <2> HIDE DEF T
  <2> QED BY <1>2, <2>1
<1>4. g \in Injection(X, T)
  <2>1. g \in [X -> T]
    BY <1>1
  <2>2. \A r, q \in X : g[r] = g[q] => r = q
    BY <1>1
  <2> HIDE DEF g, T
  <2> QED BY <2>1, <2>2 DEF Injection, IsInjective
<1>5. \A r \in X : m[r] = r.menge /\ m[r] \in Int /\ m[r] <= ORDER_GROESSE
  OBVIOUS
<1> HIDE DEF T, g, m
<1>6. c <= N_ORDERS - k /\ c \in Nat
  BY <1>3, <1>4, FS_Injection, FS_CardinalityType
<1>7. Summe(X) = SumFunctionOnSet(m, X) /\ Summe(X) \in Nat
  BY <1>5, SummeVon
<1>8. SumFunctionOnSet(m, X) <= c * ORDER_GROESSE
  BY <1>2, <1>5, SummeHoechstens
<1> HIDE DEF c
<1>9. /\ c * ORDER_GROESSE <= (N_ORDERS - k) * ORDER_GROESSE
      /\ c * ORDER_GROESSE \in Int /\ (N_ORDERS - k) * ORDER_GROESSE \in Int
  <2> DEFINE d == N_ORDERS - k
  <2>1. d \in Nat /\ c <= d
    BY <1>2, <1>6
  <2> HIDE DEF d
  <2>2. c * ORDER_GROESSE <= d * ORDER_GROESSE /\ c * ORDER_GROESSE \in Nat /\ d * ORDER_GROESSE \in Nat
    BY <1>2, <1>6, <2>1, MalMonoton
  <2> QED BY <2>2 DEF d
<1> QED BY <1>7, <1>8, <1>9

(* The order of a level is all that stufe_stellen adds to a book R that    *)
(* keeps some of the orders.                                               *)
LEMMA LegenBuch ==
    ASSUME PreisePassen, IInv, OrderInv, NEW R \in SUBSET ruhend, NEW i \in STUFEN,
           NEW kauf \in BOOLEAN, StufeLegen(R, i, kauf)
    PROVE  /\ OrderInv'
           /\ \A x \in ruhend' : x \in R \/ (x.oid = naechste_oid /\ x.seite = SeiteVon(kauf))
           /\ eigene \subseteq eigene' /\ eigene' \subseteq eigene \cup {naechste_oid}
<1> DEFINE a == StufenAuftrag(i, kauf)
           n == naechste_oid
<1>1. Buch(R) /\ (\A r \in R : r.oid # n) /\ \A r \in R : r.oid \in eigene => r.menge <= ORDER_GROESSE
  BY NummerNeu, FS_Subset DEF OrderInv, Buch
<1>2. AuftragTyp(a) /\ a.menge = ORDER_GROESSE /\ a.seite = SeiteVon(kauf)
      /\ a.art = "limit" /\ a.gueltigkeit = "NurLegen"
  BY LeiterAuftrag
<1> HIDE DEF a
<1>3. CASE Abzulehnen(R, a)
  <2>1. ruhend' = R /\ eigene' = eigene
    BY <1>3 DEF StufeLegen, a
  <2> QED BY <1>1, <2>1 DEF OrderInv
<1>4. CASE ~Abzulehnen(R, a)
  <2>1. ruhend' = Danach(R, a, n) /\ eigene' = eigene \cup {n}
    BY <1>4 DEF StufeLegen, a
  <2>2. Erreichbar(R, a) = {}
    BY <1>2, <1>4 DEF Abzulehnen
  <2>3. \A x \in ruhend' : x \in R \/ (x.oid = n /\ x.seite = SeiteVon(kauf) /\ x.menge = Rest(R, a))
    <3>1. \A x \in Danach(R, a, n) : x \in R \/ x \in Neue(R, a, n)
      BY <2>2 DEF Danach, Neue
    <3>2. \A x \in Neue(R, a, n) : x.oid = n /\ x.seite = SeiteVon(kauf) /\ x.menge = Rest(R, a)
      BY <1>2 DEF Neue
    <3> QED BY <2>1, <3>1, <3>2
  <2>4. Buch(ruhend')
    BY <1>1, <1>2, <1>4, <2>1, DanachBuch
  <2>5. Rest(R, a) <= ORDER_GROESSE
    <3>1. Rest(R, a) \in 0 .. a.menge
      BY <1>1, <1>2, <1>4, RestTyp
    <3> QED BY <1>2, <3>1, LeiterAnnahme
  <2>6. \A x \in ruhend' : x.oid \in eigene' => x.menge <= ORDER_GROESSE
    BY <1>1, <2>1, <2>3, <2>5
  <2> QED BY <2>1, <2>3, <2>4, <2>6 DEF OrderInv
<1> QED BY <1>3, <1>4
-----------------------------------------------------------------------------
(* What the executions of a call are worth is a natural number.            *)
LEMMA WertTyp ==
    ASSUME PreisePassen, NEW A, IsFiniteSet(A), \A x \in A : x.menge \in Nat, NEW kauf
    PROVE  WertVon(A, kauf) \in Nat
<1> DEFINE S == {j \in STUFEN : ist_kauf[j] = kauf}
           w == [i \in S |-> preise[i] * Summe(Getroffen(A, i))]
<1>1. IsFiniteSet(S)
  <2>1. IsFiniteSet(STUFEN)
    BY FS_Interval, LeiterAnnahme DEF STUFEN
  <2> QED BY <2>1, FS_Subset
<1>2. ASSUME NEW i \in S PROVE w[i] \in Nat
  <2>1. IsFiniteSet(Getroffen(A, i)) /\ \A x \in Getroffen(A, i) : x.menge \in Nat
    BY FS_Subset DEF Getroffen
  <2>2. Summe(Getroffen(A, i)) \in Nat
    BY <2>1, SummeVon
  <2>3. preise[i] \in Nat
    BY BreiteAnnahme DEF PreisePassen
  <2>4. \A p, q \in Nat : p * q \in Nat
    OBVIOUS
  <2> QED BY <2>2, <2>3, <2>4
<1>3. WertVon(A, kauf) = SumFunctionOnSet(w, S)
  BY DEF WertVon, SumFunction
<1> HIDE DEF S, w
<1> QED BY <1>1, <1>2, <1>3, SummeNat

(* What the ladder's orders lose to a call of another trader is what is    *)
(* booked: on the side they are on, each execution once.                   *)
LEMMA HandelnSchritt ==
    ASSUME PreisePassen, IInv, HInv, NEW a \in AuftraegeUeber(FREMDMENGEN), Handeln(a)
    PROVE  /\ OrderInv' /\ basis_bestand' \in Nat /\ quote_bestand' \in Nat /\ VerkaufGedeckt'
           /\ basis_bestand' = basis_bestand
                                 + (RestVon(ruhend, "kauf") - RestVon(ruhend', "kauf"))
                                 - (RestVon(ruhend, "verkauf") - RestVon(ruhend', "verkauf"))
<1> DEFINE n == naechste_oid
           A == Ausfuehrungen(ruhend, a, n)
           X(s) == Darin(ruhend, eigene, s)
           b == [r \in ruhend |-> Abgang(ruhend, a, r)]
           B(s) == SumFunctionOnSet(b, X(s))
<1>1. /\ AuftragTyp(a) /\ a.menge \in Nat /\ Buch(ruhend) /\ n \notin eigene
      /\ \A r \in ruhend : r.oid # n
      /\ ~Abzulehnen(ruhend, a)
  BY FremdAuftrag, NummerNeu DEF AuftragTyp, HInv, OrderInv, Handeln
<1>2. /\ ruhend' = Danach(ruhend, a, n) /\ eigene' = eigene
      /\ UNCHANGED <<liegend, ist_kauf>>
      /\ basis_bestand' = saturating_sub(basis_bestand + MengeVon(A, TRUE), MengeVon(A, FALSE))
      /\ quote_bestand' = saturating_sub(quote_bestand, WertVon(A, TRUE)) + WertVon(A, FALSE)
  BY DEF Handeln, BestandNach
<1>3. \A s : RestVon(ruhend', s) = RestVon(ruhend, s) - B(s)
  <2> SUFFICES ASSUME NEW s PROVE RestVon(ruhend', s) = RestVon(ruhend, s) - B(s)
    OBVIOUS
  <2>1. Summe(Darin(Danach(ruhend, a, n), eigene, s)) = Summe(Darin(ruhend, eigene, s)) - B(s)
    BY <1>1, SummeDanach
  <2> HIDE DEF n, B, b
  <2> QED BY <1>2, <2>1 DEF RestVon, Darin
<1>4. /\ IsFiniteSet(A) /\ (\A x \in A : x.menge \in Nat)
      /\ \A x \in A : \E r \in ruhend : x.geber = r.oid
  <2> DEFINE Y == ruhend
  <2>1. Y \in SUBSET ruhend
    OBVIOUS
  <2> HIDE DEF Y
  <2>2. IsFiniteSet(A)
    BY <1>1, <2>1, SummeAusgefuehrt
  <2>3. \A x \in A : x.menge \in Nat
    BY <1>1, <2>1, SummeAusgefuehrt
  <2>4. \A x \in A : \E r \in ruhend : x.geber = r.oid
    BY DEF Ausfuehrungen, Erreichbar
  <2> QED BY <2>2, <2>3, <2>4
<1>5. \A s : Summe(Gegen(A, X(s))) = B(s)
  <2> SUFFICES ASSUME NEW s PROVE Summe(Gegen(A, X(s))) = B(s)
    OBVIOUS
  <2> DEFINE Y == X(s)
  <2>1. Y \in SUBSET ruhend
    BY DEF Darin
  <2> HIDE DEF Y
  <2>2. Summe(Gegen(A, Y)) = SumFunctionOnSet(b, Y)
    BY <1>1, <2>1, SummeAusgefuehrt
  <2> QED BY <2>2 DEF Y
<1>6. \A s : IsFiniteSet(X(s)) /\ \A r \in X(s) : b[r] \in Nat /\ r.menge \in Nat
  <2> SUFFICES ASSUME NEW s PROVE IsFiniteSet(X(s)) /\ \A r \in X(s) : b[r] \in Nat /\ r.menge \in Nat
    OBVIOUS
  <2>1. IsFiniteSet(X(s))
    BY <1>1, FS_Subset DEF Buch, Darin
  <2>2. \A r \in ruhend : Abgang(ruhend, a, r) \in 0 .. r.menge /\ r.menge \in Nat
    BY <1>1, AbgangTyp DEF Buch
  <2> QED BY <2>1, <2>2 DEF Darin
<1>7. Geordnet(ruhend, eigene, liegend, ist_kauf)
  BY EigeneSind
<1>8. ASSUME NEW kauf \in BOOLEAN
      PROVE  MengeVon(A, kauf) = B(SeiteVon(kauf))
  <2> DEFINE Y == X(SeiteVon(kauf))
             Z == UNION {Getroffen(A, i) : i \in {j \in STUFEN : ist_kauf[j] = kauf}}
  <2>1. \A r \in Y : \E i \in STUFEN : liegend[i] = r.oid /\ ist_kauf[i] = kauf
    BY <1>7, EigeneVon
  <2>2. Z = Gegen(A, Y)
    <3>1. ASSUME NEW i \in STUFEN, ist_kauf[i] = kauf, NEW x \in Getroffen(A, i)
          PROVE  x \in A /\ \E r \in Y : x.geber = r.oid
      <4>1. x \in A /\ x.geber = liegend[i]
        BY DEF Getroffen
      <4>2. PICK r \in ruhend : x.geber = r.oid
        BY <1>4, <4>1
      <4>3. r \in Y
        BY <1>7, <3>1, <4>1, <4>2 DEF Geordnet, Darin
      <4> QED BY <4>1, <4>2, <4>3
    <3>2. ASSUME NEW x \in A, NEW r \in Y, x.geber = r.oid
          PROVE  x \in Z
      <4>1. PICK i \in STUFEN : liegend[i] = r.oid /\ ist_kauf[i] = kauf
        BY <2>1
      <4>2. x \in Getroffen(A, i)
        BY <3>2, <4>1 DEF Getroffen
      <4> QED BY <4>1, <4>2
    <3> HIDE DEF A, Y
    <3> QED BY <3>1, <3>2 DEF Gegen
  <2>3. MengeVon(A, kauf) = Summe(Z)
    BY DEF MengeVon
  <2>4. Summe(Gegen(A, X(SeiteVon(kauf)))) = B(SeiteVon(kauf))
    BY <1>5
  <2> HIDE DEF A, Z, B, X
  <2> QED BY <2>2, <2>3, <2>4 DEF Y
<1>9. OrderInv'
  <2>1. /\ Buch(Danach(ruhend, a, n))
        /\ \A x \in Danach(ruhend, a, n) :
              \/ \E r \in ruhend : x.oid = r.oid /\ x.seite = r.seite /\ x.menge <= r.menge
              \/ x.oid = n /\ x.seite = a.seite /\ x.menge <= a.menge
    BY <1>1, DanachBuch
  <2>2. ASSUME NEW x \in Danach(ruhend, a, n), x.oid \in eigene PROVE x.menge <= ORDER_GROESSE
    <3>1. PICK r \in ruhend : x.oid = r.oid /\ x.menge <= r.menge
      BY <1>1, <2>1, <2>2
    <3>2. r.menge <= ORDER_GROESSE /\ r.menge \in Nat /\ x.menge \in Nat /\ ORDER_GROESSE \in Nat
      BY <2>1, <2>2, <3>1, LeiterAnnahme DEF HInv, OrderInv, Buch
    <3> QED BY <3>1, <3>2
  <2> QED BY <1>2, <2>1, <2>2 DEF OrderInv
<1>10. /\ B("kauf") \in Nat /\ B("verkauf") \in Nat
       /\ RestVon(ruhend, "kauf") \in Nat /\ RestVon(ruhend, "verkauf") \in Nat
       /\ RestVon(ruhend', "verkauf") \in Nat
  <2>1. \A s : B(s) \in Nat
    <3> SUFFICES ASSUME NEW s PROVE B(s) \in Nat
      OBVIOUS
    <3> DEFINE Y == X(s)
    <3>1. IsFiniteSet(Y) /\ \A r \in Y : b[r] \in Nat
      BY <1>6
    <3> HIDE DEF Y, b
    <3>2. SumFunctionOnSet(b, Y) \in Nat
      BY <3>1, SummeNat
    <3> QED BY <3>2 DEF Y
  <2>2. \A s : RestVon(ruhend, s) \in Nat
    BY <1>6, SummeVon DEF RestVon, Darin
  <2>3. RestVon(ruhend', "verkauf") \in Nat
    <3> DEFINE Y == {r \in ruhend' : r.oid \in eigene /\ r.seite = "verkauf"}
    <3>1. IsFiniteSet(Y) /\ \A r \in Y : r.menge \in Nat
      BY <1>9, FS_Subset DEF OrderInv, Buch
    <3> HIDE DEF Y
    <3>2. Summe(Y) \in Nat
      BY <3>1, SummeVon
    <3> QED BY <3>2 DEF Y, RestVon
  <2> QED BY <2>1, <2>2, <2>3
<1>11. RestVon(ruhend, "verkauf") <= basis_bestand
  <2>1. Eigene(FALSE) = Darin(ruhend, eigene, SeiteVon(FALSE))
    BY EigeneSind
  <2> QED BY <2>1 DEF HInv, VerkaufGedeckt, RestVon, SeiteVon, Darin
<1>12. MengeVon(A, TRUE) = B("kauf") /\ MengeVon(A, FALSE) = B("verkauf")
  <2>1. SeiteVon(TRUE) = "kauf" /\ SeiteVon(FALSE) = "verkauf"
    BY DEF SeiteVon
  <2>2. MengeVon(A, TRUE) = B(SeiteVon(TRUE)) /\ MengeVon(A, FALSE) = B(SeiteVon(FALSE))
    BY <1>8
  <2> HIDE DEF A, B
  <2> QED BY <2>1, <2>2
<1>13. WertVon(A, TRUE) \in Nat /\ WertVon(A, FALSE) \in Nat
  BY <1>4, WertTyp
<1>14. basis_bestand \in Nat /\ quote_bestand \in Nat
  BY DEF HInv, LaufInv
<1> DEFINE W1 == WertVon(A, TRUE)
           W2 == WertVon(A, FALSE)
           M1 == MengeVon(A, TRUE)
           M2 == MengeVon(A, FALSE)
<1>15. /\ basis_bestand' = saturating_sub(basis_bestand + M1, M2) /\ M1 = B("kauf") /\ M2 = B("verkauf")
       /\ quote_bestand' = saturating_sub(quote_bestand, W1) + W2 /\ W1 \in Nat /\ W2 \in Nat
  BY <1>2, <1>12, <1>13
<1> HIDE DEF n, A, X, b, B, W1, W2, M1, M2
<1>16. quote_bestand' \in Nat
  BY <1>14, <1>15 DEF saturating_sub
<1>17. basis_bestand' = basis_bestand + B("kauf") - B("verkauf")
  <2>1. B("verkauf") <= basis_bestand + B("kauf")
    BY <1>3, <1>10, <1>11, <1>14
  <2> QED BY <1>10, <1>14, <1>15, <2>1 DEF saturating_sub
<1>18. basis_bestand' \in Nat /\ RestVon(ruhend', "verkauf") <= basis_bestand'
  BY <1>3, <1>10, <1>11, <1>14, <1>17
<1>19. VerkaufGedeckt'
  <2>1. IInv'
    BY InvSchritt DEF Next
  <2>2. Eigene(FALSE)' = Darin(ruhend', eigene, "verkauf")
    BY <1>2, <2>1, EigeneSindDanach DEF SeiteVon
  <2> QED BY <1>18, <2>2 DEF VerkaufGedeckt, RestVon, Darin
<1>20. basis_bestand' = basis_bestand
                          + (RestVon(ruhend, "kauf") - RestVon(ruhend', "kauf"))
                          - (RestVon(ruhend, "verkauf") - RestVon(ruhend', "verkauf"))
  BY <1>3, <1>10, <1>14, <1>17
<1> QED BY <1>9, <1>16, <1>18, <1>19, <1>20

(* Above the dividing line there is no more to sell than the inventory; at *)
(* or below it the ladder only buys.  So placing a level keeps the sale    *)
(* covered.                                                                *)
LEMMA LegenGedeckt ==
    ASSUME PreisePassen, IInv, HInv, IInv', lauf # "ruht", basis_bestand' = basis_bestand,
           NEW R \in SUBSET ruhend,
           StufeLegen(R, dran, dran <= grenze),
           \A i \in STUFEN : i <= grenze /\ i < dran => ist_kauf[i],
           ist_kauf' = [ist_kauf EXCEPT ![dran] = dran <= grenze]
    PROVE  OrderInv' /\ VerkaufGedeckt'
<1> DEFINE kauf == dran <= grenze
           V == Darin(ruhend', eigene', "verkauf")
<1>0. /\ dran \in STUFEN /\ kauf \in BOOLEAN /\ ist_kauf \in [STUFEN -> BOOLEAN]
      /\ OrderInv /\ grenze \in 0 .. N_ORDERS
      /\ basis_bestand \in Nat
      /\ (N_ORDERS - grenze) * ORDER_GROESSE <= basis_bestand
  BY DEF IInv, HInv, LaufInv
<1>1. /\ OrderInv'
      /\ \A x \in ruhend' : x \in R \/ (x.oid = naechste_oid /\ x.seite = SeiteVon(kauf))
      /\ eigene \subseteq eigene' /\ eigene' \subseteq eigene \cup {naechste_oid}
  BY <1>0, LegenBuch
<1>2. Eigene(FALSE)' = V /\ Geordnet(ruhend', eigene', liegend', ist_kauf')
  BY EigeneSindDanach DEF SeiteVon
<1>3. IsFiniteSet(V) /\ (\A r \in V : r.menge \in Nat /\ r.menge <= ORDER_GROESSE)
      /\ \A r, q \in V : r.oid = q.oid => r = q
  BY <1>1, FS_Subset DEF OrderInv, Buch, Darin
<1>4. Summe(V) \in Nat
  <2> HIDE DEF V
  <2> QED BY <1>3, SummeVon
<1>5. Summe(V) <= basis_bestand
  <2>1. CASE kauf
    <3> DEFINE U == Darin(ruhend, eigene, "verkauf")
    <3>1. V \subseteq U
      <4>1. \A r \in ruhend : r.oid # naechste_oid
        BY NummerNeu
      <4>2. SeiteVon(kauf) # "verkauf"
        BY <2>1 DEF SeiteVon
      <4> QED BY <1>1, <4>1, <4>2 DEF Darin
    <3>2. IsFiniteSet(U) /\ \A r \in U : r.menge \in Nat
      BY <1>0, FS_Subset DEF OrderInv, Buch, Darin
    <3>3. Eigene(FALSE) = U
      BY EigeneSind DEF SeiteVon
    <3> HIDE DEF U, V
    <3>4. Summe(V) <= Summe(U) /\ Summe(U) \in Nat
      BY <3>1, <3>2, SummeWeniger, SummeVon
    <3>5. Summe(U) <= basis_bestand
      BY <3>3 DEF HInv, VerkaufGedeckt
    <3> QED BY <1>0, <1>4, <3>4, <3>5
  <2>2. CASE ~kauf
    <3>1. \A i \in STUFEN : i <= grenze => ist_kauf'[i] # FALSE
      <4> SUFFICES ASSUME NEW i \in STUFEN, i <= grenze PROVE ist_kauf'[i] # FALSE
        OBVIOUS
      <4>1. i < dran /\ i # dran
        BY <1>0, <2>2, LeiterAnnahme DEF STUFEN
      <4> QED BY <1>0, <4>1
    <3>2. ASSUME NEW r \in V PROVE \E i \in grenze + 1 .. N_ORDERS : liegend'[i] = r.oid
      <4> DEFINE nein == FALSE
                 B == ruhend'
                 F == eigene'
                 L == liegend'
                 K == ist_kauf'
      <4>1. V = Darin(B, F, SeiteVon(nein)) /\ Geordnet(B, F, L, K)
        BY <1>2 DEF SeiteVon
      <4>2. nein \in BOOLEAN /\ \A i \in STUFEN : i <= grenze => K[i] # nein
        BY <3>1
      <4> HIDE DEF V, nein, B, F, L, K
      <4>3. PICK i \in STUFEN : L[i] = r.oid /\ K[i] = nein
        BY <4>1, <4>2, EigeneVon
      <4>4. i \in grenze + 1 .. N_ORDERS
        <5>1. ~(i <= grenze)
          BY <4>2, <4>3
        <5> QED BY <1>0, <5>1, LeiterAnnahme DEF STUFEN
      <4> QED BY <4>3, <4>4 DEF L
    <3> DEFINE L == liegend'
               k == grenze
    <3>3. k \in 0 .. N_ORDERS /\ \A r \in V : \E i \in k + 1 .. N_ORDERS : L[i] = r.oid
      BY <1>0, <3>2
    <3> HIDE DEF L, k, V
    <3>4. Summe(V) <= (N_ORDERS - k) * ORDER_GROESSE
      BY <1>3, <3>3, Deckel
    <3>5. (N_ORDERS - k) * ORDER_GROESSE \in Int /\ (N_ORDERS - k) * ORDER_GROESSE <= basis_bestand
      <4>1. N_ORDERS \in Int /\ ORDER_GROESSE \in Int /\ k \in Int
        BY <1>0, LeiterAnnahme DEF k
      <4> QED BY <1>0, <4>1 DEF k
    <3> QED BY <1>0, <1>4, <3>4, <3>5
  <2> QED BY <1>0, <2>1, <2>2
<1> QED BY <1>1, <1>2, <1>5 DEF VerkaufGedeckt

(* The next level, and the bounds of the running loop.                     *)
LEMMA LaufWeiter ==
    ASSUME IInv, LaufInv, lauf \in {"stellen", "aktualisieren"}, NaechsteStufe,
           UNCHANGED <<bestand, seit, grenze>>, ist_kauf' \in [STUFEN -> BOOLEAN],
           lauf = "stellen" => ist_kauf' = ist_kauf,
           lauf = "aktualisieren" => ist_kauf' = [ist_kauf EXCEPT ![dran] = dran <= grenze]
    PROVE  LaufInv'
<1>1. /\ dran \in 1 .. N_ORDERS /\ N_ORDERS \in Nat
      /\ dran' = (IF dran = N_ORDERS THEN 1 ELSE dran + 1)
      /\ lauf' = (IF dran = N_ORDERS THEN "ruht" ELSE lauf)
  BY LeiterAnnahme DEF IInv, STUFEN, NaechsteStufe
<1>2. /\ grenze' = grenze /\ seit' = seit
      /\ basis_bestand' = basis_bestand /\ quote_bestand' = quote_bestand
  BY DEF bestand
<1>3. lauf' \in {"stellen", "aktualisieren", "ruht"} /\ (lauf' = "ruht" => dran' = 1)
  BY <1>1
<1>4. lauf' # "ruht" => lauf' = lauf /\ dran' = dran + 1
  BY <1>1
<1>5. lauf' = "stellen" => \A i \in STUFEN : ist_kauf'[i] = (i <= grenze')
  BY <1>2, <1>4 DEF LaufInv
<1>6. lauf' = "aktualisieren" => \A i \in STUFEN : i < dran' => ist_kauf'[i] = (i <= grenze')
  <2> SUFFICES ASSUME lauf' = "aktualisieren", NEW i \in STUFEN, i < dran'
               PROVE  ist_kauf'[i] = (i <= grenze)
    BY <1>2
  <2>1. lauf = "aktualisieren" /\ dran' = dran + 1
    BY <1>4
  <2>2. i \in 1 .. N_ORDERS
    BY DEF STUFEN
  <2>3. i < dran \/ i = dran
    BY <1>1, <2>1, <2>2
  <2> QED BY <2>1, <2>3 DEF LaufInv, IInv
<1> QED BY <1>2, <1>3, <1>4, <1>5, <1>6 DEF LaufInv

(* How many levels the inventory can fill, and that it fills them.         *)
LEMMA VerkaufStufenTyp ==
    ASSUME basis_bestand \in Nat
    PROVE  /\ VerkaufStufen \in 0 .. N_ORDERS
           /\ VerkaufStufen * ORDER_GROESSE <= basis_bestand
<1> DEFINE q == basis_bestand \div ORDER_GROESSE
           v == VerkaufStufen
<1>1. N_ORDERS \in Nat /\ ORDER_GROESSE \in Nat \ {0}
  BY LeiterAnnahme
<1>2. q \in Nat
  BY <1>1
<1>3. q * ORDER_GROESSE <= basis_bestand
  <2> DEFINE r == basis_bestand % ORDER_GROESSE
  <2>1. basis_bestand = q * ORDER_GROESSE + r /\ r \in 0 .. ORDER_GROESSE - 1
    BY <1>1, Teilung
  <2>2. q * ORDER_GROESSE \in Int
    BY <1>1, <1>2
  <2> HIDE DEF q, r
  <2> QED BY <1>1, <2>1, <2>2
<1>4. v = Min({q, N_ORDERS})
  BY DEF VerkaufStufen
<1> HIDE DEF q, v
<1>5. v = IF q <= N_ORDERS THEN q ELSE N_ORDERS
  BY <1>1, <1>2, <1>4, MinVon
<1>6. v \in 0 .. N_ORDERS /\ v \in Nat /\ v <= q
  BY <1>1, <1>2, <1>5
<1>7. v * ORDER_GROESSE <= q * ORDER_GROESSE /\ v * ORDER_GROESSE \in Nat /\ q * ORDER_GROESSE \in Nat
  BY <1>1, <1>2, <1>6, MalMonoton
<1> QED BY <1>3, <1>6, <1>7 DEF v

(* While nothing moves in the book the sale stays covered.                 *)
LEMMA GedecktBleibt ==
    ASSUME OrderInv, VerkaufGedeckt, UNCHANGED <<ruhend, eigene, liegend, ist_kauf, basis_bestand>>
    PROVE  OrderInv' /\ VerkaufGedeckt'
BY DEF OrderInv, VerkaufGedeckt, Eigene, OrderVon

(* Every step keeps the sale covered.                                      *)
LEMMA HSchritt == ASSUME PreisePassen, IInv, HInv, [Next]_vars PROVE HInv'
<1>0. /\ IInv' /\ OrderInv /\ LaufInv /\ VerkaufGedeckt
      /\ dran \in STUFEN /\ ist_kauf \in [STUFEN -> BOOLEAN]
  BY InvSchritt DEF HInv, IInv
<1>1. CASE Stellen
  <2>1. /\ lauf = "stellen" /\ ist_kauf' = ist_kauf /\ NaechsteStufe
        /\ UNCHANGED <<bestand, seit, grenze>> /\ basis_bestand' = basis_bestand
    BY <1>1 DEF Stellen, bestand
  <2>2. LaufInv'
    BY <1>0, <2>1, LaufWeiter
  <2>3. CASE liegend[dran] # KEIN
    <3>1. UNCHANGED <<ruhend, eigene, liegend, ist_kauf, basis_bestand>>
      BY <1>1, <2>1, <2>3 DEF Stellen, buch
    <3> QED BY <1>0, <2>2, <3>1, GedecktBleibt DEF HInv
  <2>4. CASE liegend[dran] = KEIN
    <3>1. ist_kauf[dran] = (dran <= grenze) /\ \A i \in STUFEN : i <= grenze => ist_kauf[i]
      BY <1>0, <2>1 DEF LaufInv
    <3>2. StufeLegen(ruhend, dran, dran <= grenze)
      BY <1>1, <2>4, <3>1 DEF Stellen
    <3>3. ist_kauf' = [ist_kauf EXCEPT ![dran] = dran <= grenze]
      BY <1>0, <2>1, <3>1
    <3> DEFINE R == ruhend
    <3>4. R \in SUBSET ruhend /\ StufeLegen(R, dran, dran <= grenze)
      BY <3>2
    <3> HIDE DEF R
    <3>5. OrderInv' /\ VerkaufGedeckt'
      BY <1>0, <2>1, <3>1, <3>3, <3>4, LegenGedeckt
    <3> QED BY <2>2, <3>5 DEF HInv
  <2> QED BY <2>3, <2>4
<1>2. CASE StufeAktualisieren
  <2>1. /\ lauf = "aktualisieren" /\ NaechsteStufe
        /\ UNCHANGED <<bestand, seit, grenze>> /\ basis_bestand' = basis_bestand
    BY <1>2 DEF StufeAktualisieren, bestand
  <2>2. ist_kauf' = [ist_kauf EXCEPT ![dran] = dran <= grenze]
    <3>1. CASE NeuZuLegen(dran)
      BY <1>2, <3>1 DEF StufeAktualisieren
    <3>2. CASE ~NeuZuLegen(dran)
      BY <1>0, <1>2, <3>2 DEF StufeAktualisieren, NeuZuLegen
    <3> QED BY <3>1, <3>2
  <2>3. LaufInv'
    <3>1. ist_kauf' \in [STUFEN -> BOOLEAN]
      BY <1>0 DEF IInv
    <3> QED BY <1>0, <2>1, <2>2, <3>1, LaufWeiter
  <2>4. CASE ~NeuZuLegen(dran)
    <3>1. UNCHANGED <<ruhend, eigene, liegend, ist_kauf, basis_bestand>>
      BY <1>2, <2>1, <2>4 DEF StufeAktualisieren, buch
    <3> QED BY <1>0, <2>3, <3>1, GedecktBleibt DEF HInv
  <2>5. CASE NeuZuLegen(dran)
    <3> DEFINE R == OhneStufe(dran)
    <3>1. R \in SUBSET ruhend
      BY DEF OhneStufe, Ohne
    <3>2. StufeLegen(R, dran, dran <= grenze)
      BY <1>2, <2>5 DEF StufeAktualisieren
    <3>3. \A i \in STUFEN : i <= grenze /\ i < dran => ist_kauf[i]
      BY <1>0, <2>1 DEF LaufInv
    <3> HIDE DEF R
    <3>4. OrderInv' /\ VerkaufGedeckt'
      BY <1>0, <2>1, <2>2, <3>1, <3>2, <3>3, LegenGedeckt
    <3> QED BY <2>3, <3>4 DEF HInv
  <2> QED BY <2>4, <2>5
<1>3. CASE Aktualisieren
  <2>1. /\ UNCHANGED <<ruhend, eigene, liegend, ist_kauf, basis_bestand, quote_bestand, dran>>
        /\ lauf = "ruht" /\ lauf' = "aktualisieren" /\ grenze' = N_ORDERS - VerkaufStufen /\ seit' = 0
    BY <1>3 DEF Aktualisieren, buch, bestand
  <2>2. OrderInv' /\ VerkaufGedeckt'
    BY <1>0, <2>1, GedecktBleibt
  <2>3. LaufInv'
    <3> DEFINE v == VerkaufStufen
    <3>1. /\ v \in 0 .. N_ORDERS /\ v * ORDER_GROESSE <= basis_bestand
          /\ grenze' = N_ORDERS - v
      BY <1>0, <2>1, VerkaufStufenTyp DEF LaufInv
    <3>2. dran = 1 /\ basis_bestand \in Nat /\ quote_bestand \in Nat /\ N_ORDERS \in Nat
          /\ TAKT_SEKUNDEN \in Nat
      BY <1>0, <2>1, LeiterAnnahme, BreiteAnnahme DEF LaufInv
    <3> HIDE DEF v
    <3>3. grenze' \in 0 .. N_ORDERS /\ N_ORDERS - grenze' = v
      BY <3>1, <3>2
    <3>4. \A i \in STUFEN : ~(i < dran)
      BY <3>2 DEF STUFEN
    <3>5. seit' \in 0 .. TAKT_SEKUNDEN
      BY <2>1, <3>2
    <3> QED BY <2>1, <3>1, <3>2, <3>3, <3>4, <3>5 DEF LaufInv
  <2> QED BY <2>2, <2>3 DEF HInv
<1>4. ASSUME NEW a \in AuftraegeUeber(FREMDMENGEN), Handeln(a)
      PROVE  HInv'
  <2>1. OrderInv' /\ basis_bestand' \in Nat /\ quote_bestand' \in Nat /\ VerkaufGedeckt'
    BY <1>4, HandelnSchritt
  <2>2. UNCHANGED <<ist_kauf, seit, lauf, dran, grenze>> /\ lauf = "ruht"
    BY <1>4 DEF Handeln
  <2>3. LaufInv'
    BY <1>0, <2>1, <2>2 DEF LaufInv
  <2> QED BY <2>1, <2>3 DEF HInv
<1>5. ASSUME NEW o, FremdStornieren(o)
      PROVE  HInv'
  <2>1. /\ ruhend' \subseteq ruhend
        /\ UNCHANGED <<liegend, ist_kauf, seit, lauf, dran, grenze, eigene, basis_bestand, quote_bestand>>
    BY <1>5 DEF FremdStornieren, Ohne, bestand
  <2>2. OrderInv'
    BY <1>0, <2>1, FS_Subset DEF OrderInv, Buch
  <2>3. VerkaufGedeckt'
    <3> DEFINE U == Eigene(FALSE)
               V == Eigene(FALSE)'
    <3>1. V \subseteq U
      BY <2>1 DEF Eigene, OrderVon
    <3>2. U \subseteq ruhend
      BY DEF Eigene, OrderVon
    <3>3. Summe(U) <= basis_bestand /\ basis_bestand' = basis_bestand /\ basis_bestand \in Nat
      BY <1>0, <2>1 DEF VerkaufGedeckt, LaufInv
    <3>4. Summe(U) \in Nat /\ Summe(V) \in Nat /\ Summe(V) <= Summe(U)
      <4> HIDE DEF U, V
      <4>1. IsFiniteSet(U) /\ (\A r \in U : r.menge \in Nat) /\ IsFiniteSet(V) /\ \A r \in V : r.menge \in Nat
        BY <1>0, <3>1, <3>2, FS_Subset DEF OrderInv, Buch
      <4> QED BY <3>1, <4>1, SummeVon, SummeWeniger
    <3>5. Summe(V) <= basis_bestand'
      <4> HIDE DEF U, V
      <4> QED BY <3>3, <3>4
    <3> QED BY <3>5 DEF VerkaufGedeckt
  <2>4. LaufInv'
    BY <1>0, <2>1 DEF LaufInv
  <2> QED BY <2>2, <2>3, <2>4 DEF HInv
<1>6. CASE Verstreichen
  <2>1. /\ UNCHANGED <<ruhend, eigene, liegend, ist_kauf, basis_bestand, quote_bestand, lauf, dran, grenze>>
        /\ seit' \in 0 .. TAKT_SEKUNDEN
    BY <1>0, <1>6, BreiteAnnahme DEF Verstreichen, buch, bestand, LaufInv
  <2>2. OrderInv' /\ VerkaufGedeckt'
    BY <1>0, <2>1, GedecktBleibt
  <2> QED BY <1>0, <2>1, <2>2 DEF HInv, LaufInv
<1>7. CASE UNCHANGED vars
  <2>1. UNCHANGED <<ruhend, eigene, liegend, ist_kauf, basis_bestand, quote_bestand, lauf, dran, grenze, seit>>
    BY <1>7 DEF vars, buch, bestand
  <2>2. OrderInv' /\ VerkaufGedeckt'
    BY <1>0, <2>1, GedecktBleibt
  <2> QED BY <1>0, <2>1, <2>2 DEF HInv, LaufInv
<1> QED BY <1>1, <1>2, <1>3, <1>4, <1>5, <1>6, <1>7 DEF Next

(* The invariant holds always.                                             *)
LEMMA Gedeckt == ASSUME PreisePassen PROVE Spec => [](IInv /\ HInv)
<1>1. Init => HInv
  <2> SUFFICES ASSUME Init PROVE HInv
    OBVIOUS
  <2> DEFINE m == N_ORDERS - N_GESAET
  <2>1. m \in Nat /\ ORDER_GROESSE \in Nat /\ N_GESAET \in 0 .. N_ORDERS /\ TAKT_SEKUNDEN \in Nat
    BY LeiterAnnahme, BreiteAnnahme
  <2>2. /\ ruhend = {} /\ lauf = "stellen" /\ dran = 1 /\ grenze = N_GESAET /\ seit = TAKT_SEKUNDEN
        /\ basis_bestand = m * ORDER_GROESSE /\ quote_bestand = 0
        /\ ist_kauf = [i \in STUFEN |-> i <= N_GESAET]
    BY DEF Init
  <2>3. m * ORDER_GROESSE \in Nat /\ (N_ORDERS - grenze) * ORDER_GROESSE <= basis_bestand
    <3>1. m * ORDER_GROESSE <= m * ORDER_GROESSE /\ m * ORDER_GROESSE \in Nat
      BY <2>1, MalMonoton
    <3> QED BY <2>2, <3>1
  <2>4. OrderInv
    BY <2>2, FS_EmptySet DEF OrderInv, Buch
  <2>5. VerkaufGedeckt
    <3>1. Eigene(FALSE) = {}
      BY <2>2 DEF Eigene, OrderVon
    <3>2. Summe({}) = 0
      BY SummeVon, SummeLeer, FS_EmptySet
    <3>3. basis_bestand \in Nat
      BY <2>2, <2>3
    <3> DEFINE V == Eigene(FALSE)
    <3>4. VerkaufGedeckt <=> Summe(V) <= basis_bestand
      BY DEF VerkaufGedeckt
    <3>5. V = {}
      BY <3>1
    <3> HIDE DEF m, V
    <3> QED BY <3>2, <3>3, <3>4, <3>5
  <2> HIDE DEF m
  <2>6. LaufInv
    BY <2>1, <2>2, <2>3 DEF LaufInv
  <2> QED BY <2>4, <2>5, <2>6 DEF HInv
<1>2. IInv /\ HInv /\ [Next]_vars => HInv'
  BY HSchritt
<1> QED BY Invariante, <1>1, <1>2, PTL DEF Spec

(* The ladder never offers more than it holds, whatever was executed since *)
(* the last refresh and however far the running one has come: the          *)
(* saturating subtraction of a sale cuts nothing off, for any ladder, any  *)
(* inventory and any orders of others.                                     *)
THEOREM VerkaufImmerGedeckt == ASSUME PreisePassen PROVE Spec => []VerkaufGedeckt
<1>1. HInv => VerkaufGedeckt
  BY DEF HInv
<1> QED BY Gedeckt, <1>1, PTL

(* The book, the levels and the inventory keep their types; in particular  *)
(* the inventory never falls below zero.                                   *)
THEOREM TypenImmer == ASSUME PreisePassen PROVE Spec => []TypeOK
<1>1. IInv /\ HInv => TypeOK
  <2> SUFFICES ASSUME IInv, HInv PROVE TypeOK
    OBVIOUS
  <2> DEFINE SATZ == [oid : Nat \ {0}, seite : SEITE, tick : 0 .. TICKS - 1, menge : Nat \ {0}]
  <2>1. ASSUME NEW r \in ruhend PROVE r \in SATZ /\ r.oid < naechste_oid
    <3>1. DOMAIN r = FELDER /\ r.oid \in 1 .. naechste_oid - 1 /\ naechste_oid \in Nat
      BY DEF IInv
    <3>2. Satz(r) /\ r.seite \in SEITE /\ r.tick \in 0 .. TICKS - 1 /\ r.menge \in Nat \ {0}
      BY DEF HInv, OrderInv, Buch
    <3>3. r.oid \in Nat \ {0} /\ r.oid < naechste_oid
      BY <3>1
    <3>4. r = [oid |-> r.oid, seite |-> r.seite, tick |-> r.tick, menge |-> r.menge]
      BY <3>2 DEF Satz
    <3> QED BY <3>2, <3>3, <3>4
  <2>2. liegend \in [STUFEN -> Nat \cup {KEIN}] /\ \A o \in eigene : o \in 1 .. naechste_oid - 1
    <3>1. liegend \in [STUFEN -> eigene \cup {KEIN}] /\ eigene \subseteq 1 .. naechste_oid - 1
          /\ naechste_oid \in Nat
      BY DEF IInv
    <3>2. eigene \subseteq Nat
      BY <3>1
    <3> QED BY <3>1, <3>2
  <2> QED BY <2>1, <2>2 DEF TypeOK, IInv, HInv, LaufInv
<1> QED BY Gedeckt, <1>1, PTL
-----------------------------------------------------------------------------
(* With its history variables the market maker behaves as without.         *)
LEMMA MitVerlauf == MCSpec => Spec
<1>1. MCInit => Init
  BY DEF MCInit
<1>2. [MCNext]_<<vars, saldo, ruhige>> => [Next]_vars
  BY DEF MCNext
<1> QED BY <1>1, <1>2, PTL DEF MCSpec, Spec

LEMMA RestVonTyp == ASSUME OrderInv, NEW s PROVE RestVon(ruhend, s) \in Nat
<1> DEFINE Y == {r \in ruhend : r.oid \in eigene /\ r.seite = s}
<1>1. IsFiniteSet(Y) /\ \A r \in Y : r.menge \in Nat
  BY FS_Subset DEF OrderInv, Buch
<1> HIDE DEF Y
<1>2. Summe(Y) \in Nat
  BY <1>1, SummeVon
<1> QED BY <1>2 DEF Y, RestVon

(* Other traders' orders do not matter to what rests of the ladder's.      *)
LEMMA RestVonGleich ==
    ASSUME NEW R, {r \in R : r.oid \in eigene} = {r \in ruhend : r.oid \in eigene}, NEW s
    PROVE  RestVon(R, s) = RestVon(ruhend, s)
<1> DEFINE X == {r \in R : r.oid \in eigene /\ r.seite = s}
           Y == {r \in ruhend : r.oid \in eigene /\ r.seite = s}
<1>1. X = Y
  OBVIOUS
<1> HIDE DEF X, Y
<1>2. Summe(X) = Summe(Y)
  BY <1>1
<1> QED BY <1>2 DEF X, Y, RestVon

(* The inventory of tokens is what the ladder started with and what its    *)
(* orders have bought and sold in the book: ausfuehrung_verbuchen books    *)
(* every execution once and on the right side, for any number of calls     *)
(* and refreshes.                                                          *)
THEOREM BestandStimmtImmer == ASSUME PreisePassen PROVE MCSpec => []BestandStimmt
<1> DEFINE SInv == saldo \in Int /\ BestandStimmt
           c == (N_ORDERS - N_GESAET) * ORDER_GROESSE
<1>0. c \in Int /\ (BestandStimmt <=> basis_bestand = c + saldo)
      /\ (BestandStimmt' <=> basis_bestand' = c + saldo')
  <2>1. N_ORDERS - N_GESAET \in Int /\ ORDER_GROESSE \in Int
    BY LeiterAnnahme
  <2> QED BY <2>1 DEF BestandStimmt
<1>1. MCInit => SInv
  BY <1>0 DEF MCInit, Init
<1>2. IInv /\ HInv /\ SInv /\ [MCNext]_<<vars, saldo, ruhige>> => SInv'
  <2> SUFFICES ASSUME IInv, HInv, SInv, [MCNext]_<<vars, saldo, ruhige>> PROVE SInv'
    OBVIOUS
  <2> HIDE DEF c
  <2>0. OrderInv /\ basis_bestand \in Nat /\ saldo \in Int /\ c \in Int
        /\ basis_bestand = c + saldo
    BY <1>0 DEF HInv, LaufInv
  <2> SUFFICES saldo' \in Int /\ basis_bestand' = c + saldo'
    BY <1>0
  <2>1. CASE UNCHANGED <<vars, saldo, ruhige>>
    BY <2>0, <2>1 DEF vars, bestand
  <2>2. CASE MCNext
    <3> DEFINE K == RestVon(ruhend, "kauf")
               V == RestVon(ruhend, "verkauf")
               K1 == RestVon(ruhend', "kauf")
               V1 == RestVon(ruhend', "verkauf")
    <3>1. /\ Next
          /\ saldo' = IF lauf = "ruht" THEN saldo + (K - K1) - (V - V1) ELSE saldo
      BY <2>2 DEF MCNext
    <3>2. K \in Nat /\ V \in Nat
      BY <2>0, RestVonTyp
    <3>3. ASSUME K1 = K, V1 = V, basis_bestand' = basis_bestand
          PROVE  saldo' \in Int /\ basis_bestand' = c + saldo'
      <4> HIDE DEF K, V, K1, V1
      <4> QED BY <2>0, <3>1, <3>2, <3>3
    <3>4. CASE Stellen \/ StufeAktualisieren
      BY <2>0, <3>1, <3>4 DEF Stellen, StufeAktualisieren, bestand
    <3>5. CASE Aktualisieren \/ Verstreichen
      <4>1. ruhend' = ruhend /\ basis_bestand' = basis_bestand
        BY <3>5 DEF Aktualisieren, Verstreichen, buch, bestand
      <4> QED BY <3>3, <4>1
    <3>6. CASE \E o \in {r.oid : r \in ruhend} : FremdStornieren(o)
      <4>1. PICK o \in {r.oid : r \in ruhend} : FremdStornieren(o)
        BY <3>6
      <4>2. ruhend' = {r \in ruhend : r.oid # o} /\ o \notin eigene /\ basis_bestand' = basis_bestand
        BY <4>1 DEF FremdStornieren, Ohne, bestand
      <4>3. {r \in ruhend' : r.oid \in eigene} = {r \in ruhend : r.oid \in eigene}
        BY <4>2
      <4>4. K1 = K /\ V1 = V
        BY <4>3, RestVonGleich
      <4> QED BY <3>3, <4>2, <4>4
    <3>7. CASE \E a \in AuftraegeUeber(FREMDMENGEN) : Handeln(a)
      <4>1. PICK a \in AuftraegeUeber(FREMDMENGEN) : Handeln(a)
        BY <3>7
      <4>2. /\ basis_bestand' = basis_bestand + (K - K1) - (V - V1)
            /\ OrderInv' /\ eigene' = eigene /\ lauf = "ruht"
        BY <4>1, HandelnSchritt DEF Handeln
      <4>3. K1 \in Nat /\ V1 \in Nat
        <5>0. IsFiniteSet(ruhend') /\ \A r \in ruhend' : r.menge \in Nat
          BY <4>2 DEF OrderInv, Buch
        <5>1. ASSUME NEW s PROVE RestVon(ruhend', s) \in Nat
          <6> DEFINE Y == {r \in ruhend' : r.oid \in eigene /\ r.seite = s}
          <6>1. IsFiniteSet(Y) /\ \A r \in Y : r.menge \in Nat
            BY <5>0, FS_Subset
          <6> HIDE DEF Y
          <6>2. Summe(Y) \in Nat
            BY <6>1, SummeVon
          <6> QED BY <6>2 DEF Y, RestVon
        <5> QED BY <5>1
      <4> HIDE DEF K, V, K1, V1
      <4> QED BY <2>0, <3>1, <3>2, <4>2, <4>3
    <3> QED BY <3>1, <3>4, <3>5, <3>6, <3>7 DEF Next
  <2> QED BY <2>1, <2>2
<1>3. MCSpec => [](IInv /\ HInv)
  BY MitVerlauf, Invariante, Gedeckt, PTL
<1>4. SInv => BestandStimmt
  OBVIOUS
<1> QED BY <1>1, <1>2, <1>3, <1>4, PTL DEF MCSpec
-----------------------------------------------------------------------------
(* The price of a level from those below it, as neu() computes it.         *)
Preisstufe(f, i) ==
    IF i = 1 THEN START_PREIS
    ELSE LET p == (f[i - 1] * SCHRITT_PROMILLE + 500) \div 1000
         IN  IF p <= f[i - 1] THEN f[i - 1] + 1 ELSE p

(* The prices of the first k levels.                                       *)
Preisliste(f, k) == f = [i \in 1 .. k |-> Preisstufe(f, i)]

(* There is such a list, of any length.                                    *)
LEMMA PreislisteMoeglich == ASSUME NEW n \in Nat PROVE \E f : Preisliste(f, n)
<1> DEFINE K == {k \in 0 .. n : ~ \E f : Preisliste(f, k)}
<1>1. SUFFICES ASSUME K # {} PROVE FALSE
  <2>1. n \in 0 .. n
    OBVIOUS
  <2> QED BY <2>1
<1>2. PICK k \in K : \A m \in K : k <= m
  <2> HIDE DEF K
  <2>1. K \in SUBSET (0 .. n)
    BY DEF K
  <2> QED BY <1>1, <2>1, KleinsteZahl
<1>3. k \in 0 .. n /\ ~ \E f : Preisliste(f, k)
  OBVIOUS
<1>4. k # 0
  <2>1. ASSUME k = 0 PROVE Preisliste([i \in 1 .. 0 |-> Preisstufe(START_PREIS, i)], k)
    BY <2>1 DEF Preisliste
  <2> QED BY <1>3, <2>1
<1>5. \E f : Preisliste(f, k - 1)
  <2>1. k - 1 \in 0 .. n /\ ~(k <= k - 1)
    BY <1>3, <1>4
  <2>2. k - 1 \notin K
    BY <1>2, <2>1
  <2> QED BY <2>1, <2>2
<1>6. PICK f : Preisliste(f, k - 1)
  BY <1>5
<1> HIDE DEF K
<1> DEFINE g == [i \in 1 .. k |-> IF i = k THEN Preisstufe(f, k) ELSE f[i]]
<1>7. \A i \in 1 .. k - 1 : f[i] = Preisstufe(f, i)
  BY <1>6 DEF Preisliste
<1>8. ASSUME NEW i \in 1 .. k PROVE g[i] = Preisstufe(g, i)
  <2>1. i # 1 => g[i - 1] = f[i - 1]
    BY <1>3
  <2>2. g[i] = Preisstufe(f, i)
    BY <1>3, <1>7
  <2> HIDE DEF g
  <2> QED BY <2>1, <2>2 DEF Preisstufe
<1>9. Preisliste(g, k)
  <2>1. g = [i \in 1 .. k |-> g[i]]
    OBVIOUS
  <2> HIDE DEF g
  <2> QED BY <1>8, <2>1 DEF Preisliste
<1> QED BY <1>3, <1>9

(* The prices of the ladder are one.                                       *)
LEMMA PreiseSind == Preisliste(preise, N_ORDERS)
<1>1. \E f : Preisliste(f, N_ORDERS)
  BY PreislisteMoeglich, LeiterAnnahme
<1> DEFINE c == CHOOSE f : Preisliste(f, N_ORDERS)
<1>2. preise = c
  BY DEF preise, Preisliste, Preisstufe, STUFEN
<1>3. Preisliste(c, N_ORDERS)
  BY <1>1
<1> HIDE DEF c
<1> QED BY <1>2, <1>3

(* A higher level has a higher price, also where rounding alone would give *)
(* the same.                                                               *)
LEMMA PreiseSteigen ==
    ASSUME PreisePassen, NEW i \in STUFEN, NEW j \in STUFEN, i < j
    PROVE  preise[i] < preise[j]
<1>1. N_ORDERS \in Nat /\ (\A k \in STUFEN : preise[k] \in Nat) /\ STUFEN = 1 .. N_ORDERS
  BY BreiteAnnahme, LeiterAnnahme DEF PreisePassen, STUFEN
<1>2. ASSUME NEW k \in 1 .. N_ORDERS, k # 1 PROVE preise[k - 1] < preise[k]
  <2> DEFINE p == (preise[k - 1] * SCHRITT_PROMILLE + 500) \div 1000
  <2>1. preise[k] = Preisstufe(preise, k)
    BY PreiseSind DEF Preisliste
  <2>2. preise[k - 1] \in Nat
    BY <1>1, <1>2
  <2>3. p \in Int
    <3>1. preise[k - 1] * SCHRITT_PROMILLE + 500 \in Int
      BY <2>2, LeiterAnnahme
    <3> QED BY <3>1
  <2>4. preise[k] = IF p <= preise[k - 1] THEN preise[k - 1] + 1 ELSE p
    BY <1>2, <2>1 DEF Preisstufe
  <2> HIDE DEF p
  <2> QED BY <2>2, <2>3, <2>4
<1> DEFINE K == {k \in 0 .. N_ORDERS : k # 0 /\ i < k /\ ~(preise[i] < preise[k])}
<1>3. SUFFICES ASSUME K # {} PROVE FALSE
  BY <1>1
<1>4. PICK k \in K : \A m \in K : k <= m
  <2> HIDE DEF K
  <2>1. K \in SUBSET (0 .. N_ORDERS)
    BY DEF K
  <2> QED BY <1>1, <1>3, <2>1, KleinsteZahl
<1>5. k \in 0 .. N_ORDERS /\ k # 0 /\ i < k /\ ~(preise[i] < preise[k])
  OBVIOUS
<1>6. /\ k - 1 \in 0 .. N_ORDERS /\ k - 1 \in STUFEN /\ k \in STUFEN /\ k # 1
      /\ i \in Nat /\ i # 0 /\ ~(k <= k - 1)
  BY <1>1, <1>5
<1>7. i < k - 1 => preise[i] < preise[k - 1]
  <2>1. k - 1 \notin K
    BY <1>4, <1>6
  <2>2. i < k - 1 => k - 1 # 0
    BY <1>6
  <2> QED BY <1>6, <2>1, <2>2
<1> HIDE DEF K
<1>8. preise[k - 1] < preise[k] /\ preise[k - 1] \in Nat /\ preise[k] \in Nat /\ preise[i] \in Nat
  BY <1>1, <1>2, <1>6
<1>9. i = k - 1 \/ i < k - 1
  BY <1>1, <1>5, <1>6
<1> QED BY <1>5, <1>7, <1>8, <1>9

(* With nobody else in the book and every order on its level's side of     *)
(* the dividing line, the book takes any level's order.                    *)
LEMMA WirdGelegt ==
    ASSUME PreisePassen, NEW i \in STUFEN, preise[i] < TICKS, IInv, Fremde = {},
           NEW R \in SUBSET ruhend, grenze \in 0 .. N_ORDERS,
           \A j \in STUFEN : ist_kauf[j] = (j <= grenze),
           StufeLegen(R, i, i <= grenze)
    PROVE  liegend'[i] # KEIN
<1> DEFINE kauf == i <= grenze
           a == StufenAuftrag(i, kauf)
<1>1. /\ a.art = "limit" /\ a.gueltigkeit = "NurLegen" /\ a.seite = SeiteVon(kauf)
      /\ a.tick = preise[i] /\ a.menge = ORDER_GROESSE /\ kauf \in BOOLEAN
  <2>1. kauf \in BOOLEAN
    OBVIOUS
  <2> HIDE DEF kauf
  <2> QED BY <2>1, LeiterAnnahme, LeiterAuftrag
<1>2. \A j \in STUFEN : preise[j] \in Nat
  BY BreiteAnnahme DEF PreisePassen
<1>3. ASSUME NEW r \in R, r.seite # a.seite PROVE ~NichtSchlechter(r.seite, r.tick, preise[i])
  <2>1. PICK j \in STUFEN : liegend[j] = r.oid
    BY DEF Fremde, IInv, Zuordnung
  <2>2. r.tick = preise[j] /\ r.seite = SeiteVon(j <= grenze)
    <3>1. r \in OrderVon(j)
      BY <2>1 DEF OrderVon
    <3>2. r.tick = preise[j] /\ r.seite = SeiteVon(ist_kauf[j])
      BY <3>1 DEF IInv, Zuordnung
    <3>3. ist_kauf[j] = (j <= grenze)
      OBVIOUS
    <3> QED BY <3>2, <3>3
  <2>3. i \in Nat /\ j \in Nat /\ grenze \in Nat
    BY LeiterAnnahme DEF STUFEN
  <2>4. CASE i <= grenze
    <3>1. r.seite = "verkauf" /\ ~(j <= grenze)
      BY <1>1, <1>3, <2>2, <2>4 DEF SeiteVon
    <3>2. i < j
      BY <2>3, <2>4, <3>1
    <3>3. preise[i] < preise[j]
      BY <3>2, PreiseSteigen
    <3> QED BY <1>2, <2>2, <3>1, <3>3 DEF NichtSchlechter
  <2>5. CASE ~(i <= grenze)
    <3>1. r.seite = "kauf" /\ j <= grenze
      BY <1>1, <1>3, <2>2, <2>5 DEF SeiteVon
    <3>2. j < i
      BY <2>3, <2>5, <3>1
    <3>3. preise[j] < preise[i]
      BY <3>2, PreiseSteigen
    <3> QED BY <1>2, <2>2, <3>1, <3>3 DEF NichtSchlechter
  <2> QED BY <2>4, <2>5
<1> HIDE DEF a
<1>4. Erreichbar(R, a) = {}
  <2>1. Grenze(a) = preise[i]
    BY <1>1 DEF Grenze
  <2> QED BY <1>3, <2>1 DEF Erreichbar
<1>5. ~Abzulehnen(R, a)
  BY <1>1, <1>2, <1>4, LeiterAnnahme, BreiteAnnahme DEF Abzulehnen
<1>6. Ruhend(R, a) = ORDER_GROESSE
  <2>1. Summe({}) = 0
    BY SummeVon, SummeLeer, FS_EmptySet
  <2>2. Min({ORDER_GROESSE, 0}) = 0
    BY MinVon, LeiterAnnahme
  <2>3. Rest(R, a) = ORDER_GROESSE - 0
    BY <1>1, <1>4, <2>1, <2>2 DEF Rest
  <2>4. Bleibt(a)
    BY <1>1 DEF Bleibt
  <2> QED BY <2>3, <2>4, LeiterAnnahme DEF Ruhend
<1>7. liegend' = [liegend EXCEPT ![i] = naechste_oid]
  <2>1. ~Abzulehnen(R, StufenAuftrag(i, kauf)) /\ Ruhend(R, StufenAuftrag(i, kauf)) > 0
    BY <1>5, <1>6, LeiterAnnahme DEF a
  <2> QED BY <2>1 DEF StufeLegen
<1>8. naechste_oid # KEIN
  BY DEF IInv, KEIN
<1> QED BY <1>7, <1>8 DEF IInv
-----------------------------------------------------------------------------
(* A level whose price the book knows.                                     *)
PreiseImBuch == \A i \in STUFEN : preise[i] < TICKS

(* What an undisturbed refresh leaves behind, and the next one finds: the  *)
(* dividing line is where the inventory wants it, and each level on its    *)
(* side of it, so nothing stands in a missing level's way.                 *)
HeilInv ==
    /\ ruhige \in 0 .. 2
    /\ lauf = "stellen" => ruhige = 0
    /\ (lauf = "aktualisieren" \/ ruhige > 0) => grenze = N_ORDERS - VerkaufStufen
    /\ ruhige > 0 => \A i \in STUFEN : ist_kauf[i] = (i <= grenze)
    /\ (ruhige > 0 /\ lauf = "aktualisieren" /\ Fremde = {}) =>
          \A i \in STUFEN : i < dran => liegend[i] # KEIN
    /\ ZweiterTaktHeilt

(* A level of a refresh that follows an undisturbed one is not missing.    *)
LEMMA StufeGeheilt ==
    ASSUME PreisePassen, PreiseImBuch, IInv, LaufInv, HeilInv, StufeAktualisieren, ruhige > 0,
           Fremde' = {}
    PROVE  \A i \in STUFEN : i <= dran => liegend'[i] # KEIN
<1>0. /\ lauf = "aktualisieren" /\ dran \in STUFEN /\ grenze \in 0 .. N_ORDERS
      /\ \A i \in STUFEN : ist_kauf[i] = (i <= grenze)
  BY DEF StufeAktualisieren, IInv, LaufInv, HeilInv
<1>1. Fremde = {}
  <2>1. Fremde \subseteq ruhend'
    BY <1>0, InvSchritt DEF Next
  <2>2. eigene' \subseteq eigene \cup {naechste_oid}
    BY DEF StufeAktualisieren, StufeLegen
  <2>3. \A r \in Fremde : r.oid \notin eigene'
    BY <2>2, NummerNeu DEF Fremde
  <2> QED BY <2>1, <2>3 DEF Fremde
<1>2. \A i \in STUFEN : i < dran => liegend[i] # KEIN
  BY <1>0, <1>1 DEF HeilInv
<1>3. \A i \in STUFEN : i # dran => liegend'[i] = liegend[i]
  BY DEF StufeAktualisieren, StufeLegen, IInv
<1>4. liegend'[dran] # KEIN
  <2>1. CASE ~NeuZuLegen(dran)
    BY <2>1 DEF StufeAktualisieren, NeuZuLegen
  <2>2. CASE NeuZuLegen(dran)
    <3> DEFINE R == OhneStufe(dran)
    <3>1. StufeLegen(R, dran, dran <= grenze)
      BY <2>2 DEF StufeAktualisieren
    <3>2. R \in SUBSET ruhend /\ preise[dran] < TICKS
      BY <1>0 DEF OhneStufe, Ohne, PreiseImBuch
    <3> HIDE DEF R
    <3> QED BY <1>0, <1>1, <3>1, <3>2, WirdGelegt
  <2> QED BY <2>1, <2>2
<1>5. \A i \in STUFEN : i <= dran => i < dran \/ i = dran
  BY <1>0, LeiterAnnahme DEF STUFEN
<1> QED BY <1>2, <1>3, <1>4, <1>5

LEMMA HeilSchritt ==
    ASSUME PreisePassen, PreiseImBuch, IInv, HInv, HeilInv, [MCNext]_<<vars, saldo, ruhige>>
    PROVE  HeilInv'
<1>0. LaufInv /\ dran \in 1 .. N_ORDERS /\ N_ORDERS \in Nat /\ STUFEN = 1 .. N_ORDERS
      /\ ruhige \in 0 .. 2
  BY LeiterAnnahme DEF HInv, IInv, HeilInv, STUFEN
<1>1. CASE UNCHANGED <<vars, saldo, ruhige>>
  BY <1>1 DEF vars, buch, bestand, HeilInv, ZweiterTaktHeilt, VerkaufStufen, Fremde
<1>2. CASE MCNext
  <2>0. /\ Next
        /\ ruhige' = IF lauf = "ruht" THEN IF buch' # buch THEN 0 ELSE ruhige
                     ELSE IF lauf = "aktualisieren" /\ lauf' = "ruht" THEN Min({ruhige + 1, 2})
                     ELSE ruhige
    BY <1>2 DEF MCNext
  <2>1. CASE Stellen
    <3>1. lauf = "stellen" /\ lauf' \in {"stellen", "ruht"}
      BY <2>1 DEF Stellen, NaechsteStufe
    <3>2. ruhige' = 0
      BY <2>0, <3>1 DEF HeilInv
    <3> QED BY <3>1, <3>2 DEF HeilInv, ZweiterTaktHeilt
  <2>2. CASE Aktualisieren
    <3>1. /\ lauf = "ruht" /\ lauf' = "aktualisieren" /\ dran' = dran /\ dran = 1
          /\ grenze' = N_ORDERS - VerkaufStufen /\ VerkaufStufen' = VerkaufStufen
          /\ ist_kauf' = ist_kauf /\ buch' = buch
      BY <1>0, <2>2 DEF Aktualisieren, LaufInv, bestand, VerkaufStufen
    <3>2. ruhige' = ruhige
      BY <2>0, <3>1
    <3>3. ruhige' > 0 => \A i \in STUFEN : ist_kauf'[i] = (i <= grenze')
      BY <3>1, <3>2 DEF HeilInv
    <3>4. \A i \in STUFEN : ~(i < dran')
      BY <1>0, <3>1
    <3> QED BY <1>0, <3>1, <3>2, <3>3, <3>4 DEF HeilInv, ZweiterTaktHeilt
  <2>3. CASE StufeAktualisieren
    <3>1. /\ lauf = "aktualisieren" /\ lauf' = (IF dran = N_ORDERS THEN "ruht" ELSE lauf)
          /\ dran' = (IF dran = N_ORDERS THEN 1 ELSE dran + 1)
          /\ grenze' = grenze /\ VerkaufStufen' = VerkaufStufen
          /\ grenze = N_ORDERS - VerkaufStufen
      BY <2>3 DEF StufeAktualisieren, NaechsteStufe, bestand, VerkaufStufen, HeilInv
    <3>2. ruhige' \in 0 .. 2 /\ (lauf' # "ruht" => ruhige' = ruhige)
          /\ (ruhige' = 2 => ruhige > 0)
      <4>1. Min({ruhige + 1, 2}) = IF ruhige + 1 <= 2 THEN ruhige + 1 ELSE 2
        BY <1>0, MinVon
      <4> QED BY <1>0, <2>0, <3>1, <4>1
    <3>3. \A i \in STUFEN : i <= dran => ist_kauf'[i] = (i <= grenze)
      <4>1. ist_kauf'[dran] = (dran <= grenze)
        BY <2>3 DEF StufeAktualisieren, NeuZuLegen, IInv
      <4>2. \A i \in STUFEN : i # dran => ist_kauf'[i] = ist_kauf[i]
        BY <2>3 DEF StufeAktualisieren, IInv
      <4>3. \A i \in STUFEN : i < dran => ist_kauf[i] = (i <= grenze)
        BY <1>0, <3>1 DEF LaufInv
      <4>4. \A i \in STUFEN : i <= dran => i < dran \/ i = dran
        BY <1>0
      <4> QED BY <4>1, <4>2, <4>3, <4>4
    <3>4. ruhige > 0 => \A i \in STUFEN : ist_kauf'[i] = (i <= grenze)
      <4>1. ruhige > 0 => \A i \in STUFEN : ist_kauf[i] = (i <= grenze)
        BY DEF HeilInv
      <4>2. \A i \in STUFEN : i # dran => ist_kauf'[i] = ist_kauf[i]
        BY <2>3 DEF StufeAktualisieren, IInv
      <4> QED BY <3>3, <4>1, <4>2, <1>0
    <3>5. ruhige' > 0 => \A i \in STUFEN : ist_kauf'[i] = (i <= grenze')
      <4>1. CASE lauf' = "ruht"
        <5>1. dran = N_ORDERS
          BY <3>1, <4>1
        <5>2. \A i \in STUFEN : i <= dran
          BY <1>0, <5>1
        <5> QED BY <3>1, <3>3, <5>2
      <4>2. CASE lauf' # "ruht"
        BY <3>1, <3>2, <3>4, <4>2
      <4> QED BY <4>1, <4>2
    <3>6. ASSUME ruhige > 0, Fremde' = {}
          PROVE  \A i \in STUFEN : i <= dran => liegend'[i] # KEIN
      BY <1>0, <2>3, <3>6, StufeGeheilt
    <3>7. (ruhige' > 0 /\ lauf' = "aktualisieren" /\ Fremde' = {}) =>
             \A i \in STUFEN : i < dran' => liegend'[i] # KEIN
      <4> SUFFICES ASSUME ruhige' > 0, lauf' = "aktualisieren", Fremde' = {}, NEW i \in STUFEN, i < dran'
                   PROVE  liegend'[i] # KEIN
        OBVIOUS
      <4>1. ruhige > 0 /\ i <= dran
        BY <1>0, <3>1, <3>2
      <4> QED BY <3>6, <4>1
    <3>8. ZweiterTaktHeilt'
      <4> SUFFICES ASSUME lauf' = "ruht", ruhige' = 2, Fremde' = {}, NEW i \in STUFEN
                   PROVE  liegend'[i] # KEIN
        BY DEF ZweiterTaktHeilt
      <4>1. ruhige > 0 /\ i <= dran
        BY <1>0, <3>1, <3>2
      <4> QED BY <3>6, <4>1
    <3>9. grenze' = N_ORDERS - VerkaufStufen'
      BY <3>1
    <3>10. lauf' # "stellen"
      BY <3>1
    <3> QED BY <3>2, <3>5, <3>7, <3>8, <3>9, <3>10 DEF HeilInv
  <2>4. CASE \E a \in AuftraegeUeber(FREMDMENGEN) : Handeln(a)
    <3>1. lauf = "ruht" /\ lauf' = lauf /\ naechste_oid' = naechste_oid + 1 /\ naechste_oid \in Nat
      BY <2>4 DEF Handeln, IInv
    <3>2. buch' # buch
      BY <3>1 DEF buch
    <3>3. ruhige' = 0
      BY <2>0, <3>1, <3>2
    <3> QED BY <3>1, <3>3 DEF HeilInv, ZweiterTaktHeilt
  <2>5. CASE \E o \in {r.oid : r \in ruhend} : FremdStornieren(o)
    <3>1. PICK o \in {r.oid : r \in ruhend} : FremdStornieren(o)
      BY <2>5
    <3>2. lauf = "ruht" /\ lauf' = lauf /\ ruhend' # ruhend
      BY <3>1 DEF FremdStornieren, Ohne
    <3>3. ruhige' = 0
      BY <2>0, <3>2 DEF buch
    <3> QED BY <3>2, <3>3 DEF HeilInv, ZweiterTaktHeilt
  <2>6. CASE Verstreichen
    <3>1. lauf = "ruht" /\ buch' = buch
          /\ UNCHANGED <<liegend, ist_kauf, bestand, lauf, dran, grenze, eigene>>
      BY <2>6 DEF Verstreichen
    <3>2. ruhige' = ruhige
      BY <2>0, <3>1
    <3> QED BY <3>1, <3>2 DEF HeilInv, ZweiterTaktHeilt, VerkaufStufen, Fremde, bestand, buch
  <2> QED BY <2>0, <2>1, <2>2, <2>3, <2>4, <2>5, <2>6 DEF Next
<1> QED BY <1>1, <1>2

(* A level the book refused is not lost: after two undisturbed refreshes   *)
(* without strangers' orders in the book no level is missing, for any      *)
(* ladder whose prices the book knows, whatever was traded before.         *)
THEOREM ZweiterTaktHeiltImmer ==
    ASSUME PreisePassen, PreiseImBuch
    PROVE  MCSpec => []ZweiterTaktHeilt
<1>1. MCInit => HeilInv
  BY DEF MCInit, Init, HeilInv, ZweiterTaktHeilt
<1>2. IInv /\ HInv /\ HeilInv /\ [MCNext]_<<vars, saldo, ruhige>> => HeilInv'
  BY HeilSchritt
<1>3. MCSpec => [](IInv /\ HInv)
  BY MitVerlauf, Invariante, Gedeckt, PTL
<1>4. HeilInv => ZweiterTaktHeilt
  BY DEF HeilInv
<1> QED BY <1>1, <1>2, <1>3, <1>4, PTL DEF MCSpec
=============================================================================
