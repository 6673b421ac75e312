--------------------------- MODULE OrderbuchBeweis ---------------------------
(***************************************************************************)
(* Proofs about Orderbuch, for every number of price levels, every width   *)
(* of u64 and every set of quantities.                                     *)
(***************************************************************************)
EXTENDS Orderbuch, TLAPS, FiniteSetTheorems,
        WellFoundedInduction

(* A nonempty set of natural numbers has a least element.                  *)
LEMMA Kleinstes ==
    ASSUME NEW S \in SUBSET Nat, S # {}
    PROVE  \E x \in S : \A y \in S : x <= y
<1> DEFINE R == {p \in Nat \X Nat : p[1] < p[2]}
<1>1. IsWellFoundedOn(R, Nat)
    BY NatLessThanWellFounded, SMT DEF OpToRel
<1>2. \A x, y \in Nat : <<y, x>> \in R <=> y < x
    OBVIOUS
<1> HIDE DEF R
<1>3. PICK x \in S : \A y \in S : ~ (<<y, x>> \in R)
    BY <1>1, WFMin, Zenon
<1>4. x \in Nat /\ \A y \in S : y \in Nat /\ ~ (y < x)
    BY <1>2, <1>3, Zenon
<1> QED
    BY <1>4

(* A nonempty set of natural numbers up to n has a greatest element.       *)
LEMMA Groesstes ==
    ASSUME NEW n \in Nat, NEW S \in SUBSET (0 .. n), S # {}
    PROVE  \E x \in S : \A y \in S : x >= y
<1> DEFINE T == {y \in Nat : n - y \in S}
<1>0. \A x \in S : x \in 0 .. n
    OBVIOUS
<1>1. T # {}
  <2>1. PICK x \in S : TRUE
      OBVIOUS
  <2>2. x \in 0 .. n /\ n - x \in Nat /\ n - (n - x) = x
      BY <2>1, <1>0
  <2> QED
      BY <2>1, <2>2
<1>2. PICK z \in T : \A y \in T : z <= y
    BY <1>1, Kleinstes
<1>3. \A y \in S : n - y \in T
    BY <1>0
<1>4. \A y \in S : n - z >= y
    BY <1>0, <1>2, <1>3
<1> QED
    BY <1>2, <1>4

(* Scanning the bit field upwards finds the lowest occupied tick.          *)
LEMMA TiefsterAbKorrekt ==
    ASSUME NEW B \in SUBSET TICK, NEW von \in Nat
    PROVE  \/ TiefsterAb(B, von) = KEIN /\ \A t \in B : t < von
           \/ /\ TiefsterAb(B, von) \in B
              /\ \A t \in B : t >= von => TiefsterAb(B, von) <= t
<1> DEFINE U == {t \in B : t >= von}
<1>0. \A t \in B : t \in Nat
    BY TicksAnnahme DEF TICK
<1>1. B \in SUBSET Nat /\ U \in SUBSET Nat
    BY <1>0
<1>2. CASE U = {}
    BY <1>1, <1>2 DEF TiefsterAb
<1>3. CASE U # {}
  <2>1. \E t \in U : \A u \in U : t <= u
      BY <1>1, <1>3, Kleinstes
  <2>2. TiefsterAb(B, von) = CHOOSE t \in U : \A u \in U : t <= u
      BY <1>3 DEF TiefsterAb
  <2>3. TiefsterAb(B, von) \in U /\ \A u \in U : TiefsterAb(B, von) <= u
      BY <2>1, <2>2, Zenon
  <2> QED
      BY <2>3
<1> QED
    BY <1>2, <1>3

(* Scanning it downwards finds the highest one.                            *)
LEMMA HoechsterBisKorrekt ==
    ASSUME NEW B \in SUBSET TICK, NEW von \in Nat
    PROVE  \/ HoechsterBis(B, von) = KEIN /\ \A t \in B : t > von
           \/ /\ HoechsterBis(B, von) \in B
              /\ \A t \in B : t <= von => HoechsterBis(B, von) >= t
<1> DEFINE U == {t \in B : t <= von}
<1>0. \A t \in B : t \in Nat
    BY TicksAnnahme DEF TICK
<1>1. B \in SUBSET Nat /\ U \in SUBSET (0 .. von)
    BY <1>0
<1>2. CASE U = {}
    BY <1>1, <1>2 DEF HoechsterBis
<1>3. CASE U # {}
  <2>1. \E t \in U : \A u \in U : t >= u
      BY <1>1, <1>3, Groesstes
  <2>2. HoechsterBis(B, von) = CHOOSE t \in U : \A u \in U : t >= u
      BY <1>3 DEF HoechsterBis
  <2>3. HoechsterBis(B, von) \in U /\ \A u \in U : HoechsterBis(B, von) >= u
      BY <2>1, <2>2, Zenon
  <2> QED
      BY <2>3
<1> QED
    BY <1>2, <1>3

(* When the best level is gone, the next best of what remains is found.    *)
LEMMA NaechsteBesteKorrekt ==
    ASSUME NEW s \in SEITE, NEW B \in SUBSET TICK, NEW t \in TICK, t \notin B,
           \A u \in B : NichtSchlechter(s, t, u)
    PROVE  \/ NaechsteBeste(s, B, t) = KEIN /\ B = {}
           \/ /\ NaechsteBeste(s, B, t) \in B
              /\ \A u \in B : NichtSchlechter(s, NaechsteBeste(s, B, t), u)
<1>1. t \in Nat /\ t < TICKS /\ TICKS \in Nat /\ B \in SUBSET Nat /\ \A u \in B : u < TICKS
    BY TicksAnnahme DEF TICK
<1>2. CASE s = VERKAUF
  <2>1. \A u \in B : u > t
      BY <1>1, <1>2 DEF NichtSchlechter
  <2>2. CASE t + 1 < TICKS
    <3>1. NaechsteBeste(s, B, t) = TiefsterAb(B, t + 1)
        BY <1>2, <2>2 DEF NaechsteBeste
    <3> QED
        BY <1>1, <1>2, <2>1, <3>1, TiefsterAbKorrekt DEF NichtSchlechter
  <2>3. CASE ~ (t + 1 < TICKS)
      BY <1>1, <1>2, <2>1, <2>3 DEF NaechsteBeste
  <2> QED
      BY <2>2, <2>3
<1>3. CASE s = KAUF
  <2>0. s # VERKAUF
      BY <1>3 DEF KAUF, VERKAUF
  <2>1. \A u \in B : u < t
      BY <1>1, <2>0 DEF NichtSchlechter
  <2>2. CASE t > 0
    <3>1. NaechsteBeste(s, B, t) = HoechsterBis(B, t - 1) /\ t - 1 \in Nat
        BY <1>1, <2>0, <2>2 DEF NaechsteBeste
    <3> QED
        BY <1>1, <2>0, <2>1, <3>1, HoechsterBisKorrekt DEF NichtSchlechter
  <2>3. CASE ~ (t > 0)
      BY <1>1, <2>0, <2>1, <2>3 DEF NaechsteBeste
  <2> QED
      BY <2>2, <2>3
<1> QED
    BY <1>2, <1>3 DEF SEITE

(* The maker of a turn of the matching loop is the head of an occupied     *)
(* level, and it has something to give.                                    *)
LEMMA GeberLiegt ==
    ASSUME IInv, Weiter
    PROVE  /\ nehmer.seite \in SEITE /\ GeberSeite \in SEITE
           /\ GeberTick \in TICK /\ GeberTick \in belegt[GeberSeite]
           /\ Geber \in SLOT /\ AufStufe(Geber, GeberSeite, GeberTick)
           /\ knoten[Geber].zurueck = KEIN
           /\ knoten[Geber].oid \in OID /\ 0 < knoten[Geber].oid
           /\ platz[knoten[Geber].oid] = Geber
           /\ knoten[Geber].menge \in MENGE /\ knoten[Geber].menge > 0
<1> USE DEF IInv, TypeOK
<1>1. nehmer.seite \in SEITE /\ GeberSeite \in SEITE
    BY DEF Nehmer, GeberSeite, Gegenseite, SEITE
<1>2. GeberTick # KEIN
    BY DEF Weiter, WuerdeKreuzen, GeberTick, GeberSeite
<1>3. GeberTick \in TICK /\ GeberTick \in belegt[GeberSeite]
    BY <1>1, <1>2 DEF BesteAusBelegt, GeberTick
<1>4. stufen[GeberSeite][GeberTick] \in Stufe /\ Geber # KEIN
    BY <1>1, <1>3 DEF BelegtStimmt, Geber
<1>5. AufStufe(Geber, GeberSeite, GeberTick) /\ knoten[Geber].zurueck = KEIN
    BY <1>1, <1>3, <1>4 DEF ZeigerStimmen, Enden, Geber
<1>6. Geber \in SLOT
    BY <1>4 DEF Geber, Stufe, VERWEIS
<1>7. knoten[Geber] \in Knoten
    BY <1>6
<1>8. knoten[Geber].oid \in OID /\ knoten[Geber].menge \in MENGE
    BY <1>7 DEF Knoten
<1>9. platz[knoten[Geber].oid] = Geber
    BY <1>5 DEF AufStufe, Lebt
<1>10. 0 < knoten[Geber].oid /\ knoten[Geber].menge > 0
    BY <1>4, <1>8, <1>9 DEF PlatzStimmt
<1> QED
    BY <1>1, <1>3, <1>5, <1>6, <1>8, <1>9, <1>10
-----------------------------------------------------------------------------
(* What kopf_entfernen() and the first half of stornieren() have in common *)
(* when they take slot x out of level t of side s.                         *)
Ausgehaengt(x, s, t) ==
    /\ AufStufe(x, s, t)
    /\ platz' = [platz EXCEPT ![knoten[x].oid] = KEIN]
    /\ frei' = Append(frei, x)
    /\ laenge' = laenge /\ naechste_oid' = naechste_oid /\ nehmer'.oid = nehmer.oid
    /\ ruhende_orders' = ruhende_orders - 1
    /\ \A y \in SLOT :
          /\ knoten'[y].oid = knoten[y].oid
          /\ knoten'[y].seite = knoten[y].seite
          /\ knoten'[y].tick = knoten[y].tick
          /\ y # x =>
              /\ knoten'[y].menge = knoten[y].menge
              /\ knoten'[y].weiter = IF y = knoten[x].zurueck THEN knoten[x].weiter
                                     ELSE knoten[y].weiter
              /\ knoten'[y].zurueck = IF y = knoten[x].weiter THEN knoten[x].zurueck
                                      ELSE knoten[y].zurueck
    /\ \A r \in SEITE, u \in TICK :
          IF r = s /\ u = t
          THEN /\ stufen'[r][u].kopf = IF stufen[r][u].kopf = x THEN knoten[x].weiter
                                       ELSE stufen[r][u].kopf
               /\ stufen'[r][u].fuss = IF stufen[r][u].fuss = x THEN knoten[x].zurueck
                                       ELSE stufen[r][u].fuss
          ELSE stufen'[r][u] = stufen[r][u]

(* Afterwards exactly the other orders rest.                               *)
LEMMA AusgehaengtLebt ==
    ASSUME IInv, NEW x \in SLOT, NEW s \in SEITE, NEW t \in TICK, Ausgehaengt(x, s, t)
    PROVE  /\ \A y \in SLOT : Lebt(y)' <=> Lebt(y) /\ y # x
           /\ \A y \in SLOT : Lebt(y) => /\ knoten[y].oid \in OID /\ 0 < knoten[y].oid
                                         /\ platz[knoten[y].oid] = y
           /\ \A y, z \in SLOT : Lebt(y) /\ Lebt(z) /\ knoten[y].oid = knoten[z].oid => y = z
<1> USE DEF IInv
<1>1. \A y \in SLOT : knoten[y].oid \in OID
    BY DEF TypeOK, Knoten
<1>2. \A y \in SLOT : y # KEIN
    BY MaxOrdersAnnahme DEF SLOT, KEIN
<1>3. \A y \in SLOT : Lebt(y) => platz[knoten[y].oid] = y
    BY DEF Lebt
<1>4. \A y \in SLOT : Lebt(y) => 0 < knoten[y].oid
    BY <1>1, <1>2, <1>3 DEF PlatzStimmt
<1>5. \A y, z \in SLOT : Lebt(y) /\ Lebt(z) /\ knoten[y].oid = knoten[z].oid => y = z
    BY <1>3
<1>6. platz \in [OID -> VERWEIS] /\ Lebt(x)
    BY DEF TypeOK, Ausgehaengt, AufStufe
<1>7. ASSUME NEW y \in SLOT PROVE Lebt(y)' <=> Lebt(y) /\ y # x
  <2>1. Lebt(y)' <=> platz'[knoten[y].oid] = y
      BY DEF Lebt, Ausgehaengt
  <2>2. CASE knoten[y].oid = knoten[x].oid
    <3>1. platz'[knoten[y].oid] = KEIN
        BY <1>1, <1>6, <2>2 DEF Ausgehaengt
    <3> QED
        BY <1>2, <1>3, <1>6, <2>1, <2>2, <3>1
  <2>3. CASE knoten[y].oid # knoten[x].oid
    <3>1. platz'[knoten[y].oid] = platz[knoten[y].oid]
        BY <1>1, <1>6, <2>3 DEF Ausgehaengt
    <3> QED
        BY <2>1, <2>3, <3>1 DEF Lebt
  <2> QED
      BY <2>2, <2>3
<1> QED
    BY <1>1, <1>3, <1>4, <1>5, <1>7

(* The neighbours of the slot, and the ends of its level.                  *)
LEMMA AusgehaengtNachbarn ==
    ASSUME IInv, NEW x \in SLOT, NEW s \in SEITE, NEW t \in TICK, Ausgehaengt(x, s, t)
    PROVE  /\ Lebt(x) /\ knoten[x].seite = s /\ knoten[x].tick = t
           /\ knoten[x].zurueck # KEIN =>
                 /\ knoten[x].zurueck \in SLOT \ {x}
                 /\ AufStufe(knoten[x].zurueck, s, t)
                 /\ knoten[knoten[x].zurueck].weiter = x
                 /\ knoten[knoten[x].zurueck].oid < knoten[x].oid
           /\ knoten[x].weiter # KEIN =>
                 /\ knoten[x].weiter \in SLOT \ {x}
                 /\ AufStufe(knoten[x].weiter, s, t)
                 /\ knoten[knoten[x].weiter].zurueck = x
                 /\ knoten[x].oid < knoten[knoten[x].weiter].oid
           /\ knoten[x].zurueck = KEIN <=> stufen[s][t].kopf = x
           /\ knoten[x].weiter = KEIN <=> stufen[s][t].fuss = x
<1>1. Lebt(x) /\ knoten[x].seite = s /\ knoten[x].tick = t
    BY DEF Ausgehaengt, AufStufe
<1>2. /\ \A y \in SLOT : Lebt(y) => Nachbarn(y)
      /\ Nachbarn(x) /\ Enden(s, t)
    BY <1>1 DEF IInv, ZeigerStimmen
<1>3. \A y \in SLOT : knoten[y].oid \in Int /\ y # KEIN
    BY MaxOrdersAnnahme DEF IInv, TypeOK, Knoten, OID, SLOT, KEIN
<1>4. knoten[x].weiter \in SLOT \cup {KEIN} /\ knoten[x].zurueck \in SLOT \cup {KEIN}
    BY DEF IInv, TypeOK, Knoten, VERWEIS
<1>5. knoten[x].zurueck = KEIN <=> stufen[s][t].kopf = x
    BY <1>1, <1>2, <1>3 DEF Nachbarn, Enden
<1>6. knoten[x].weiter = KEIN <=> stufen[s][t].fuss = x
    BY <1>1, <1>2, <1>3 DEF Nachbarn, Enden
<1>7. ASSUME knoten[x].weiter # KEIN
      PROVE  /\ knoten[x].weiter \in SLOT \ {x}
             /\ AufStufe(knoten[x].weiter, s, t)
             /\ knoten[knoten[x].weiter].zurueck = x
             /\ knoten[x].oid < knoten[knoten[x].weiter].oid
  <2>1. PICK b \in SLOT : b = knoten[x].weiter
      BY <1>4, <1>7
  <2>2. /\ AufStufe(b, s, t) /\ knoten[b].zurueck = x
        /\ knoten[x].oid < knoten[b].oid
      BY <1>1, <1>2, <1>7, <2>1 DEF Nachbarn
  <2>3. b # x
      BY <1>3, <2>1, <2>2
  <2> QED
      BY <2>1, <2>2, <2>3
<1>8. ASSUME knoten[x].zurueck # KEIN
      PROVE  /\ knoten[x].zurueck \in SLOT \ {x}
             /\ AufStufe(knoten[x].zurueck, s, t)
             /\ knoten[knoten[x].zurueck].weiter = x
             /\ knoten[knoten[x].zurueck].oid < knoten[x].oid
  <2>0. PICK a \in SLOT : a = knoten[x].zurueck
      BY <1>4, <1>8
  <2>1. AufStufe(a, s, t) /\ knoten[a].weiter = x
      BY <1>1, <1>2, <1>8, <2>0 DEF Nachbarn
  <2>2. Nachbarn(a)
      BY <1>2, <2>1 DEF AufStufe
  <2>3. knoten[a].oid < knoten[x].oid
      BY <1>3, <2>1, <2>2 DEF Nachbarn
  <2>4. a # x
      BY <1>3, <2>3
  <2> QED
      BY <2>0, <2>1, <2>3, <2>4
<1> QED
    BY <1>1, <1>5, <1>6, <1>7, <1>8

(* The lists stay well linked ...                                          *)
LEMMA AusgehaengtZeiger ==
    ASSUME IInv, NEW x \in SLOT, NEW s \in SEITE, NEW t \in TICK, Ausgehaengt(x, s, t)
    PROVE  ZeigerStimmen'
<1>0. PICK a \in SLOT \cup {KEIN}, b \in SLOT \cup {KEIN} :
          a = knoten[x].zurueck /\ b = knoten[x].weiter
    BY DEF IInv, TypeOK, Knoten, VERWEIS
<1>1. \A y \in SLOT : Lebt(y)' <=> Lebt(y) /\ y # x
    BY AusgehaengtLebt
<1>2. /\ Lebt(x) /\ knoten[x].seite = s /\ knoten[x].tick = t
      /\ a # KEIN => /\ a \in SLOT \ {x} /\ AufStufe(a, s, t)
                     /\ knoten[a].weiter = x /\ knoten[a].oid < knoten[x].oid
      /\ b # KEIN => /\ b \in SLOT \ {x} /\ AufStufe(b, s, t)
                     /\ knoten[b].zurueck = x /\ knoten[x].oid < knoten[b].oid
      /\ a = KEIN <=> stufen[s][t].kopf = x
      /\ b = KEIN <=> stufen[s][t].fuss = x
    BY <1>0, AusgehaengtNachbarn
<1>3. /\ \A y \in SLOT : Lebt(y) => Nachbarn(y)
      /\ \A r \in SEITE, u \in TICK : Enden(r, u)
    BY DEF IInv, ZeigerStimmen
<1>4. \A y \in SLOT : /\ knoten[y].weiter \in SLOT \cup {KEIN}
                      /\ knoten[y].zurueck \in SLOT \cup {KEIN}
                      /\ knoten[y].seite \in SEITE /\ knoten[y].tick \in TICK
                      /\ knoten[y].oid \in Int /\ y # KEIN
    BY MaxOrdersAnnahme DEF IInv, TypeOK, Knoten, VERWEIS, OID, SLOT, KEIN
<1>5. \A r \in SEITE, u \in TICK : /\ stufen[r][u].kopf \in SLOT \cup {KEIN}
                                   /\ stufen[r][u].fuss \in SLOT \cup {KEIN}
    BY DEF IInv, TypeOK, Stufe, VERWEIS
<1>6. \A y \in SLOT : /\ knoten'[y].oid = knoten[y].oid
                      /\ knoten'[y].seite = knoten[y].seite
                      /\ knoten'[y].tick = knoten[y].tick
                      /\ y # x =>
                           /\ knoten'[y].weiter = IF y = a THEN b ELSE knoten[y].weiter
                           /\ knoten'[y].zurueck = IF y = b THEN a ELSE knoten[y].zurueck
    BY <1>0 DEF Ausgehaengt
<1>7. \A r \in SEITE, u \in TICK :
         /\ stufen'[r][u].kopf = IF r = s /\ u = t /\ stufen[r][u].kopf = x THEN b
                                 ELSE stufen[r][u].kopf
         /\ stufen'[r][u].fuss = IF r = s /\ u = t /\ stufen[r][u].fuss = x THEN a
                                 ELSE stufen[r][u].fuss
    BY <1>0 DEF Ausgehaengt
<1>8. \A y \in SLOT, r \in SEITE, u \in TICK : AufStufe(y, r, u)' <=> AufStufe(y, r, u) /\ y # x
    BY <1>1, <1>6 DEF AufStufe
<1>9. ASSUME NEW y \in SLOT, Lebt(y)'
      PROVE  Nachbarn(y)'
  <2>1. Lebt(y) /\ y # x
      BY <1>1, <1>9
  <2>2. PICK r \in SEITE, u \in TICK, w \in SLOT \cup {KEIN}, z \in SLOT \cup {KEIN} :
            /\ r = knoten[y].seite /\ u = knoten[y].tick
            /\ w = knoten[y].weiter /\ z = knoten[y].zurueck
      BY <1>4
  <2>3. /\ w # KEIN => AufStufe(w, r, u) /\ knoten[w].zurueck = y /\ knoten[y].oid < knoten[w].oid
        /\ z # KEIN => AufStufe(z, r, u) /\ knoten[z].weiter = y
        /\ w = KEIN => stufen[r][u].fuss = y
        /\ z = KEIN => stufen[r][u].kopf = y
      BY <1>3, <2>1, <2>2 DEF Nachbarn
  <2>4. PICK ww \in SLOT \cup {KEIN}, zz \in SLOT \cup {KEIN} :
            /\ ww = IF y = a THEN b ELSE w
            /\ zz = IF y = b THEN a ELSE z
      BY <1>4
  <2>5. /\ knoten'[y].weiter = ww /\ knoten'[y].zurueck = zz
        /\ knoten'[y].oid = knoten[y].oid
        /\ knoten'[y].seite = r /\ knoten'[y].tick = u
      BY <1>6, <2>1, <2>2, <2>4
  <2>6. y = a => w = x /\ a \in SLOT /\ r = s /\ u = t /\ knoten[y].oid < knoten[x].oid
      BY <1>2, <1>4, <2>2 DEF AufStufe
  <2>7. y = b => z = x /\ b \in SLOT /\ r = s /\ u = t
      BY <1>2, <1>4, <2>2 DEF AufStufe
  <2>8. ww # KEIN => AufStufe(ww, r, u)' /\ knoten'[ww].zurueck = y /\ knoten[y].oid < knoten'[ww].oid
    <3>1. CASE y = a
        BY <1>2, <1>4, <1>6, <1>8, <2>4, <2>6, <3>1
    <3>2. CASE y # a
      <4>1. w # KEIN => w # x /\ w # b
          BY <1>0, <1>2, <1>4, <2>1, <2>3, <3>2
      <4> QED
          BY <1>6, <1>8, <2>3, <2>4, <3>2, <4>1
    <3> QED
        BY <3>1, <3>2
  <2>9. zz # KEIN => AufStufe(zz, r, u)' /\ knoten'[zz].weiter = y
    <3>1. CASE y = b
        BY <1>2, <1>4, <1>6, <1>8, <2>4, <2>7, <3>1
    <3>2. CASE y # b
      <4>1. z # KEIN => z # x /\ z # a
          BY <1>0, <1>2, <1>4, <2>1, <2>3, <3>2
      <4> QED
          BY <1>6, <1>8, <2>3, <2>4, <3>2, <4>1
    <3> QED
        BY <3>1, <3>2
  <2>10. ww = KEIN => stufen'[r][u].fuss = y
      BY <1>2, <1>4, <1>7, <2>1, <2>3, <2>4, <2>6
  <2>11. zz = KEIN => stufen'[r][u].kopf = y
      BY <1>2, <1>4, <1>7, <2>1, <2>3, <2>4, <2>7
  <2> QED
      BY <2>5, <2>8, <2>9, <2>10, <2>11 DEF Nachbarn, AufStufe, Lebt
<1>10. ASSUME NEW r \in SEITE, NEW u \in TICK
       PROVE  Enden(r, u)'
  <2>1. PICK k \in SLOT \cup {KEIN}, f \in SLOT \cup {KEIN} :
            k = stufen[r][u].kopf /\ f = stufen[r][u].fuss
      BY <1>5
  <2>2. /\ k = KEIN <=> f = KEIN
        /\ k # KEIN => AufStufe(k, r, u) /\ knoten[k].zurueck = KEIN
        /\ f # KEIN => AufStufe(f, r, u) /\ knoten[f].weiter = KEIN
      BY <1>3, <2>1 DEF Enden
  <2>3. PICK kk \in SLOT \cup {KEIN}, ff \in SLOT \cup {KEIN} :
            /\ kk = IF k = x THEN b ELSE k
            /\ ff = IF f = x THEN a ELSE f
      BY <1>4
  <2>4. /\ k = x => r = s /\ u = t
        /\ f = x => r = s /\ u = t
      BY <1>2, <1>4, <2>2 DEF AufStufe
  <2>5. stufen'[r][u].kopf = kk /\ stufen'[r][u].fuss = ff
      BY <1>7, <2>1, <2>3, <2>4
  <2>6. kk # KEIN => AufStufe(kk, r, u)' /\ knoten'[kk].zurueck = KEIN
    <3>1. CASE k = x
        BY <1>2, <1>4, <1>6, <1>8, <2>1, <2>3, <2>4, <3>1
    <3>2. CASE k # x
      <4>1. k # KEIN => k # b
          BY <1>2, <1>4, <2>2
      <4> QED
          BY <1>6, <1>8, <2>2, <2>3, <3>2, <4>1
    <3> QED
        BY <3>1, <3>2
  <2>7. ff # KEIN => AufStufe(ff, r, u)' /\ knoten'[ff].weiter = KEIN
    <3>1. CASE f = x
        BY <1>2, <1>4, <1>6, <1>8, <2>1, <2>3, <2>4, <3>1
    <3>2. CASE f # x
      <4>1. f # KEIN => f # a
          BY <1>2, <1>4, <2>2
      <4> QED
          BY <1>6, <1>8, <2>2, <2>3, <3>2, <4>1
    <3> QED
        BY <3>1, <3>2
  <2>8. kk = KEIN <=> ff = KEIN
      BY <1>2, <1>4, <2>1, <2>2, <2>3, <2>4
  <2> QED
      BY <2>5, <2>6, <2>7, <2>8 DEF Enden, AufStufe, Lebt
<1> QED
    BY <1>9, <1>10 DEF ZeigerStimmen

(* ... and in the order of age.                                            *)
LEMMA AusgehaengtOrdnung ==
    ASSUME IInv, NEW x \in SLOT, NEW s \in SEITE, NEW t \in TICK, Ausgehaengt(x, s, t)
    PROVE  ZeitOrdnung'
<1>1. \A y \in SLOT : Lebt(y)' <=> Lebt(y) /\ y # x
    BY AusgehaengtLebt
<1>2. \A y, z \in SLOT : Lebt(y) /\ Lebt(z) /\ knoten[y].oid = knoten[z].oid => y = z
    BY AusgehaengtLebt
<1>3. \A y \in SLOT : /\ knoten[y].weiter \in SLOT \cup {KEIN}
                      /\ knoten[y].zurueck \in SLOT \cup {KEIN}
                      /\ knoten[y].seite \in SEITE /\ knoten[y].tick \in TICK
                      /\ knoten[y].oid \in Int /\ y # KEIN
    BY MaxOrdersAnnahme DEF IInv, TypeOK, Knoten, VERWEIS, OID, SLOT, KEIN
<1>4. /\ \A y \in SLOT : Lebt(y) => Nachbarn(y)
      /\ \A r \in SEITE, u \in TICK : Enden(r, u)
      /\ AufStufe(x, s, t) /\ Lebt(x)
    BY DEF IInv, ZeigerStimmen, Ausgehaengt, AufStufe
<1>5. ASSUME NEW y \in SLOT, NEW z \in SLOT, Lebt(y)', Lebt(z)', SelbeStufe(y, z)',
             knoten'[y].oid < knoten'[z].oid
      PROVE  knoten'[y].weiter # KEIN /\ knoten'[knoten'[y].weiter].oid <= knoten'[z].oid
  <2>1. /\ Lebt(y) /\ y # x /\ Lebt(z) /\ z # x
        /\ SelbeStufe(y, z) /\ knoten[y].oid < knoten[z].oid
      BY <1>1, <1>5 DEF SelbeStufe, Ausgehaengt
  <2>2. knoten[y].weiter # KEIN /\ knoten[knoten[y].weiter].oid <= knoten[z].oid
      BY <2>1 DEF IInv, ZeitOrdnung
  <2>3. CASE y = knoten[x].zurueck
    <3>0. y # KEIN /\ knoten[y].weiter = x /\ AufStufe(y, s, t)
        BY <1>3, <2>3, AusgehaengtNachbarn
    <3>1. knoten[y].weiter = x /\ SelbeStufe(x, z) /\ knoten[x].oid <= knoten[z].oid
        BY <1>4, <2>1, <2>2, <3>0 DEF AufStufe, SelbeStufe
    <3>2. knoten[x].oid < knoten[z].oid
        BY <1>2, <1>3, <1>4, <2>1, <3>1
    <3>3. knoten[x].weiter # KEIN /\ knoten[knoten[x].weiter].oid <= knoten[z].oid
        BY <1>4, <2>1, <3>1, <3>2 DEF IInv, ZeitOrdnung
    <3>4. knoten'[y].weiter = knoten[x].weiter
        BY <2>1, <2>3 DEF Ausgehaengt
    <3> QED
        BY <1>3, <3>3, <3>4 DEF Ausgehaengt
  <2>4. CASE y # knoten[x].zurueck
    <3>1. knoten'[y].weiter = knoten[y].weiter
        BY <2>1, <2>4 DEF Ausgehaengt
    <3> QED
        BY <1>3, <2>2, <3>1 DEF Ausgehaengt
  <2> QED
      BY <2>3, <2>4
<1>6. ASSUME NEW y \in SLOT, Lebt(y)'
      PROVE  LET k == stufen'[knoten'[y].seite][knoten'[y].tick].kopf
             IN  k # KEIN /\ knoten'[k].oid <= knoten'[y].oid
  <2> DEFINE k == stufen[knoten[y].seite][knoten[y].tick].kopf
             kk == stufen'[knoten[y].seite][knoten[y].tick].kopf
  <2>1. Lebt(y) /\ y # x /\ k # KEIN /\ knoten[k].oid <= knoten[y].oid
      BY <1>1, <1>6 DEF IInv, ZeitOrdnung
  <2>2. k \in SLOT /\ AufStufe(k, knoten[y].seite, knoten[y].tick)
      BY <1>3, <1>4, <2>1 DEF Enden, IInv, TypeOK, Stufe, VERWEIS
  <2>3. CASE k = x
    <3>1. kk = knoten[x].weiter
        BY <1>3, <1>4, <2>2, <2>3 DEF Ausgehaengt, AufStufe
    <3>2. knoten[x].oid < knoten[y].oid /\ SelbeStufe(x, y)
        BY <1>2, <1>3, <1>4, <2>1, <2>2, <2>3 DEF AufStufe, SelbeStufe
    <3>3. knoten[x].weiter # KEIN /\ knoten[knoten[x].weiter].oid <= knoten[y].oid
        BY <1>4, <2>1, <3>2 DEF IInv, ZeitOrdnung
    <3> QED
        BY <1>3, <3>1, <3>3 DEF Ausgehaengt
  <2>4. CASE k # x
    <3>1. kk = k
        BY <1>3, <2>4 DEF Ausgehaengt
    <3>2. /\ knoten'[k].oid = knoten[k].oid /\ knoten'[y].oid = knoten[y].oid
          /\ knoten'[y].seite = knoten[y].seite /\ knoten'[y].tick = knoten[y].tick
        BY <2>2 DEF Ausgehaengt
    <3> QED
        BY <2>1, <3>1, <3>2
  <2> QED
      BY <2>3, <2>4
<1> QED
    BY <1>5, <1>6 DEF ZeitOrdnung

(* One element less.                                                       *)
LEMMA Weniger ==
    ASSUME NEW L, IsFiniteSet(L), NEW o \in L
    PROVE  Cardinality(L \ {o}) = Cardinality(L) - 1 /\ Cardinality(L \ {o}) \in Nat
<1>1. IsFiniteSet(L \ {o}) /\ Cardinality(L \ {o}) = Cardinality(L) - 1
    BY FS_RemoveElement
<1> QED
    BY <1>1, FS_CardinalityType

(* One element more.                                                        *)
LEMMA Mehr ==
    ASSUME NEW L, IsFiniteSet(L), NEW o, o \notin L
    PROVE  Cardinality(L \cup {o}) = Cardinality(L) + 1 /\ Cardinality(L) \in Nat
BY FS_AddElement, FS_CardinalityType

(* The index and the free stack stay right, and so does the count.         *)
LEMMA AusgehaengtPlatz ==
    ASSUME IInv, NEW x \in SLOT, NEW s \in SEITE, NEW t \in TICK, Ausgehaengt(x, s, t)
    PROVE  /\ PlatzStimmt' /\ FreiStimmt' /\ KeinSlotVerloren' /\ RuhendeGezaehlt'
           /\ platz' \in [OID -> VERWEIS] /\ frei' \in Seq(SLOT) /\ ruhende_orders' \in Nat
<1> DEFINE oid == knoten[x].oid
<1>1. /\ \A y \in SLOT : Lebt(y)' <=> Lebt(y) /\ y # x
      /\ \A y \in SLOT : Lebt(y) => knoten[y].oid \in OID /\ platz[knoten[y].oid] = y
    BY AusgehaengtLebt
<1>2. Lebt(x) /\ oid \in OID /\ platz[oid] = x /\ x # KEIN
    BY <1>1, AusgehaengtNachbarn, MaxOrdersAnnahme DEF SLOT, KEIN
<1>3. platz \in [OID -> VERWEIS] /\ frei \in Seq(SLOT) /\ ruhende_orders \in Nat
    BY DEF IInv, TypeOK
<1>4. /\ platz' \in [OID -> VERWEIS]
      /\ \A o \in OID : platz'[o] = IF o = oid THEN KEIN ELSE platz[o]
    BY <1>2, <1>3 DEF Ausgehaengt, VERWEIS
<1>5. /\ frei' \in Seq(SLOT) /\ Len(frei') = Len(frei) + 1
      /\ frei'[Len(frei) + 1] = x
      /\ \A i \in 1 .. Len(frei) : frei'[i] = frei[i] /\ frei[i] \in SLOT
    BY <1>3 DEF Ausgehaengt
<1>6. x < laenge /\ laenge' = laenge /\ naechste_oid' = naechste_oid
    BY <1>2 DEF IInv, PlatzStimmt, Ausgehaengt
<1>7. PlatzStimmt'
  <2>1. ASSUME NEW o \in OID, platz'[o] # KEIN
        PROVE  /\ 0 < o /\ o < naechste_oid' /\ o # nehmer'.oid
               /\ platz'[o] < laenge'
               /\ knoten'[platz'[o]].oid = o
               /\ knoten'[platz'[o]].menge > 0
    <3>1. o # oid /\ platz'[o] = platz[o]
        BY <1>4, <2>1
    <3>2. PICK y \in SLOT : y = platz[o]
        BY <1>3, <2>1, <3>1 DEF VERWEIS
    <3>3. /\ 0 < o /\ o < naechste_oid /\ o # nehmer.oid /\ y < laenge
          /\ knoten[y].oid = o /\ knoten[y].menge > 0
        BY <2>1, <3>1, <3>2 DEF IInv, PlatzStimmt
    <3>4. y # x
        BY <3>1, <3>3
    <3> QED
        BY <3>1, <3>2, <3>3, <3>4 DEF Ausgehaengt
  <2>2. ~Ruhig' => nehmer'.oid = naechste_oid' - 1
      BY DEF IInv, PlatzStimmt, Ruhig, Ausgehaengt
  <2> QED
      BY <2>1, <2>2 DEF PlatzStimmt
<1>8. \A i \in 1 .. Len(frei) : frei[i] < laenge /\ ~Lebt(frei[i])
    BY DEF IInv, FreiStimmt
<1>9. \A i \in 1 .. Len(frei') : frei'[i] < laenge' /\ ~Lebt(frei[i])'
  <2> SUFFICES ASSUME NEW i \in 1 .. Len(frei')
               PROVE  frei'[i] < laenge' /\ ~Lebt(frei[i])'
      OBVIOUS
  <2>1. PICK y \in SLOT : y = frei'[i]
      BY <1>5
  <2>2. y < laenge /\ ~Lebt(y)'
      BY <1>1, <1>3, <1>5, <1>6, <1>8, <2>1
  <2> QED
      BY <1>6, <2>1, <2>2 DEF Lebt
<1>10. \A i, j \in 1 .. Len(frei') : frei'[i] = frei'[j] => i = j
  <2>1. \A i \in 1 .. Len(frei) : frei[i] # x
      BY <1>2, <1>8
  <2>2. \A i, j \in 1 .. Len(frei) : frei[i] = frei[j] => i = j
      BY DEF IInv, FreiStimmt
  <2>3. Len(frei) \in Nat
      BY <1>3
  <2> QED
      BY <1>5, <2>1, <2>2, <2>3
<1>11. FreiStimmt'
  <2>1. laenge' < naechste_oid' /\ (~Ruhig' => laenge' + 1 < naechste_oid')
      BY DEF IInv, FreiStimmt, Ruhig, Ausgehaengt
  <2> QED
      BY <1>9, <1>10, <2>1 DEF FreiStimmt
<1>12. KeinSlotVerloren'
  <2> SUFFICES ASSUME NEW y \in SLOT, y < laenge'
               PROVE  Lebt(y)' \/ \E i \in 1 .. Len(frei') : frei'[i] = y
      BY DEF KeinSlotVerloren
  <2>1. Len(frei) \in Nat
      BY <1>3
  <2>2. Lebt(y) \/ \E i \in 1 .. Len(frei) : frei[i] = y
      BY <1>6 DEF IInv, KeinSlotVerloren
  <2> QED
      BY <1>1, <1>5, <2>1, <2>2
<1>13. RuhendeGezaehlt' /\ ruhende_orders' \in Nat
  <2> DEFINE L == {o \in OID : platz[o] # KEIN}
             M == {o \in OID : platz'[o] # KEIN}
  <2>1. IsFiniteSet(OID)
      BY FS_Interval, MaxOrdersAnnahme DEF OID
  <2>2. IsFiniteSet(L)
      BY <2>1, FS_Subset
  <2>3. M = L \ {oid} /\ oid \in L
      BY <1>2, <1>4
  <2> HIDE DEF L, M, oid
  <2>4. Cardinality(M) = Cardinality(L) - 1 /\ Cardinality(M) \in Nat
      BY <2>2, <2>3, Weniger
  <2>5. ruhende_orders = Cardinality(L)
      BY DEF IInv, RuhendeGezaehlt, L
  <2> QED
      BY <2>4, <2>5 DEF RuhendeGezaehlt, Ausgehaengt, M
<1> QED
    BY <1>4, <1>5, <1>7, <1>11, <1>12, <1>13

(* A level that lost its last order loses its bit, and the best moves on.  *)
Nachgefuehrt(s, t) ==
    IF stufen'[s][t].kopf = KEIN
    THEN /\ belegt' = [belegt EXCEPT ![s] = belegt[s] \ {t}]
         /\ beste' = IF beste[s] = t
                     THEN [beste EXCEPT ![s] = NaechsteBeste(s, belegt[s] \ {t}, t)]
                     ELSE beste
    ELSE belegt' = belegt /\ beste' = beste

(* The bit ladder and the cached best ticks stay right, if the level that   *)
(* became empty has been followed up.                                       *)
LEMMA AusgehaengtLeiter ==
    ASSUME IInv, NEW x \in SLOT, NEW s \in SEITE, NEW t \in TICK, Ausgehaengt(x, s, t),
           Nachgefuehrt(s, t)
    PROVE  /\ BelegtStimmt' /\ BesteAusBelegt' /\ StufenGekreuztNie'
           /\ belegt' \in [SEITE -> SUBSET TICK] /\ beste' \in [SEITE -> TICK \cup {KEIN}]
<1> DEFINE B == belegt[s] \ {t}
<1>1. /\ belegt \in [SEITE -> SUBSET TICK] /\ beste \in [SEITE -> TICK \cup {KEIN}]
      /\ BelegtStimmt /\ BesteAusBelegt /\ StufenGekreuztNie
    BY DEF IInv, TypeOK
<1>2. \A r \in SEITE, u \in TICK :
          ~ (r = s /\ u = t) => stufen'[r][u] = stufen[r][u]
    BY DEF Ausgehaengt
<1>3. t \in belegt[s] /\ KEIN \notin TICK
  <2>1. stufen[s][t].kopf # KEIN
      BY AusgehaengtNachbarn DEF IInv, ZeitOrdnung
  <2> QED
      BY <1>1, <2>1, TicksAnnahme DEF BelegtStimmt, TICK, KEIN
<1>4. CASE stufen'[s][t].kopf # KEIN
  <2>1. belegt' = belegt /\ beste' = beste
      BY <1>4 DEF Nachgefuehrt
  <2>2. BelegtStimmt'
      BY <1>1, <1>2, <1>3, <1>4, <2>1 DEF BelegtStimmt
  <2> QED
      BY <1>1, <2>1, <2>2 DEF BesteAusBelegt, StufenGekreuztNie
<1>5. CASE stufen'[s][t].kopf = KEIN
  <2>1. /\ belegt' = [belegt EXCEPT ![s] = B]
        /\ \A r \in SEITE : belegt'[r] = IF r = s THEN B ELSE belegt[r]
        /\ belegt' \in [SEITE -> SUBSET TICK]
      BY <1>1, <1>5 DEF Nachgefuehrt
  <2>2. BelegtStimmt'
      BY <1>1, <1>2, <1>5, <2>1 DEF BelegtStimmt
  <2>3. StufenGekreuztNie'
      BY <1>1, <2>1 DEF StufenGekreuztNie, SEITE
  <2>4. CASE beste[s] # t
    <3>1. beste' = beste
        BY <1>5, <2>4 DEF Nachgefuehrt
    <3>2. BesteAusBelegt'
        BY <1>1, <1>3, <2>1, <2>4, <3>1 DEF BesteAusBelegt
    <3> QED
        BY <1>1, <2>1, <2>2, <2>3, <3>1, <3>2
  <2>5. CASE beste[s] = t
    <3> DEFINE n == NaechsteBeste(s, B, t)
    <3>1. \A u \in B : NichtSchlechter(s, t, u)
        BY <1>1, <1>3, <2>5 DEF BesteAusBelegt
    <3>2. B \in SUBSET TICK /\ t \notin B
        BY <1>1
    <3>3. \/ n = KEIN /\ B = {}
          \/ n \in B /\ \A u \in B : NichtSchlechter(s, n, u)
        BY <3>1, <3>2, NaechsteBesteKorrekt
    <3>4. beste' = [beste EXCEPT ![s] = n]
        BY <1>5, <2>5 DEF Nachgefuehrt
    <3> HIDE DEF n
    <3>5. /\ \A r \in SEITE : beste'[r] = IF r = s THEN n ELSE beste[r]
          /\ beste' \in [SEITE -> TICK \cup {KEIN}]
        BY <1>1, <3>2, <3>3, <3>4
    <3>6. BesteAusBelegt'
        BY <1>1, <1>3, <2>1, <3>2, <3>3, <3>5 DEF BesteAusBelegt
    <3> QED
        BY <2>1, <2>2, <2>3, <3>5, <3>6
  <2> QED
      BY <2>4, <2>5
<1> QED
    BY <1>4, <1>5
-----------------------------------------------------------------------------
(* The part of IInv about the data structure.                              *)
Struktur ==
    /\ PlatzStimmt /\ FreiStimmt /\ KeinSlotVerloren
    /\ ZeigerStimmen /\ ZeitOrdnung
    /\ BelegtStimmt /\ BesteAusBelegt /\ StufenGekreuztNie
    /\ RuhendeGezaehlt

(* The invariant is the types and the structure of the book.                *)
LEMMA Zusammengesetzt == IInv <=> TypeOK /\ Struktur
BY DEF IInv, Struktur

(* A step that takes an order out keeps the structure.                     *)
LEMMA AusgehaengtStruktur ==
    ASSUME IInv, NEW x \in SLOT, NEW s \in SEITE, NEW t \in TICK, Ausgehaengt(x, s, t),
           Nachgefuehrt(s, t)
    PROVE  Struktur'
BY AusgehaengtZeiger, AusgehaengtOrdnung, AusgehaengtPlatz, AusgehaengtLeiter DEF Struktur

(* A step that leaves the lists and levels alone keeps the structure, and  *)
(* order numbers may be handed out meanwhile.                              *)
LEMMA UnberuehrtStruktur ==
    ASSUME IInv, UNCHANGED <<ablage, leiter, ruhende_orders>>,
           \/ naechste_oid' = naechste_oid /\ nehmer'.oid = nehmer.oid
           \/ naechste_oid' = naechste_oid /\ nehmer'.oid = 0
           \/ /\ Ruhig
              /\ naechste_oid' = naechste_oid + 1 /\ nehmer'.oid = naechste_oid
    PROVE  Struktur'
<1>1. /\ knoten' = knoten /\ laenge' = laenge /\ frei' = frei /\ platz' = platz
      /\ stufen' = stufen /\ belegt' = belegt /\ beste' = beste
      /\ ruhende_orders' = ruhende_orders
    BY DEF ablage, leiter
<1>2. naechste_oid \in Nat /\ laenge \in Nat /\ naechste_oid > 0
    BY MaxOrdersAnnahme DEF IInv, TypeOK
<1>3. \A o \in OID : o \in Nat
    BY MaxOrdersAnnahme DEF OID
<1>4. PlatzStimmt'
    BY <1>1, <1>2, <1>3 DEF IInv, PlatzStimmt, Ruhig
<1>5. FreiStimmt'
    BY <1>1, <1>2 DEF IInv, FreiStimmt, Ruhig, Lebt
<1>6. KeinSlotVerloren' /\ RuhendeGezaehlt' /\ StufenGekreuztNie'
    BY <1>1 DEF IInv, KeinSlotVerloren, Lebt, RuhendeGezaehlt, StufenGekreuztNie
<1>7. ZeigerStimmen'
    BY <1>1 DEF IInv, ZeigerStimmen, Nachbarn, Enden, AufStufe, Lebt
<1>8. ZeitOrdnung'
    BY <1>1 DEF IInv, ZeitOrdnung, SelbeStufe, Lebt
<1>9. BelegtStimmt' /\ BesteAusBelegt'
    BY <1>1 DEF IInv, BelegtStimmt, BesteAusBelegt
<1> QED
    BY <1>4, <1>5, <1>6, <1>7, <1>8, <1>9 DEF Struktur

(* The first state.                                                        *)
LEMMA InitIInv == Init => IInv
<1> SUFFICES ASSUME Init PROVE IInv
    OBVIOUS
<1> USE DEF Init
<1>1. /\ \A x \in SLOT : x # KEIN /\ ~ Lebt(x)
      /\ KEIN \in VERWEIS /\ 0 \in OID /\ 0 \in TICK /\ 0 \in MENGE /\ LEER.kopf = KEIN
    BY MaxOrdersAnnahme, TicksAnnahme, U64Annahme
       DEF SLOT, KEIN, Lebt, VERWEIS, OID, TICK, MENGE, LEER
<1>2. /\ LEER \in Stufe /\ NIEMAND \in Nehmer /\ ABGELEHNT \in Ergebnis
      /\ NIEMAND.menge <= NIEMAND.eingang
    BY <1>1 DEF Stufe, LEER, NIEMAND, Nehmer, SEITE, ABGELEHNT, Ergebnis
<1>3. knoten \in [SLOT -> Knoten]
    BY <1>1 DEF Knoten, SEITE
<1>4. TypeOK
    BY <1>1, <1>2, <1>3, MaxOrdersAnnahme DEF TypeOK
<1>5. PlatzStimmt /\ FreiStimmt /\ KeinSlotVerloren
    BY <1>1, MaxOrdersAnnahme
       DEF PlatzStimmt, FreiStimmt, KeinSlotVerloren, Ruhig, NIEMAND, SLOT
<1>6. ZeigerStimmen /\ ZeitOrdnung
    BY <1>1 DEF ZeigerStimmen, ZeitOrdnung, Enden, LEER
<1>7. BelegtStimmt /\ BesteAusBelegt /\ StufenGekreuztNie
    BY <1>1 DEF BelegtStimmt, BesteAusBelegt, StufenGekreuztNie, SEITE, LEER
<1>8. RuhendeGezaehlt
  <2>1. {o \in OID : platz[o] # KEIN} = {}
      OBVIOUS
  <2> QED
      BY <2>1, FS_EmptySet DEF RuhendeGezaehlt
<1> QED
    BY <1>4, <1>5, <1>6, <1>7, <1>8 DEF IInv
-----------------------------------------------------------------------------
(* A wrapped sum is a u64, and so is what is left of one.                  *)
LEMMA Umlauf ==
    ASSUME NEW a \in Int
    PROVE  a % U64 \in MENGE
BY U64Annahme DEF MENGE

(* What is left of a u64 after a smaller one is taken is a u64.             *)
LEMMA Restmenge ==
    ASSUME NEW a \in MENGE, NEW b \in MENGE, b <= a
    PROVE  a - b \in MENGE
BY U64Annahme DEF MENGE

(* The maker of a turn keeps a rest: only quantities change.               *)
LEMMA GeberBleibtIInv ==
    ASSUME IInv, GeberBleibt
    PROVE  IInv'
<1>1. PICK x \in SLOT, s \in SEITE, t \in TICK : x = Geber /\ s = GeberSeite /\ t = GeberTick
    BY GeberLiegt DEF GeberBleibt
<1>2. /\ Lebt(x) /\ knoten[x].menge \in MENGE /\ knoten[x].oid \in OID
      /\ nehmer.menge \in MENGE /\ nehmer.menge > 0 /\ nehmer.menge < knoten[x].menge
      /\ nehmer \in Nehmer /\ nehmer.oid \in OID /\ nehmer.seite \in SEITE
    BY <1>1, GeberLiegt DEF GeberBleibt, AufStufe, Weiter, IInv, TypeOK, Nehmer
<1>3. /\ nehmer' = [nehmer EXCEPT !.menge = @ - nehmer.menge]
      /\ aus' = Append(aus, [tick |-> t, menge |-> nehmer.menge, nehmer |-> nehmer.oid,
                             geber |-> knoten[x].oid,
                             nehmer_kauft |-> nehmer.seite = KAUF])
      /\ anzahl_ausfuehrungen' = anzahl_ausfuehrungen + 1
      /\ volumen' = (volumen + nehmer.menge) % U64
      /\ knoten' = [knoten EXCEPT ![x].menge = @ - nehmer.menge]
      /\ stufen' = [stufen EXCEPT ![s][t].summe = (@ - nehmer.menge) % U64]
      /\ UNCHANGED <<laenge, frei, platz, belegt, beste, ruhende_orders,
                     naechste_oid, antwort>>
    BY <1>1 DEF GeberBleibt, Verbuchen
<1>4. /\ knoten \in [SLOT -> Knoten] /\ stufen \in [SEITE -> [TICK -> Stufe]]
      /\ aus \in Seq(Ausfuehrung) /\ volumen \in MENGE /\ anzahl_ausfuehrungen \in Nat
    BY DEF IInv, TypeOK
<1>5. U64 \in Nat /\ U64 > 0 /\ MENGE = 0 .. U64 - 1
    BY U64Annahme DEF MENGE
<1>6. /\ nehmer' \in Nehmer /\ nehmer'.oid = nehmer.oid
      /\ nehmer'.menge <= nehmer'.eingang
  <2>1. nehmer.menge <= nehmer.eingang /\ nehmer.eingang \in MENGE
      BY <1>2 DEF IInv, TypeOK, Nehmer
  <2>2. nehmer.menge - nehmer.menge = 0 /\ 0 \in MENGE /\ 0 <= nehmer.eingang
      BY <1>2, <1>5, <2>1
  <2> QED
      BY <1>2, <1>3, <2>1, <2>2 DEF Nehmer
<1>7. /\ knoten' \in [SLOT -> Knoten]
      /\ \A y \in SLOT : /\ knoten'[y].oid = knoten[y].oid
                         /\ knoten'[y].seite = knoten[y].seite
                         /\ knoten'[y].tick = knoten[y].tick
                         /\ knoten'[y].weiter = knoten[y].weiter
                         /\ knoten'[y].zurueck = knoten[y].zurueck
                         /\ knoten[y].menge > 0 => knoten'[y].menge > 0
  <2>1. knoten[x].menge - nehmer.menge \in MENGE /\ knoten[x].menge - nehmer.menge > 0
      BY <1>2, <1>5
  <2> QED
      BY <1>3, <1>4, <2>1 DEF Knoten
<1>8. \A m \in MENGE : (stufen[s][t].summe - m) % U64 \in MENGE
    BY <1>4, <1>5 DEF Stufe
<1>9. /\ stufen' \in [SEITE -> [TICK -> Stufe]]
      /\ \A r \in SEITE, u \in TICK : /\ stufen'[r][u].kopf = stufen[r][u].kopf
                                      /\ stufen'[r][u].fuss = stufen[r][u].fuss
    BY <1>2, <1>3, <1>4, <1>8 DEF Stufe
<1>10. aus' \in Seq(Ausfuehrung)
    BY <1>2, <1>3, <1>4 DEF Ausfuehrung
<1>11. volumen' \in MENGE
  <2>1. volumen + nehmer.menge \in Int
      BY <1>2, <1>4, <1>5
  <2> QED
      BY <1>3, <2>1, Umlauf
<1>12. TypeOK'
    BY <1>3, <1>4, <1>6, <1>7, <1>9, <1>10, <1>11 DEF IInv, TypeOK
<1>13. \A y \in SLOT : Lebt(y)' <=> Lebt(y)
    BY <1>3, <1>7 DEF Lebt
<1>14. PlatzStimmt'
    BY <1>3, <1>6, <1>7 DEF IInv, TypeOK, PlatzStimmt, Ruhig, VERWEIS
<1>15. FreiStimmt' /\ KeinSlotVerloren' /\ RuhendeGezaehlt'
  <2>1. \A i \in 1 .. Len(frei) : frei[i] \in SLOT
      BY DEF IInv, TypeOK
  <2>2. \A i \in 1 .. Len(frei) : ~Lebt(frei[i]) => ~Lebt(frei[i])'
      BY <1>3, <1>7, <2>1 DEF Lebt
  <2> QED
      BY <1>3, <1>6, <1>13, <2>2
         DEF IInv, FreiStimmt, KeinSlotVerloren, RuhendeGezaehlt, Ruhig
<1>16. ZeigerStimmen'
  <2>1. \A y \in SLOT : /\ knoten[y].weiter \in SLOT \cup {KEIN}
                        /\ knoten[y].zurueck \in SLOT \cup {KEIN}
                        /\ knoten[y].seite \in SEITE /\ knoten[y].tick \in TICK
      BY <1>4 DEF Knoten, VERWEIS
  <2>2. ASSUME NEW y \in SLOT, Lebt(y) PROVE Nachbarn(y)'
    <3>1. Nachbarn(y)
        BY <2>2 DEF IInv, ZeigerStimmen
    <3> QED
        BY <1>3, <1>7, <1>9, <2>1, <3>1 DEF Nachbarn, AufStufe, Lebt
  <2>3. ASSUME NEW r \in SEITE, NEW u \in TICK PROVE Enden(r, u)'
    <3>1. PICK k \in SLOT \cup {KEIN}, f \in SLOT \cup {KEIN} :
              k = stufen[r][u].kopf /\ f = stufen[r][u].fuss
        BY <1>4 DEF Stufe, VERWEIS
    <3>2. /\ k = KEIN <=> f = KEIN
          /\ k # KEIN => AufStufe(k, r, u) /\ knoten[k].zurueck = KEIN
          /\ f # KEIN => AufStufe(f, r, u) /\ knoten[f].weiter = KEIN
        BY <3>1 DEF IInv, ZeigerStimmen, Enden
    <3>3. \A y \in SLOT : AufStufe(y, r, u) => AufStufe(y, r, u)'
        BY <1>7, <1>13 DEF AufStufe
    <3>4. stufen'[r][u].kopf = k /\ stufen'[r][u].fuss = f
        BY <1>9, <3>1
    <3>5. /\ k # KEIN => AufStufe(k, r, u)' /\ knoten'[k].zurueck = KEIN
          /\ f # KEIN => AufStufe(f, r, u)' /\ knoten'[f].weiter = KEIN
        BY <1>7, <3>2, <3>3
    <3> QED
        BY <3>2, <3>4, <3>5 DEF Enden, AufStufe, Lebt
  <2> QED
      BY <1>13, <2>2, <2>3 DEF ZeigerStimmen
<1>17. ZeitOrdnung'
  <2>1. \A y \in SLOT : /\ knoten[y].weiter \in SLOT \cup {KEIN}
                        /\ knoten[y].seite \in SEITE /\ knoten[y].tick \in TICK
      BY <1>4 DEF Knoten, VERWEIS
  <2>2. \A r \in SEITE, u \in TICK : stufen[r][u].kopf \in SLOT \cup {KEIN}
      BY <1>4 DEF Stufe, VERWEIS
  <2>3. ASSUME NEW y \in SLOT, NEW z \in SLOT, Lebt(y)', Lebt(z)', SelbeStufe(y, z)',
               knoten'[y].oid < knoten'[z].oid
        PROVE  knoten'[y].weiter # KEIN /\ knoten'[knoten'[y].weiter].oid <= knoten'[z].oid
    <3>1. /\ Lebt(y) /\ Lebt(z) /\ SelbeStufe(y, z) /\ knoten[y].oid < knoten[z].oid
        BY <1>7, <1>13, <2>3 DEF SelbeStufe
    <3>2. knoten[y].weiter # KEIN /\ knoten[knoten[y].weiter].oid <= knoten[z].oid
        BY <3>1 DEF IInv, ZeitOrdnung
    <3> QED
        BY <1>7, <2>1, <3>2
  <2>4. ASSUME NEW y \in SLOT, Lebt(y)'
        PROVE  LET k == stufen'[knoten'[y].seite][knoten'[y].tick].kopf
               IN  k # KEIN /\ knoten'[k].oid <= knoten'[y].oid
    <3>1. PICK k \in SLOT \cup {KEIN} : k = stufen[knoten[y].seite][knoten[y].tick].kopf
        BY <2>1, <2>2
    <3>2. k # KEIN /\ knoten[k].oid <= knoten[y].oid
        BY <1>13, <2>4, <3>1 DEF IInv, ZeitOrdnung
    <3>3. k = stufen'[knoten'[y].seite][knoten'[y].tick].kopf
        BY <1>7, <1>9, <2>1, <3>1
    <3> QED
        BY <1>7, <3>2, <3>3
  <2> QED
      BY <2>3, <2>4 DEF ZeitOrdnung
<1>18. BelegtStimmt' /\ BesteAusBelegt' /\ StufenGekreuztNie'
    BY <1>3, <1>9 DEF IInv, BelegtStimmt, BesteAusBelegt, StufenGekreuztNie
<1> QED
    BY <1>12, <1>14, <1>15, <1>16, <1>17, <1>18, Zusammengesetzt DEF IInv

(* The maker is used up.                                                   *)
LEMMA GeberVerbrauchtIInv ==
    ASSUME IInv, GeberVerbraucht
    PROVE  IInv'
<1>1. PICK x \in SLOT, s \in SEITE, t \in TICK : x = Geber /\ s = GeberSeite /\ t = GeberTick
    BY GeberLiegt DEF GeberVerbraucht
<1>2. PICK w \in VERWEIS, m \in MENGE : w = knoten[x].weiter /\ m = knoten[x].menge
    BY DEF IInv, TypeOK, Knoten
<1>3. /\ AufStufe(x, s, t) /\ knoten[x].oid \in OID /\ knoten[x].zurueck = KEIN
      /\ t \in belegt[s] /\ beste[s] = t /\ stufen[s][t].kopf = x
      /\ nehmer.menge \in MENGE /\ m <= nehmer.menge
      /\ nehmer \in Nehmer /\ nehmer.oid \in OID /\ nehmer.seite \in SEITE
    BY <1>1, <1>2, GeberLiegt
       DEF GeberVerbraucht, GeberTick, GeberSeite, Geber, IInv, TypeOK, Nehmer
<1>4. /\ nehmer' = [nehmer EXCEPT !.menge = @ - m]
      /\ aus' = Append(aus, [tick |-> t, menge |-> m, nehmer |-> nehmer.oid,
                             geber |-> knoten[x].oid,
                             nehmer_kauft |-> nehmer.seite = KAUF])
      /\ anzahl_ausfuehrungen' = anzahl_ausfuehrungen + 1
      /\ volumen' = (volumen + m) % U64
      /\ knoten' = [y \in SLOT |->
                      IF y = x THEN [knoten[y] EXCEPT !.menge = 0]
                      ELSE IF y = w THEN NeuerKopf(knoten[y]) ELSE knoten[y]]
      /\ stufen' = [stufen EXCEPT ![s][t] = OhneKopf(stufen[s][t], w, m)]
      /\ platz' = [platz EXCEPT ![knoten[x].oid] = KEIN]
      /\ frei' = Append(frei, x)
      /\ ruhende_orders' = ruhende_orders - 1
      /\ IF w = KEIN
         THEN /\ belegt' = [belegt EXCEPT ![s] = belegt[s] \ {t}]
              /\ beste' = [beste EXCEPT ![s] = NaechsteBeste(s, belegt[s] \ {t}, t)]
         ELSE belegt' = belegt /\ beste' = beste
      /\ UNCHANGED <<laenge, naechste_oid, antwort>>
    BY <1>1, <1>2 DEF GeberVerbraucht, Verbuchen
<1>5. /\ knoten \in [SLOT -> Knoten] /\ stufen \in [SEITE -> [TICK -> Stufe]]
      /\ aus \in Seq(Ausfuehrung) /\ volumen \in MENGE /\ anzahl_ausfuehrungen \in Nat
    BY DEF IInv, TypeOK
<1>6. U64 \in Nat /\ U64 > 0 /\ MENGE = 0 .. U64 - 1 /\ KEIN \in VERWEIS
    BY U64Annahme DEF MENGE, VERWEIS
<1>7. /\ nehmer' \in Nehmer /\ nehmer'.oid = nehmer.oid
      /\ nehmer'.menge <= nehmer'.eingang
  <2>1. nehmer.menge - m \in MENGE
      BY <1>2, <1>3, Restmenge
  <2>2. nehmer.menge - m <= nehmer.eingang /\ nehmer.eingang \in MENGE
      BY <1>2, <1>3, <1>6 DEF IInv, TypeOK, Nehmer
  <2> QED
      BY <1>3, <1>4, <2>1, <2>2 DEF Nehmer
<1>8. /\ knoten' \in [SLOT -> Knoten]
      /\ \A y \in SLOT : /\ knoten'[y].oid = knoten[y].oid
                         /\ knoten'[y].seite = knoten[y].seite
                         /\ knoten'[y].tick = knoten[y].tick
                         /\ knoten'[y].weiter = knoten[y].weiter
                         /\ y # x => knoten'[y].menge = knoten[y].menge
                         /\ y # x => knoten'[y].zurueck = IF y = w THEN KEIN
                                                         ELSE knoten[y].zurueck
  <2>1. 0 \in MENGE
      BY <1>6
  <2>2. \A k \in Knoten : /\ [k EXCEPT !.menge = 0] \in Knoten
                          /\ [k EXCEPT !.zurueck = KEIN] \in Knoten
      BY <1>6, <2>1 DEF Knoten
  <2>3. knoten' \in [SLOT -> Knoten]
      BY <1>4, <1>5, <2>2 DEF NeuerKopf
  <2> QED
      BY <1>4, <1>5, <2>3 DEF NeuerKopf, Knoten
<1>9. (stufen[s][t].summe - m) % U64 \in MENGE
  <2>1. stufen[s][t].summe - m \in Int
      BY <1>2, <1>5, <1>6 DEF Stufe
  <2> QED
      BY <2>1, Umlauf
<1>10. OhneKopf(stufen[s][t], w, m) \in Stufe
  <2>1. stufen[s][t] \in Stufe
      BY <1>5
  <2> QED
      BY <1>2, <1>6, <1>9, <2>1 DEF Stufe, OhneKopf
<1>11. stufen' \in [SEITE -> [TICK -> Stufe]]
  <2>1. PICK st \in Stufe : st = OhneKopf(stufen[s][t], w, m)
      BY <1>10
  <2>2. stufen' = [stufen EXCEPT ![s][t] = st]
      BY <1>4, <2>1
  <2> QED
      BY <1>5, <2>2
<1>12. \A r \in SEITE, u \in TICK :
          IF r = s /\ u = t
          THEN /\ stufen'[r][u].kopf = w
               /\ stufen'[r][u].fuss = IF w = KEIN THEN KEIN ELSE stufen[r][u].fuss
          ELSE stufen'[r][u] = stufen[r][u]
    BY <1>4, <1>5 DEF Stufe, OhneKopf
<1>13. /\ Lebt(x) /\ knoten[x].seite = s /\ knoten[x].tick = t
       /\ w = KEIN <=> stufen[s][t].fuss = x
  <2>1. Lebt(x) /\ knoten[x].seite = s /\ knoten[x].tick = t
      BY <1>3 DEF AufStufe
  <2>2. Nachbarn(x) /\ Enden(s, t) /\ x # KEIN
      BY <2>1, MaxOrdersAnnahme DEF IInv, ZeigerStimmen, SLOT, KEIN
  <2> QED
      BY <1>2, <2>1, <2>2 DEF Nachbarn, Enden
<1>14. Ausgehaengt(x, s, t)
  <2>1. \A y \in SLOT : y # KEIN
      BY MaxOrdersAnnahme DEF SLOT, KEIN
  <2>2. \A r \in SEITE, u \in TICK :
          IF r = s /\ u = t
          THEN /\ stufen'[r][u].kopf = IF stufen[r][u].kopf = x THEN knoten[x].weiter
                                       ELSE stufen[r][u].kopf
               /\ stufen'[r][u].fuss = IF stufen[r][u].fuss = x THEN knoten[x].zurueck
                                       ELSE stufen[r][u].fuss
          ELSE stufen'[r][u] = stufen[r][u]
      BY <1>2, <1>3, <1>12, <1>13
  <2>3. \A y \in SLOT :
          /\ knoten'[y].oid = knoten[y].oid
          /\ knoten'[y].seite = knoten[y].seite
          /\ knoten'[y].tick = knoten[y].tick
          /\ y # x =>
              /\ knoten'[y].menge = knoten[y].menge
              /\ knoten'[y].weiter = IF y = knoten[x].zurueck THEN knoten[x].weiter
                                     ELSE knoten[y].weiter
              /\ knoten'[y].zurueck = IF y = knoten[x].weiter THEN knoten[x].zurueck
                                      ELSE knoten[y].zurueck
      BY <1>2, <1>3, <1>8, <2>1
  <2> QED
      BY <1>3, <1>4, <1>7, <2>2, <2>3 DEF Ausgehaengt
<1>15. Nachgefuehrt(s, t)
    BY <1>3, <1>4, <1>12 DEF Nachgefuehrt
<1>16. Struktur'
    BY <1>14, <1>15, AusgehaengtStruktur
<1>17. aus' \in Seq(Ausfuehrung)
    BY <1>2, <1>3, <1>4, <1>5 DEF Ausfuehrung
<1>18. volumen' \in MENGE
  <2>1. volumen + m \in Int
      BY <1>2, <1>5, <1>6
  <2> QED
      BY <1>4, <2>1, Umlauf
<1>19. TypeOK'
    BY <1>4, <1>5, <1>7, <1>8, <1>11, <1>14, <1>15, <1>17, <1>18,
       AusgehaengtPlatz, AusgehaengtLeiter DEF IInv, TypeOK
<1> QED
    BY <1>16, <1>19, Zusammengesetzt DEF Struktur, IInv

(* A sequence without its last element.                                    *)
LEMMA OhneLetztes ==
    ASSUME NEW S, NEW q \in Seq(S), Len(q) > 0
    PROVE  /\ SubSeq(q, 1, Len(q) - 1) \in Seq(S)
           /\ Len(SubSeq(q, 1, Len(q) - 1)) = Len(q) - 1
           /\ \A i \in 1 .. Len(q) - 1 : SubSeq(q, 1, Len(q) - 1)[i] = q[i]
<1>1. PICK n \in Nat : n = Len(q) - 1
    OBVIOUS
<1>2. \A i \in 1 .. n : q[i] \in S
    BY <1>1
<1>3. SubSeq(q, 1, n) = [i \in 1 .. n |-> q[i]]
    BY <1>1, <1>2
<1>4. SubSeq(q, 1, n) \in Seq(S) /\ Len(SubSeq(q, 1, n)) = n
    BY <1>1, <1>2, <1>3
<1> QED
    BY <1>1, <1>3, <1>4

(* A resting order is cancelled.                                           *)
LEMMA StornierenIInv ==
    ASSUME IInv, NEW o \in 0 .. MAX_ORDERS + 1, Stornieren(o)
    PROVE  IInv'
<1>1. /\ knoten \in [SLOT -> Knoten] /\ stufen \in [SEITE -> [TICK -> Stufe]]
      /\ o \in OID /\ platz[o] # KEIN /\ platz \in [OID -> VERWEIS]
    BY DEF IInv, TypeOK, Stornieren, liegt
<1>2. PICK x \in SLOT : x = platz[o]
    BY <1>1 DEF VERWEIS
<1>3. PICK s \in SEITE, t \in TICK, w \in VERWEIS, z \in VERWEIS, m \in MENGE :
          /\ s = knoten[x].seite /\ t = knoten[x].tick /\ m = knoten[x].menge
          /\ w = knoten[x].weiter /\ z = knoten[x].zurueck
    BY <1>1 DEF Knoten
<1>4. knoten[x].oid = o /\ AufStufe(x, s, t)
    BY <1>1, <1>2, <1>3 DEF IInv, PlatzStimmt, AufStufe, Lebt
<1>5. /\ knoten' = [y \in SLOT |->
                      IF y = z THEN [knoten[y] EXCEPT !.weiter = w]
                      ELSE IF y = w THEN [knoten[y] EXCEPT !.zurueck = z]
                      ELSE knoten[y]]
      /\ stufen' = [stufen EXCEPT ![s][t] = OhneSlot(stufen[s][t], x)]
      /\ platz' = [platz EXCEPT ![o] = KEIN]
      /\ frei' = Append(frei, x)
      /\ ruhende_orders' = ruhende_orders - 1
      /\ IF OhneSlot(stufen[s][t], x).kopf = KEIN
         THEN /\ belegt' = [belegt EXCEPT ![s] = belegt[s] \ {t}]
              /\ beste' = IF beste[s] = t
                          THEN [beste EXCEPT ![s] = NaechsteBeste(s, belegt[s] \ {t}, t)]
                          ELSE beste
         ELSE belegt' = belegt /\ beste' = beste
      /\ antwort' = [storniert |-> m]
      /\ aus' = <<>>
      /\ UNCHANGED <<laenge, naechste_oid, nehmer, anzahl_ausfuehrungen, volumen>>
    BY <1>2, <1>3 DEF Stornieren
<1>6. \A y \in SLOT : y # KEIN
    BY MaxOrdersAnnahme DEF SLOT, KEIN
<1>7. z # w \/ (z = KEIN /\ w = KEIN)
  <2>1. Nachbarn(x)
      BY <1>4 DEF IInv, ZeigerStimmen, AufStufe
  <2>2. ASSUME z = w, z # KEIN PROVE FALSE
    <3>1. z \in SLOT
        BY <2>2 DEF VERWEIS
    <3>2. AufStufe(z, s, t) /\ knoten[z].weiter = x /\ knoten[x].oid < knoten[z].oid
        BY <1>3, <2>1, <2>2 DEF Nachbarn
    <3>3. Nachbarn(z)
        BY <3>1, <3>2 DEF IInv, ZeigerStimmen, AufStufe
    <3>4. knoten[z].oid < knoten[x].oid
        BY <1>6, <3>2, <3>3 DEF Nachbarn
    <3>5. knoten[z].oid \in Int /\ knoten[x].oid \in Int
        BY <1>1, <3>1, MaxOrdersAnnahme DEF Knoten, OID
    <3> QED
        BY <3>2, <3>4, <3>5
  <2> QED
      BY <2>2
<1>8. /\ knoten' \in [SLOT -> Knoten]
      /\ \A y \in SLOT : /\ knoten'[y].oid = knoten[y].oid
                         /\ knoten'[y].seite = knoten[y].seite
                         /\ knoten'[y].tick = knoten[y].tick
                         /\ knoten'[y].menge = knoten[y].menge
                         /\ knoten'[y].weiter = IF y = z THEN w ELSE knoten[y].weiter
                         /\ knoten'[y].zurueck = IF y = w THEN z ELSE knoten[y].zurueck
  <2>1. \A k \in Knoten : /\ [k EXCEPT !.weiter = w] \in Knoten
                          /\ [k EXCEPT !.zurueck = z] \in Knoten
      BY DEF Knoten
  <2>2. knoten' \in [SLOT -> Knoten]
      BY <1>1, <1>5, <2>1
  <2>3. ASSUME NEW y \in SLOT
        PROVE  /\ knoten'[y].oid = knoten[y].oid
               /\ knoten'[y].seite = knoten[y].seite
               /\ knoten'[y].tick = knoten[y].tick
               /\ knoten'[y].menge = knoten[y].menge
               /\ knoten'[y].weiter = IF y = z THEN w ELSE knoten[y].weiter
               /\ knoten'[y].zurueck = IF y = w THEN z ELSE knoten[y].zurueck
    <3>0. knoten[y] \in Knoten
        BY <1>1
    <3>1. CASE y = z
      <4>1. knoten'[y] = [knoten[y] EXCEPT !.weiter = w] /\ y # w
          BY <1>5, <1>6, <1>7, <3>1
      <4> QED
          BY <3>0, <3>1, <4>1 DEF Knoten
    <3>2. CASE y # z /\ y = w
      <4>1. knoten'[y] = [knoten[y] EXCEPT !.zurueck = z]
          BY <1>5, <3>2
      <4> QED
          BY <3>0, <3>2, <4>1 DEF Knoten
    <3>3. CASE y # z /\ y # w
      <4>1. knoten'[y] = knoten[y]
          BY <1>5, <3>3
      <4> QED
          BY <3>3, <4>1
    <3> QED
        BY <3>1, <3>2, <3>3
  <2> QED
      BY <2>2, <2>3
<1>9. PICK st \in Stufe : st = OhneSlot(stufen[s][t], x)
  <2>1. stufen[s][t] \in Stufe
      BY <1>1
  <2>2. (stufen[s][t].summe - knoten[x].menge) % U64 \in MENGE
    <3>1. stufen[s][t].summe - knoten[x].menge \in Int
        BY <1>3, <2>1, U64Annahme DEF Stufe, MENGE
    <3> QED
        BY <3>1, Umlauf
  <2>3. knoten[x].weiter \in VERWEIS /\ knoten[x].zurueck \in VERWEIS
      BY <1>3
  <2> QED
      BY <2>1, <2>2, <2>3 DEF OhneSlot, Stufe
<1>10. /\ stufen' \in [SEITE -> [TICK -> Stufe]]
       /\ stufen'[s][t] = st
       /\ \A r \in SEITE, u \in TICK : ~ (r = s /\ u = t) => stufen'[r][u] = stufen[r][u]
    BY <1>1, <1>5, <1>9
<1>11. Ausgehaengt(x, s, t)
  <2>1. \A r \in SEITE, u \in TICK :
          IF r = s /\ u = t
          THEN /\ stufen'[r][u].kopf = IF stufen[r][u].kopf = x THEN knoten[x].weiter
                                       ELSE stufen[r][u].kopf
               /\ stufen'[r][u].fuss = IF stufen[r][u].fuss = x THEN knoten[x].zurueck
                                       ELSE stufen[r][u].fuss
          ELSE stufen'[r][u] = stufen[r][u]
      BY <1>9, <1>10 DEF OhneSlot
  <2>2. \A y \in SLOT :
          /\ knoten'[y].oid = knoten[y].oid
          /\ knoten'[y].seite = knoten[y].seite
          /\ knoten'[y].tick = knoten[y].tick
          /\ y # x =>
              /\ knoten'[y].menge = knoten[y].menge
              /\ knoten'[y].weiter = IF y = knoten[x].zurueck THEN knoten[x].weiter
                                     ELSE knoten[y].weiter
              /\ knoten'[y].zurueck = IF y = knoten[x].weiter THEN knoten[x].zurueck
                                      ELSE knoten[y].zurueck
      BY <1>3, <1>8
  <2> QED
      BY <1>4, <1>5, <2>1, <2>2 DEF Ausgehaengt
<1>12. Nachgefuehrt(s, t)
    BY <1>5, <1>9, <1>10 DEF Nachgefuehrt
<1>13. Struktur'
    BY <1>11, <1>12, AusgehaengtStruktur
<1>14. antwort' \in Ergebnis \cup Storniert /\ aus' \in Seq(Ausfuehrung)
    BY <1>5 DEF Storniert
<1>15. TypeOK'
    BY <1>5, <1>8, <1>10, <1>11, <1>12, <1>14,
       AusgehaengtPlatz, AusgehaengtLeiter DEF IInv, TypeOK
<1> QED
    BY <1>13, <1>15, Zusammengesetzt DEF Struktur, IInv
-----------------------------------------------------------------------------
(* The slot legen() takes is not in use and comes off the free stack.      *)
LEMMA FreierSlotFrei ==
    ASSUME IInv, ~Ruhig, SlotHolen
    PROVE  /\ FreierSlot \in SLOT /\ ~Lebt(FreierSlot)
           /\ frei' \in Seq(SLOT) /\ laenge' \in 0 .. MAX_ORDERS
           /\ FreierSlot < laenge' /\ laenge <= laenge' /\ laenge' < naechste_oid
           /\ Len(frei') <= Len(frei)
           /\ \A i \in 1 .. Len(frei') : frei'[i] = frei[i] /\ frei[i] # FreierSlot
           /\ \A y \in SLOT : y < laenge' /\ y # FreierSlot =>
                 y < laenge /\ (Lebt(y) \/ \E i \in 1 .. Len(frei') : frei'[i] = y)
<1>1. /\ frei \in Seq(SLOT) /\ laenge \in Nat /\ naechste_oid \in 1 .. MAX_ORDERS + 1
      /\ laenge + 1 < naechste_oid /\ platz \in [OID -> VERWEIS]
      /\ \A y \in SLOT : knoten[y].oid \in OID
      /\ \A i \in 1 .. Len(frei) : frei[i] \in SLOT /\ frei[i] < laenge /\ ~Lebt(frei[i])
      /\ \A i, j \in 1 .. Len(frei) : frei[i] = frei[j] => i = j
      /\ \A y \in SLOT : y < laenge => Lebt(y) \/ \E i \in 1 .. Len(frei) : frei[i] = y
      /\ Len(frei) \in Nat
    BY DEF IInv, TypeOK, FreiStimmt, KeinSlotVerloren, Knoten
<1>2. \A y \in SLOT : y \in Nat
    BY MaxOrdersAnnahme DEF SLOT
<1>3. \A y \in SLOT : Lebt(y) => y < laenge
    BY <1>1, <1>2 DEF Lebt, IInv, PlatzStimmt, KEIN
<1>4. CASE frei = <<>>
  <2>1. FreierSlot = laenge /\ laenge' = laenge + 1 /\ frei' = frei /\ Len(frei) = 0
      BY <1>4 DEF FreierSlot, SlotHolen
  <2>2. laenge \in SLOT
      BY <1>1, MaxOrdersAnnahme DEF SLOT
  <2>3. ~Lebt(laenge)
      BY <1>1, <1>3, <2>2
  <2>4. \A y \in SLOT : y < laenge + 1 /\ y # laenge => y < laenge
      BY <1>1, <1>2
  <2> QED
      BY <1>1, <2>1, <2>2, <2>3, <2>4, MaxOrdersAnnahme
<1>5. CASE frei # <<>>
  <2>1. /\ FreierSlot = frei[Len(frei)] /\ laenge' = laenge
        /\ frei' = SubSeq(frei, 1, Len(frei) - 1)
      BY <1>5 DEF FreierSlot, SlotHolen
  <2>2. Len(frei) > 0
      BY <1>1, <1>5
  <2>3. /\ frei' \in Seq(SLOT) /\ Len(frei') = Len(frei) - 1
        /\ \A i \in 1 .. Len(frei) - 1 : frei'[i] = frei[i]
    BY <1>1, <2>1, <2>2, OhneLetztes
  <2>4. FreierSlot \in SLOT /\ ~Lebt(FreierSlot) /\ FreierSlot < laenge
      BY <1>1, <2>1, <2>2
  <2>5. \A i \in 1 .. Len(frei) - 1 : frei[i] # FreierSlot
      BY <1>1, <2>1, <2>2
  <2>6. ASSUME NEW y \in SLOT, y < laenge, y # FreierSlot, ~Lebt(y)
        PROVE  \E i \in 1 .. Len(frei') : frei'[i] = y
    <3>1. PICK i \in 1 .. Len(frei) : frei[i] = y
        BY <1>1, <2>6
    <3>2. i \in 1 .. Len(frei) - 1
        BY <1>1, <2>1, <2>6, <3>1
    <3> QED
        BY <2>3, <3>1, <3>2
  <2> QED
      BY <1>1, <2>1, <2>3, <2>4, <2>5, <2>6, MaxOrdersAnnahme
<1> QED
    BY <1>4, <1>5

(* The rest of a limit order comes to rest.                                *)
LEMMA LegenIInv ==
    ASSUME IInv, Legen
    PROVE  IInv'
<1>1. PICK s \in SEITE, t \in TICK, n \in OID, q \in MENGE :
          /\ s = nehmer.seite /\ t = nehmer.grenze
          /\ n = nehmer.oid /\ q = nehmer.menge
    BY DEF IInv, TypeOK, Nehmer
<1>2. PICK x \in SLOT : x = FreierSlot
    BY FreierSlotFrei DEF Legen
<1>3. PICK f \in VERWEIS, k \in VERWEIS : f = stufen[s][t].fuss /\ k = stufen[s][t].kopf
    BY DEF IInv, TypeOK, Stufe
<1>4. /\ ~Ruhig /\ ~Weiter /\ q > 0 /\ SlotHolen
      /\ knoten' = [y \in SLOT |->
                      IF y = x
                      THEN [oid |-> n, menge |-> q, tick |-> t, seite |-> s, weiter |-> KEIN,
                            zurueck |-> IF k = KEIN THEN KEIN ELSE f]
                      ELSE IF k # KEIN /\ y = f THEN [knoten[y] EXCEPT !.weiter = x]
                      ELSE knoten[y]]
      /\ platz' = [platz EXCEPT ![n] = x]
      /\ stufen' = [stufen EXCEPT ![s][t] = MitFuss(stufen[s][t], x, q)]
      /\ belegt' = [belegt EXCEPT ![s] = IF k = KEIN THEN belegt[s] \cup {t} ELSE belegt[s]]
      /\ beste' = [beste EXCEPT ![s] =
                     IF k = KEIN /\ (beste[s] = KEIN \/ ~NichtSchlechter(s, beste[s], t))
                     THEN t ELSE beste[s]]
      /\ ruhende_orders' = ruhende_orders + 1
      /\ antwort' = [oid |-> n, ausgefuehrt |-> nehmer.eingang - q,
                     ruhend |-> q, abgelehnt |-> FALSE]
      /\ nehmer' = NIEMAND
      /\ UNCHANGED <<naechste_oid, aus, anzahl_ausfuehrungen, volumen>>
    BY <1>1, <1>2, <1>3 DEF Legen, Antworten
<1>5. /\ knoten \in [SLOT -> Knoten] /\ stufen \in [SEITE -> [TICK -> Stufe]]
      /\ platz \in [OID -> VERWEIS] /\ naechste_oid \in Nat
      /\ belegt \in [SEITE -> SUBSET TICK] /\ beste \in [SEITE -> TICK \cup {KEIN}]
    BY MaxOrdersAnnahme DEF IInv, TypeOK
<1>6. /\ KEIN \in VERWEIS /\ KEIN \notin TICK /\ x \in VERWEIS
      /\ \A y \in SLOT : y # KEIN /\ y \in Nat
      /\ \A o \in OID : o \in Nat
    BY MaxOrdersAnnahme, TicksAnnahme DEF VERWEIS, SLOT, TICK, KEIN, OID
<1>7. \A y \in SLOT : /\ knoten[y].weiter \in SLOT \cup {KEIN}
                      /\ knoten[y].zurueck \in SLOT \cup {KEIN}
                      /\ knoten[y].seite \in SEITE /\ knoten[y].tick \in TICK
                      /\ knoten[y].oid \in OID
    BY <1>5 DEF Knoten, VERWEIS
<1>8. n = naechste_oid - 1 /\ n > 0
    BY <1>1, <1>4, <1>6 DEF IInv, PlatzStimmt, Ruhig
<1>9. \A o \in OID : platz[o] # KEIN => o < n
    BY <1>1, <1>5, <1>6, <1>8 DEF IInv, PlatzStimmt
<1>10. /\ knoten' \in [SLOT -> Knoten]
       /\ knoten'[x].oid = n /\ knoten'[x].menge = q /\ knoten'[x].tick = t
       /\ knoten'[x].seite = s /\ knoten'[x].weiter = KEIN
       /\ knoten'[x].zurueck = IF k = KEIN THEN KEIN ELSE f
       /\ \A y \in SLOT : y # x =>
             /\ knoten'[y].oid = knoten[y].oid
             /\ knoten'[y].seite = knoten[y].seite
             /\ knoten'[y].tick = knoten[y].tick
             /\ knoten'[y].menge = knoten[y].menge
             /\ knoten'[y].weiter = IF k # KEIN /\ y = f THEN x ELSE knoten[y].weiter
             /\ knoten'[y].zurueck = knoten[y].zurueck
  <2>1. [oid |-> n, menge |-> q, tick |-> t, seite |-> s, weiter |-> KEIN,
         zurueck |-> IF k = KEIN THEN KEIN ELSE f] \in Knoten
      BY <1>6 DEF Knoten
  <2>2. \A y \in Knoten : [y EXCEPT !.weiter = x] \in Knoten
      BY <1>6 DEF Knoten
  <2>3. knoten' \in [SLOT -> Knoten]
      BY <1>4, <1>5, <2>1, <2>2
  <2> QED
      BY <1>4, <1>5, <2>3 DEF Knoten
<1>11. PICK st \in Stufe : st = MitFuss(stufen[s][t], x, q)
  <2>1. stufen[s][t] \in Stufe
      BY <1>5
  <2>2. (stufen[s][t].summe + q) % U64 \in MENGE
    <3>1. stufen[s][t].summe + q \in Int
        BY <2>1, U64Annahme DEF Stufe, MENGE
    <3> QED
        BY <3>1, Umlauf
  <2> QED
      BY <1>6, <2>1, <2>2 DEF MitFuss, Stufe
<1>12. /\ stufen' \in [SEITE -> [TICK -> Stufe]]
       /\ stufen'[s][t].kopf = IF k = KEIN THEN x ELSE k
       /\ stufen'[s][t].fuss = x
       /\ \A r \in SEITE, u \in TICK : ~ (r = s /\ u = t) => stufen'[r][u] = stufen[r][u]
    BY <1>3, <1>4, <1>5, <1>11 DEF MitFuss
<1>13. /\ ~Lebt(x)
       /\ \A y \in SLOT : Lebt(y) => knoten[y].oid < n
    BY <1>2, <1>4, <1>6, <1>7, <1>9, FreierSlotFrei DEF Lebt
<1>14. \A o \in OID : platz'[o] = IF o = n THEN x ELSE platz[o]
    BY <1>4, <1>5
<1>15. \A y \in SLOT : Lebt(y)' <=> Lebt(y) \/ y = x
  <2> SUFFICES ASSUME NEW y \in SLOT PROVE Lebt(y)' <=> Lebt(y) \/ y = x
      OBVIOUS
  <2>1. CASE y = x
      BY <1>10, <1>14, <2>1 DEF Lebt
  <2>2. CASE y # x
    <3>1. Lebt(y)' <=> platz'[knoten[y].oid] = y
        BY <1>10, <2>2 DEF Lebt
    <3>2. Lebt(y) => knoten[y].oid # n
        BY <1>6, <1>7, <1>13
    <3> QED
        BY <1>7, <1>14, <2>2, <3>1, <3>2 DEF Lebt
  <2> QED
      BY <2>1, <2>2
<1>16. /\ SlotHolen => /\ frei' \in Seq(SLOT) /\ laenge' \in 0 .. MAX_ORDERS
                       /\ x < laenge' /\ laenge <= laenge' /\ laenge' < naechste_oid
       /\ Len(frei') <= Len(frei) /\ Len(frei) \in Nat /\ Len(frei') \in Nat
       /\ \A i \in 1 .. Len(frei') : frei'[i] = frei[i] /\ frei[i] # x /\ frei[i] \in SLOT
       /\ \A y \in SLOT : y < laenge' /\ y # x =>
             y < laenge /\ (Lebt(y) \/ \E i \in 1 .. Len(frei') : frei'[i] = y)
  <2>1. frei \in Seq(SLOT)
      BY DEF IInv, TypeOK
  <2> QED
      BY <1>2, <1>4, <2>1, FreierSlotFrei
<1>17. /\ RuhendeGezaehlt' /\ ruhende_orders' \in Nat
  <2> DEFINE L == {o \in OID : platz[o] # KEIN}
             M == {o \in OID : platz'[o] # KEIN}
  <2>1. IsFiniteSet(L)
    <3>1. IsFiniteSet(OID)
        BY FS_Interval, MaxOrdersAnnahme DEF OID
    <3> QED
        BY <3>1, FS_Subset
  <2>2. M = L \cup {n} /\ n \notin L
      BY <1>6, <1>9, <1>14
  <2>3. ruhende_orders = Cardinality(L)
      BY DEF IInv, RuhendeGezaehlt
  <2> HIDE DEF L, M
  <2>4. Cardinality(M) = Cardinality(L) + 1 /\ Cardinality(L) \in Nat
      BY <2>1, <2>2, Mehr
  <2> QED
      BY <1>4, <2>3, <2>4 DEF RuhendeGezaehlt, M
<1>18. /\ belegt' \in [SEITE -> SUBSET TICK] /\ beste' \in [SEITE -> TICK \cup {KEIN}]
       /\ \A r \in SEITE : r # s => belegt'[r] = belegt[r] /\ beste'[r] = beste[r]
       /\ belegt'[s] = IF k = KEIN THEN belegt[s] \cup {t} ELSE belegt[s]
       /\ beste'[s] = IF k = KEIN /\ (beste[s] = KEIN \/ ~NichtSchlechter(s, beste[s], t))
                      THEN t ELSE beste[s]
    BY <1>4, <1>5
<1>19. TypeOK'
  <2>1. nehmer' \in Nehmer /\ nehmer'.menge <= nehmer'.eingang
      BY <1>4, TicksAnnahme, U64Annahme, MaxOrdersAnnahme
         DEF NIEMAND, Nehmer, SEITE, OID, TICK, MENGE
  <2>2. antwort' \in Ergebnis
    <3>1. nehmer.eingang - q \in MENGE
        BY <1>1, Restmenge DEF IInv, TypeOK, Nehmer
    <3> QED
        BY <1>4, <3>1 DEF Ergebnis
  <2>3. platz' \in [OID -> VERWEIS]
      BY <1>4, <1>5, <1>6
  <2> QED
      BY <1>4, <1>10, <1>12, <1>16, <1>17, <1>18, <2>1, <2>2, <2>3 DEF IInv, TypeOK
<1>20. PlatzStimmt'
  <2>1. ASSUME NEW o \in OID, platz'[o] # KEIN
        PROVE  /\ 0 < o /\ o < naechste_oid' /\ o # nehmer'.oid
               /\ platz'[o] < laenge'
               /\ knoten'[platz'[o]].oid = o
               /\ knoten'[platz'[o]].menge > 0
    <3>1. naechste_oid' = naechste_oid /\ nehmer'.oid = 0
        BY <1>4 DEF NIEMAND
    <3>2. CASE o = n
        BY <1>4, <1>5, <1>6, <1>8, <1>10, <1>14, <1>16, <3>1, <3>2
    <3>3. CASE o # n
      <4>1. PICK y \in SLOT : y = platz[o] /\ platz'[o] = y
          BY <1>5, <1>14, <2>1, <3>3 DEF VERWEIS
      <4>2. /\ 0 < o /\ o < naechste_oid /\ y < laenge
            /\ knoten[y].oid = o /\ knoten[y].menge > 0
          BY <1>6, <4>1 DEF IInv, PlatzStimmt
      <4>3. y # x
          BY <1>13, <4>1, <4>2 DEF Lebt
      <4>4. y < laenge'
          BY <1>4, <1>6, <1>16, <4>2 DEF IInv, TypeOK
      <4> QED
          BY <1>6, <1>10, <3>1, <4>1, <4>2, <4>3, <4>4
    <3> QED
        BY <3>2, <3>3
  <2>2. Ruhig'
      BY <1>4 DEF Ruhig, NIEMAND
  <2> QED
      BY <2>1, <2>2 DEF PlatzStimmt
<1>21. FreiStimmt' /\ KeinSlotVerloren'
  <2>1. \A i \in 1 .. Len(frei') : frei'[i] < laenge' /\ ~Lebt(frei[i])'
    <3> SUFFICES ASSUME NEW i \in 1 .. Len(frei')
                 PROVE  frei'[i] < laenge' /\ ~Lebt(frei[i])'
        OBVIOUS
    <3>1. PICK y \in SLOT : y = frei'[i] /\ y = frei[i] /\ y # x
        BY <1>16
    <3>2. i \in 1 .. Len(frei)
        BY <1>16
    <3>3. y < laenge /\ ~Lebt(y)
        BY <3>1, <3>2 DEF IInv, FreiStimmt
    <3>4. y < laenge' /\ ~Lebt(y)'
      <4>1. laenge \in Int /\ laenge' \in Int /\ laenge <= laenge' /\ y \in Int
          BY <1>4, <1>6, <1>16, MaxOrdersAnnahme DEF IInv, TypeOK
      <4> QED
          BY <1>15, <3>1, <3>3, <4>1
    <3> QED
        BY <3>1, <3>4 DEF Lebt
  <2>2. \A i, j \in 1 .. Len(frei') : frei'[i] = frei'[j] => i = j
    <3>1. \A i, j \in 1 .. Len(frei) : frei[i] = frei[j] => i = j
        BY DEF IInv, FreiStimmt
    <3>2. \A i \in 1 .. Len(frei') : i \in 1 .. Len(frei)
        BY <1>16
    <3> QED
        BY <1>16, <3>1, <3>2
  <2>3. laenge' < naechste_oid' /\ Ruhig'
      BY <1>4, <1>16 DEF Ruhig, NIEMAND
  <2>4. KeinSlotVerloren'
      BY <1>15, <1>16 DEF KeinSlotVerloren
  <2> QED
      BY <2>1, <2>2, <2>3, <2>4 DEF FreiStimmt
<1>22. /\ \A y \in SLOT : Lebt(y) => Nachbarn(y)
       /\ \A r \in SEITE, u \in TICK : Enden(r, u)
       /\ \A r \in SEITE, u \in TICK : /\ stufen[r][u].kopf \in SLOT \cup {KEIN}
                                       /\ stufen[r][u].fuss \in SLOT \cup {KEIN}
    BY <1>5 DEF IInv, ZeigerStimmen, Stufe, VERWEIS
<1>23. \A y \in SLOT, r \in SEITE, u \in TICK :
          AufStufe(y, r, u)' <=> AufStufe(y, r, u) \/ (y = x /\ r = s /\ u = t)
    BY <1>10, <1>13, <1>15 DEF AufStufe
<1>24. /\ k = KEIN <=> f = KEIN
       /\ k # KEIN => k \in SLOT /\ AufStufe(k, s, t) /\ k # x /\ knoten[k].zurueck = KEIN
       /\ f # KEIN => f \in SLOT /\ AufStufe(f, s, t) /\ f # x /\ knoten[f].weiter = KEIN
    BY <1>3, <1>13, <1>22 DEF Enden, AufStufe, VERWEIS
<1>25. \A y \in SLOT : Lebt(y) => knoten[y].oid < n /\ y # x
    BY <1>13
<1>26. ASSUME NEW y \in SLOT, Lebt(y)'
       PROVE  Nachbarn(y)'
  <2>1. CASE y = x
    <3>1. CASE k = KEIN
        BY <1>6, <1>10, <1>12, <2>1, <3>1 DEF Nachbarn
    <3>2. CASE k # KEIN
      <4>1. f \in SLOT /\ f # KEIN /\ f # x /\ knoten'[f].weiter = x /\ AufStufe(f, s, t)'
          BY <1>10, <1>23, <1>24, <3>2
      <4>2. knoten'[x].zurueck = f /\ knoten'[x].weiter = KEIN
          BY <1>10, <3>2
      <4> QED
          BY <1>10, <1>12, <2>1, <4>1, <4>2 DEF Nachbarn, AufStufe, Lebt
    <3> QED
        BY <3>1, <3>2
  <2>2. CASE y # x
    <3>1. Lebt(y) /\ knoten[y].oid < n
        BY <1>15, <1>25, <1>26, <2>2
    <3>2. PICK r \in SEITE, u \in TICK, w \in SLOT \cup {KEIN}, z \in SLOT \cup {KEIN} :
              /\ r = knoten[y].seite /\ u = knoten[y].tick
              /\ w = knoten[y].weiter /\ z = knoten[y].zurueck
        BY <1>7
    <3>3. /\ w # KEIN => AufStufe(w, r, u) /\ knoten[w].zurueck = y /\ knoten[y].oid < knoten[w].oid
          /\ z # KEIN => AufStufe(z, r, u) /\ knoten[z].weiter = y
          /\ w = KEIN => stufen[r][u].fuss = y
          /\ z = KEIN => stufen[r][u].kopf = y
        BY <1>22, <3>1, <3>2 DEF Nachbarn
    <3>4. /\ knoten'[y].oid = knoten[y].oid /\ knoten'[y].seite = r /\ knoten'[y].tick = u
          /\ knoten'[y].zurueck = z
          /\ knoten'[y].weiter = IF k # KEIN /\ y = f THEN x ELSE w
        BY <1>10, <2>2, <3>2
    <3>5. z # KEIN => AufStufe(z, r, u)' /\ knoten'[z].weiter = y
      <4> SUFFICES ASSUME z # KEIN PROVE AufStufe(z, r, u)' /\ knoten'[z].weiter = y
          OBVIOUS
      <4>1. z \in SLOT /\ Lebt(z) /\ z # x /\ AufStufe(z, r, u) /\ knoten[z].weiter = y
          BY <1>25, <3>3 DEF AufStufe
      <4>2. z # f
          BY <1>6, <1>24, <4>1
      <4> QED
          BY <1>10, <1>23, <4>1, <4>2
    <3>6. z = KEIN => stufen'[r][u].kopf = y
        BY <1>3, <1>6, <1>12, <3>3
    <3>7. CASE k # KEIN /\ y = f
      <4>1. r = s /\ u = t
          BY <1>24, <3>2, <3>7 DEF AufStufe
      <4>2. knoten'[y].weiter = x /\ knoten'[x].zurueck = y /\ AufStufe(x, r, u)'
          BY <1>10, <1>23, <3>4, <3>7, <4>1
      <4> QED
          BY <1>6, <1>10, <3>1, <3>4, <3>5, <3>6, <4>2 DEF Nachbarn, AufStufe, Lebt
    <3>8. CASE ~ (k # KEIN /\ y = f)
      <4>1. knoten'[y].weiter = w
          BY <3>4, <3>8
      <4>2. w # KEIN => /\ AufStufe(w, r, u)' /\ knoten'[w].zurueck = y
                        /\ knoten'[y].oid < knoten'[w].oid
        <5> SUFFICES ASSUME w # KEIN
                     PROVE  /\ AufStufe(w, r, u)' /\ knoten'[w].zurueck = y
                            /\ knoten'[y].oid < knoten'[w].oid
            OBVIOUS
        <5>1. w \in SLOT /\ w # x /\ AufStufe(w, r, u)
            BY <1>25, <3>3 DEF AufStufe
        <5> QED
            BY <1>10, <1>23, <3>3, <3>4, <5>1
      <4>3. w = KEIN => stufen'[r][u].fuss = y
        <5> SUFFICES ASSUME w = KEIN PROVE stufen'[r][u].fuss = y
            OBVIOUS
        <5>1. stufen[r][u].fuss = y
            BY <3>3
        <5>2. ~ (r = s /\ u = t)
            BY <1>3, <1>6, <1>24, <3>8, <5>1
        <5> QED
            BY <1>12, <5>1, <5>2
      <4> QED
          BY <3>4, <3>5, <3>6, <4>1, <4>2, <4>3 DEF Nachbarn, AufStufe, Lebt
    <3> QED
        BY <3>7, <3>8
  <2> QED
      BY <2>1, <2>2
<1>27. ASSUME NEW r \in SEITE, NEW u \in TICK
       PROVE  Enden(r, u)'
  <2>1. CASE r = s /\ u = t
    <3>1. PICK kk \in SLOT : kk = IF k = KEIN THEN x ELSE k
        BY <1>24
    <3>2. stufen'[r][u].kopf = kk /\ stufen'[r][u].fuss = x
        BY <1>12, <2>1, <3>1
    <3>3. AufStufe(x, r, u)' /\ knoten'[x].weiter = KEIN
        BY <1>10, <1>23, <2>1
    <3>4. AufStufe(kk, r, u)' /\ knoten'[kk].zurueck = KEIN
        BY <1>10, <1>23, <1>24, <2>1, <3>1
    <3>5. kk # KEIN /\ x # KEIN
        BY <1>6
    <3> QED
        BY <3>2, <3>3, <3>4, <3>5 DEF Enden, AufStufe, Lebt
  <2>2. CASE ~ (r = s /\ u = t)
    <3>1. PICK kk \in SLOT \cup {KEIN}, ff \in SLOT \cup {KEIN} :
              kk = stufen[r][u].kopf /\ ff = stufen[r][u].fuss
        BY <1>22
    <3>2. stufen'[r][u].kopf = kk /\ stufen'[r][u].fuss = ff
        BY <1>12, <2>2, <3>1
    <3>3. /\ kk = KEIN <=> ff = KEIN
          /\ kk # KEIN => AufStufe(kk, r, u) /\ knoten[kk].zurueck = KEIN
          /\ ff # KEIN => AufStufe(ff, r, u) /\ knoten[ff].weiter = KEIN
        BY <1>22, <3>1 DEF Enden
    <3>4. kk # KEIN => AufStufe(kk, r, u)' /\ knoten'[kk].zurueck = KEIN
        BY <1>10, <1>23, <1>25, <3>3 DEF AufStufe
    <3>5. ff # KEIN => ff # f
        BY <1>24, <2>2, <3>3 DEF AufStufe
    <3>6. ff # KEIN => AufStufe(ff, r, u)' /\ knoten'[ff].weiter = KEIN
      <4>1. ff # KEIN => ff \in SLOT /\ ff # x
          BY <1>25, <3>3 DEF AufStufe
      <4> QED
          BY <1>10, <1>23, <3>3, <3>5, <4>1
    <3> QED
        BY <3>2, <3>3, <3>4, <3>6 DEF Enden, AufStufe, Lebt
  <2> QED
      BY <2>1, <2>2
<1>28. ZeigerStimmen'
    BY <1>26, <1>27 DEF ZeigerStimmen
<1>29. /\ \A y, z \in SLOT :
              Lebt(y) /\ Lebt(z) /\ SelbeStufe(y, z) /\ knoten[y].oid < knoten[z].oid
              => knoten[y].weiter # KEIN /\ knoten[knoten[y].weiter].oid <= knoten[z].oid
       /\ \A y \in SLOT : Lebt(y) =>
              /\ stufen[knoten[y].seite][knoten[y].tick].kopf # KEIN
              /\ knoten[stufen[knoten[y].seite][knoten[y].tick].kopf].oid <= knoten[y].oid
    BY DEF IInv, ZeitOrdnung
<1>30. ASSUME NEW y \in SLOT, NEW z \in SLOT, Lebt(y)', Lebt(z)', SelbeStufe(y, z)',
              knoten'[y].oid < knoten'[z].oid
       PROVE  /\ knoten'[y].weiter # KEIN
              /\ knoten'[knoten'[y].weiter].oid <= knoten'[z].oid
  <2>1. n \in Nat /\ knoten[y].oid \in Nat /\ knoten[z].oid \in Nat
      BY <1>6, <1>7
  <2>2. y # x /\ Lebt(y) /\ knoten'[y].oid = knoten[y].oid
    <3>1. CASE y = x
      <4>1. knoten'[y].oid = n
          BY <1>10, <3>1
      <4>2. z # x
          BY <1>10, <1>30, <2>1, <4>1
      <4> QED
          BY <1>10, <1>15, <1>25, <1>30, <2>1, <4>1, <4>2
    <3> QED
        BY <1>10, <1>15, <1>30, <3>1
  <2>3. PICK w \in SLOT \cup {KEIN} : w = knoten[y].weiter
      BY <1>7
  <2>4. /\ w # KEIN => w \in SLOT /\ w # x /\ Lebt(w) /\ knoten[w].oid < n
        /\ w = KEIN => stufen[knoten[y].seite][knoten[y].tick].fuss = y
      BY <1>22, <1>25, <2>2, <2>3 DEF Nachbarn, AufStufe
  <2>5. knoten'[y].seite = knoten[y].seite /\ knoten'[y].tick = knoten[y].tick
      BY <1>10, <2>2
  <2>6. CASE z = x
    <3>1. knoten[y].seite = s /\ knoten[y].tick = t /\ knoten'[z].oid = n
        BY <1>10, <1>30, <2>5, <2>6 DEF SelbeStufe
    <3>2. k # KEIN
        BY <1>3, <1>29, <2>2, <3>1
    <3>3. CASE y = f
        BY <1>6, <1>10, <2>1, <2>2, <3>1, <3>2, <3>3
    <3>4. CASE y # f
      <4>1. w # KEIN /\ knoten'[y].weiter = w
          BY <1>3, <1>10, <2>2, <2>3, <2>4, <3>1, <3>4
      <4>2. knoten'[w].oid = knoten[w].oid /\ knoten[w].oid \in Nat
          BY <1>6, <1>7, <1>10, <2>4, <4>1
      <4> QED
          BY <2>1, <2>4, <3>1, <4>1, <4>2
    <3> QED
        BY <3>3, <3>4
  <2>7. CASE z # x
    <3>1. /\ Lebt(z) /\ knoten'[z].oid = knoten[z].oid
          /\ knoten'[z].seite = knoten[z].seite /\ knoten'[z].tick = knoten[z].tick
        BY <1>10, <1>15, <1>30, <2>7
    <3>2. SelbeStufe(y, z) /\ knoten[y].oid < knoten[z].oid
        BY <1>30, <2>2, <2>5, <3>1 DEF SelbeStufe
    <3>3. w # KEIN /\ knoten[w].oid <= knoten[z].oid
        BY <1>29, <2>2, <2>3, <3>1, <3>2
    <3>4. ~ (k # KEIN /\ y = f)
        BY <1>24, <2>3, <3>3
    <3>5. knoten'[y].weiter = w /\ knoten'[w].oid = knoten[w].oid
        BY <1>10, <2>2, <2>3, <2>4, <3>3, <3>4
    <3> QED
        BY <3>1, <3>3, <3>5
  <2> QED
      BY <2>6, <2>7
<1>31. ASSUME NEW y \in SLOT, Lebt(y)'
       PROVE  LET kopf == stufen'[knoten'[y].seite][knoten'[y].tick].kopf
              IN  kopf # KEIN /\ knoten'[kopf].oid <= knoten'[y].oid
  <2>1. n \in Nat /\ knoten[y].oid \in Nat
      BY <1>6, <1>7
  <2>2. CASE y = x
    <3>1. CASE k = KEIN
        BY <1>6, <1>10, <1>12, <2>1, <2>2, <3>1
    <3>2. CASE k # KEIN
      <4>1. k \in SLOT /\ knoten'[k].oid = knoten[k].oid /\ knoten[k].oid < n
          BY <1>10, <1>24, <1>25, <3>2 DEF AufStufe
      <4>2. knoten[k].oid \in Nat
          BY <1>6, <1>7, <4>1
      <4> QED
          BY <1>10, <1>12, <2>1, <2>2, <3>2, <4>1, <4>2
    <3> QED
        BY <3>1, <3>2
  <2>3. CASE y # x
    <3>1. PICK r \in SEITE, u \in TICK, h \in SLOT \cup {KEIN} :
              r = knoten[y].seite /\ u = knoten[y].tick /\ h = stufen[r][u].kopf
        BY <1>7, <1>22
    <3>2. Lebt(y) /\ h # KEIN /\ knoten[h].oid <= knoten[y].oid
        BY <1>15, <1>29, <1>31, <2>3, <3>1
    <3>3. /\ knoten'[y].seite = r /\ knoten'[y].tick = u
          /\ knoten'[y].oid = knoten[y].oid
        BY <1>10, <2>3, <3>1
    <3>4. h \in SLOT /\ h # x /\ knoten'[h].oid = knoten[h].oid
        BY <1>10, <1>22, <1>25, <3>1, <3>2 DEF Enden, AufStufe
    <3>5. stufen'[r][u].kopf = h
      <4>1. CASE r = s /\ u = t
          BY <1>3, <1>12, <3>1, <3>2, <4>1
      <4>2. CASE ~ (r = s /\ u = t)
          BY <1>12, <3>1, <4>2
      <4> QED
          BY <4>1, <4>2
    <3> QED
        BY <3>2, <3>3, <3>4, <3>5
  <2> QED
      BY <2>2, <2>3
<1>32. ZeitOrdnung'
    BY <1>30, <1>31 DEF ZeitOrdnung
<1>33. BelegtStimmt'
  <2>1. ASSUME NEW r \in SEITE, NEW u \in TICK
        PROVE  u \in belegt'[r] <=> stufen'[r][u].kopf # KEIN
    <3>1. u \in belegt[r] <=> stufen[r][u].kopf # KEIN
        BY DEF IInv, BelegtStimmt
    <3>2. CASE r = s /\ u = t
        BY <1>3, <1>6, <1>12, <1>18, <3>1, <3>2
    <3>3. CASE ~ (r = s /\ u = t)
        BY <1>12, <1>18, <3>1, <3>3
    <3> QED
        BY <3>2, <3>3
  <2> QED
      BY <2>1 DEF BelegtStimmt
<1>34. /\ \A r \in SEITE :
             /\ beste[r] = KEIN => belegt[r] = {}
             /\ beste[r] # KEIN => /\ beste[r] \in belegt[r]
                                  /\ \A u \in belegt[r] : NichtSchlechter(r, beste[r], u)
       /\ \A u \in TICK : u \in Int
       /\ k # KEIN => t \in belegt[s]
    BY <1>3, TicksAnnahme DEF IInv, BesteAusBelegt, BelegtStimmt, TICK
<1>35. BesteAusBelegt'
  <2>1. ASSUME NEW r \in SEITE
        PROVE  /\ beste'[r] = KEIN => belegt'[r] = {}
               /\ beste'[r] # KEIN =>
                     /\ beste'[r] \in belegt'[r]
                     /\ \A u \in belegt'[r] : NichtSchlechter(r, beste'[r], u)
    <3>1. CASE r # s \/ k # KEIN
        BY <1>18, <1>34, <3>1
    <3>2. CASE r = s /\ k = KEIN
      <4>1. belegt'[r] = belegt[r] \cup {t} /\ belegt[r] \in SUBSET TICK
          BY <1>5, <1>18, <3>2
      <4>2. CASE beste[r] = KEIN
        <5>1. beste'[r] = t /\ belegt'[r] = {t}
            BY <1>18, <1>34, <3>2, <4>1, <4>2
        <5> QED
            BY <1>6, <1>34, <5>1 DEF NichtSchlechter
      <4>3. CASE beste[r] # KEIN /\ ~NichtSchlechter(r, beste[r], t)
        <5>1. beste'[r] = t /\ beste[r] \in TICK
            BY <1>5, <1>18, <3>2, <4>3
        <5>2. \A u \in belegt[r] : NichtSchlechter(r, t, u)
            BY <1>34, <4>1, <4>3, <5>1 DEF NichtSchlechter
        <5>3. NichtSchlechter(r, t, t)
            BY <1>34 DEF NichtSchlechter
        <5> QED
            BY <1>6, <4>1, <5>1, <5>2, <5>3
      <4>4. CASE beste[r] # KEIN /\ NichtSchlechter(r, beste[r], t)
        <5>1. beste'[r] = beste[r]
            BY <1>18, <3>2, <4>4
        <5> QED
            BY <1>34, <4>1, <4>4, <5>1
      <4> QED
          BY <4>2, <4>3, <4>4
    <3> QED
        BY <3>1, <3>2
  <2> QED
      BY <2>1 DEF BesteAusBelegt
<1>36. StufenGekreuztNie'
  <2>1. /\ \A a \in belegt[KAUF], v \in belegt[VERKAUF] : a < v
        /\ KAUF \in SEITE /\ VERKAUF \in SEITE /\ KAUF # VERKAUF
      BY DEF IInv, StufenGekreuztNie, SEITE, KAUF, VERKAUF
  <2>2. ~WuerdeKreuzen(s, t)
      BY <1>1, <1>4 DEF Weiter
  <2>3. CASE s = KAUF
    <3>1. \A v \in belegt[VERKAUF] : t < v
      <4>1. Gegenseite(s) = VERKAUF
          BY <2>3 DEF Gegenseite
      <4>2. CASE beste[VERKAUF] = KEIN
          BY <1>34, <2>1, <4>2
      <4>3. CASE beste[VERKAUF] # KEIN
        <5>1. ~ (beste[VERKAUF] <= t)
            BY <2>2, <4>1, <4>3 DEF WuerdeKreuzen, NichtSchlechter
        <5>2. \A v \in belegt[VERKAUF] : beste[VERKAUF] <= v
            BY <1>34, <2>1, <4>3 DEF NichtSchlechter
        <5>3. beste[VERKAUF] \in Int /\ \A v \in belegt[VERKAUF] : v \in Int
            BY <1>5, <1>34, <2>1, <4>3
        <5> QED
            BY <1>34, <5>1, <5>2, <5>3
      <4> QED
          BY <4>2, <4>3
    <3>2. belegt'[VERKAUF] = belegt[VERKAUF] /\ belegt'[KAUF] \subseteq belegt[KAUF] \cup {t}
        BY <1>18, <2>1, <2>3
    <3> QED
        BY <2>1, <3>1, <3>2 DEF StufenGekreuztNie
  <2>4. CASE s = VERKAUF
    <3>1. \A a \in belegt[KAUF] : a < t
      <4>1. Gegenseite(s) = KAUF
          BY <2>1, <2>4 DEF Gegenseite
      <4>2. CASE beste[KAUF] = KEIN
          BY <1>34, <2>1, <4>2
      <4>3. CASE beste[KAUF] # KEIN
        <5>1. ~ (beste[KAUF] >= t)
            BY <2>1, <2>2, <4>1, <4>3 DEF WuerdeKreuzen, NichtSchlechter
        <5>2. \A a \in belegt[KAUF] : beste[KAUF] >= a
            BY <1>34, <2>1, <4>3 DEF NichtSchlechter
        <5>3. beste[KAUF] \in Int /\ \A a \in belegt[KAUF] : a \in Int
            BY <1>5, <1>34, <2>1, <4>3
        <5> QED
            BY <1>34, <5>1, <5>2, <5>3
      <4> QED
          BY <4>2, <4>3
    <3>2. belegt'[KAUF] = belegt[KAUF] /\ belegt'[VERKAUF] \subseteq belegt[VERKAUF] \cup {t}
        BY <1>18, <2>1, <2>4
    <3> QED
        BY <2>1, <3>1, <3>2 DEF StufenGekreuztNie
  <2> QED
      BY <2>3, <2>4 DEF SEITE
<1> QED
    BY <1>17, <1>19, <1>20, <1>21, <1>28, <1>32, <1>33, <1>35, <1>36, Zusammengesetzt
       DEF Struktur, IInv
-----------------------------------------------------------------------------
(* A call that is turned away, or an order number that does not rest.      *)
LEMMA AbgelehntIInv ==
    ASSUME IInv,
           UNCHANGED <<ablage, leiter, zaehler, naechste_oid, nehmer>>, aus' = <<>>,
           antwort' \in Ergebnis \cup Storniert
    PROVE  IInv'
<1>1. /\ knoten' = knoten /\ laenge' = laenge /\ frei' = frei /\ platz' = platz
      /\ stufen' = stufen /\ belegt' = belegt /\ beste' = beste
      /\ anzahl_ausfuehrungen' = anzahl_ausfuehrungen /\ volumen' = volumen
      /\ ruhende_orders' = ruhende_orders
    BY DEF ablage, leiter, zaehler
<1>2. TypeOK'
    BY <1>1 DEF IInv, TypeOK
<1>3. Struktur'
    BY <1>1, UnberuehrtStruktur
<1> QED
    BY <1>2, <1>3, Zusammengesetzt DEF Struktur, IInv

(* The answers of a refused order and of a failed cancellation are answers.  *)
LEMMA AntwortTypen ==
    ABGELEHNT \in Ergebnis /\ [storniert |-> KEIN] \in Storniert
BY U64Annahme DEF ABGELEHNT, Ergebnis, Storniert, MENGE

(* A taker enters the matching loop.                                       *)
LEMMA BeginnenIInv ==
    ASSUME IInv, Ruhig, NEW s \in SEITE, NEW grenze \in TICK, NEW q \in MENGEN,
           NEW bleibt \in BOOLEAN, Beginnen(s, grenze, q, bleibt)
    PROVE  IInv'
<1>1. /\ knoten' = knoten /\ laenge' = laenge /\ frei' = frei /\ platz' = platz
      /\ stufen' = stufen /\ belegt' = belegt /\ beste' = beste
      /\ anzahl_ausfuehrungen' = anzahl_ausfuehrungen /\ volumen' = volumen
      /\ ruhende_orders' = ruhende_orders /\ antwort' = OFFEN /\ aus' = <<>>
      /\ naechste_oid <= MAX_ORDERS /\ naechste_oid' = naechste_oid + 1
      /\ nehmer' = [oid |-> naechste_oid, seite |-> s, grenze |-> grenze,
                    eingang |-> q, menge |-> q, bleibt |-> bleibt]
    BY DEF Beginnen, ablage, leiter, zaehler
<1>2. /\ naechste_oid \in OID /\ naechste_oid' \in 1 .. MAX_ORDERS + 1
    BY <1>1, MaxOrdersAnnahme DEF IInv, TypeOK, OID
<1>3. nehmer' \in Nehmer /\ nehmer'.menge <= nehmer'.eingang /\ nehmer'.oid = naechste_oid
  <2>1. q \in MENGE /\ q <= q
      BY MengenAnnahme, U64Annahme DEF MENGE
  <2> QED
      BY <1>1, <1>2, <2>1 DEF Nehmer
<1>4. TypeOK'
    BY <1>1, <1>2, <1>3 DEF IInv, TypeOK
<1>5. Struktur'
    BY <1>1, <1>3, UnberuehrtStruktur DEF ablage, leiter
<1> QED
    BY <1>4, <1>5, Zusammengesetzt DEF Struktur, IInv

(* A call ends without a rest.                                             *)
LEMMA OhneRestIInv ==
    ASSUME IInv, OhneRest
    PROVE  IInv'
<1>1. /\ knoten' = knoten /\ laenge' = laenge /\ frei' = frei /\ platz' = platz
      /\ stufen' = stufen /\ belegt' = belegt /\ beste' = beste
      /\ anzahl_ausfuehrungen' = anzahl_ausfuehrungen /\ volumen' = volumen
      /\ ruhende_orders' = ruhende_orders /\ aus' = aus
      /\ naechste_oid' = naechste_oid /\ nehmer' = NIEMAND
      /\ antwort' = [oid |-> KEIN, ausgefuehrt |-> nehmer.eingang - nehmer.menge,
                     ruhend |-> 0, abgelehnt |-> FALSE]
    BY DEF OhneRest, Antworten, ablage, leiter
<1>2. nehmer' \in Nehmer /\ nehmer'.menge <= nehmer'.eingang /\ nehmer'.oid = 0
    BY <1>1, TicksAnnahme, U64Annahme, MaxOrdersAnnahme
       DEF NIEMAND, Nehmer, SEITE, OID, TICK, MENGE
<1>3. antwort' \in Ergebnis
  <2>1. nehmer.eingang - nehmer.menge \in MENGE
      BY Restmenge DEF IInv, TypeOK, Nehmer
  <2>2. 0 \in MENGE
      BY U64Annahme DEF MENGE
  <2> QED
      BY <1>1, <2>1, <2>2 DEF Ergebnis
<1>4. TypeOK'
    BY <1>1, <1>2, <1>3 DEF IInv, TypeOK
<1>5. Struktur'
    BY <1>1, <1>2, UnberuehrtStruktur DEF ablage, leiter
<1> QED
    BY <1>4, <1>5, Zusammengesetzt DEF Struktur, IInv
-----------------------------------------------------------------------------
(* Every step of the book keeps the inductive invariant.                   *)
LEMMA SchrittIInv == IInv /\ [Next]_vars => IInv'
<1> SUFFICES ASSUME IInv, [Next]_vars
             PROVE  IInv'
    OBVIOUS
<1>1. ASSUME NEW s \in SEITE, NEW t \in 0 .. TICKS, NEW q \in MENGEN, NEW g \in GUELTIGKEIT,
             Limit(s, t, q, g)
      PROVE  IInv'
  <2>1. t \in TICK
      BY <1>1, TicksAnnahme DEF Limit, LimitUnzulaessig, TICK
  <2> QED
      BY <1>1, <2>1, BeginnenIInv DEF Limit
<1>2. ASSUME NEW s \in SEITE, NEW t \in 0 .. TICKS, NEW q \in MENGEN, NEW g \in GUELTIGKEIT,
             LimitAblehnen(s, t, q, g)
      PROVE  IInv'
    BY <1>2, AbgelehntIInv, AntwortTypen DEF LimitAblehnen
<1>3. ASSUME NEW s \in SEITE, NEW q \in MENGEN, Markt(s, q)
      PROVE  IInv'
  <2>1. (IF s = KAUF THEN TICKS - 1 ELSE 0) \in TICK
      BY TicksAnnahme DEF TICK
  <2> QED
      BY <1>3, <2>1, BeginnenIInv DEF Markt
<1>4. ASSUME NEW q \in MENGEN, MarktAblehnen(q)
      PROVE  IInv'
    BY <1>4, AbgelehntIInv, AntwortTypen DEF MarktAblehnen
<1>5. ASSUME NEW o \in 0 .. MAX_ORDERS + 1, Stornieren(o)
      PROVE  IInv'
    BY <1>5, StornierenIInv
<1>6. ASSUME NEW o \in 0 .. MAX_ORDERS + 1, StornierenVergeblich(o)
      PROVE  IInv'
    BY <1>6, AbgelehntIInv, AntwortTypen DEF StornierenVergeblich
<1>7. CASE GeberBleibt
    BY <1>7, GeberBleibtIInv
<1>8. CASE GeberVerbraucht
    BY <1>8, GeberVerbrauchtIInv
<1>9. CASE OhneRest
    BY <1>9, OhneRestIInv
<1>10. CASE Legen
    BY <1>10, LegenIInv
<1>11. CASE UNCHANGED vars
  <2>1. /\ UNCHANGED <<ablage, leiter, zaehler, naechste_oid, nehmer, aus, antwort>>
      BY <1>11 DEF vars
  <2>2. TypeOK'
      BY <2>1 DEF IInv, TypeOK, ablage, leiter, zaehler
  <2>3. Struktur'
      BY <2>1, UnberuehrtStruktur DEF zaehler
  <2> QED
      BY <2>2, <2>3, Zusammengesetzt DEF Struktur, IInv
<1> QED
    BY <1>1, <1>2, <1>3, <1>4, <1>5, <1>6, <1>7, <1>8, <1>9, <1>10, <1>11
       DEF Next, Aufruf, Fortsetzung

(* The inductive invariant holds: the order index, the free stack, the     *)
(* linked lists, the occupied ticks and the cached bests of buch.rs agree  *)
(* in every state any sequence of calls passes through.                    *)
THEOREM Invariante == Spec => []IInv
<1>1. Init => IInv
    BY InitIInv
<1>2. IInv /\ [Next]_vars => IInv'
    BY SchrittIInv
<1> QED
    BY <1>1, <1>2, PTL DEF Spec

(* Type correctness: every link stays a slot or KEIN, every cached best a  *)
(* tick or KEIN, every u64 in its range.                                   *)
THEOREM Typen == Spec => []TypeOK
<1>1. IInv => TypeOK
    BY DEF IInv
<1> QED
    BY <1>1, Invariante, PTL

(* The book is never crossed, in no state of the matching loop either.     *)
THEOREM NieGekreuzt == Spec => []NichtGekreuzt
<1>1. IInv => NichtGekreuzt
  <2> SUFFICES ASSUME IInv, NEW x \in SLOT, NEW y \in SLOT, Lebt(x), Lebt(y),
                      knoten[x].seite = KAUF, knoten[y].seite = VERKAUF
               PROVE  knoten[x].tick < knoten[y].tick
      BY DEF NichtGekreuzt
  <2>1. /\ knoten[x].tick \in TICK /\ knoten[y].tick \in TICK
        /\ KAUF \in SEITE /\ VERKAUF \in SEITE
      BY DEF IInv, TypeOK, Knoten, SEITE
  <2>2. knoten[x].tick \in belegt[KAUF] /\ knoten[y].tick \in belegt[VERKAUF]
      BY <2>1 DEF IInv, ZeitOrdnung, BelegtStimmt
  <2> QED
      BY <2>2 DEF IInv, StufenGekreuztNie
<1> QED
    BY <1>1, Invariante, PTL

(* The cached best tick of each side is the best price of its resting      *)
(* orders, and it is None only when there are none.                        *)
THEOREM BesteImmerRichtig == Spec => []BesteStimmt
<1>1. IInv => BesteStimmt
  <2> SUFFICES ASSUME IInv, NEW s \in SEITE
               PROVE  /\ beste[s] # KEIN => \E x \in SLOT : AufStufe(x, s, beste[s])
                      /\ \A x \in SLOT : Lebt(x) /\ knoten[x].seite = s =>
                            beste[s] # KEIN /\ NichtSchlechter(s, beste[s], knoten[x].tick)
      BY DEF BesteStimmt
  <2>1. ASSUME beste[s] # KEIN
        PROVE  \E x \in SLOT : AufStufe(x, s, beste[s])
    <3>1. PICK t \in TICK : t = beste[s] /\ t \in belegt[s]
        BY <2>1 DEF IInv, TypeOK, BesteAusBelegt
    <3>2. stufen[s][t].kopf # KEIN /\ stufen[s][t].kopf \in VERWEIS
        BY <3>1 DEF IInv, TypeOK, BelegtStimmt, Stufe
    <3>3. AufStufe(stufen[s][t].kopf, s, t)
        BY <3>1, <3>2 DEF IInv, ZeigerStimmen, Enden
    <3> QED
        BY <3>1, <3>2, <3>3 DEF VERWEIS
  <2>2. ASSUME NEW x \in SLOT, Lebt(x), knoten[x].seite = s
        PROVE  beste[s] # KEIN /\ NichtSchlechter(s, beste[s], knoten[x].tick)
    <3>1. knoten[x].tick \in TICK
        BY DEF IInv, TypeOK, Knoten
    <3>2. knoten[x].tick \in belegt[s]
        BY <2>2, <3>1 DEF IInv, ZeitOrdnung, BelegtStimmt
    <3> QED
        BY <3>2 DEF IInv, BesteAusBelegt
  <2> QED
      BY <2>1, <2>2
<1> QED
    BY <1>1, Invariante, PTL
-----------------------------------------------------------------------------
(* The maker of a turn has priority over all resting orders of its side.   *)
LEMMA GeberHatVorrang ==
    ASSUME IInv, Weiter
    PROVE  HatVorrang(knoten[Geber].oid) /\ knoten[platz[knoten[Geber].oid]].tick = GeberTick
<1>1. PICK x \in SLOT, s \in SEITE, t \in TICK, o \in OID :
          /\ x = Geber /\ s = GeberSeite /\ t = GeberTick /\ o = knoten[x].oid
          /\ AufStufe(x, s, t) /\ platz[o] = x /\ t \in belegt[s]
    BY GeberLiegt
<1>2. x # KEIN /\ x = stufen[s][t].kopf /\ t = beste[s] /\ t # KEIN
    BY <1>1, MaxOrdersAnnahme, TicksAnnahme DEF Geber, GeberTick, SLOT, TICK, KEIN
<1>3. knoten[x].seite = s /\ knoten[x].tick = t
    BY <1>1 DEF AufStufe
<1>4. ASSUME NEW y \in SLOT, Lebt(y), knoten[y].seite = s
      PROVE  NichtSchlechter(s, t, knoten[y].tick) /\ (t = knoten[y].tick => o <= knoten[y].oid)
  <2>1. knoten[y].tick \in TICK
      BY DEF IInv, TypeOK, Knoten
  <2>2. /\ stufen[s][knoten[y].tick].kopf # KEIN
        /\ knoten[stufen[s][knoten[y].tick].kopf].oid <= knoten[y].oid
      BY <1>4 DEF IInv, ZeitOrdnung
  <2>3. knoten[y].tick \in belegt[s]
      BY <2>1, <2>2 DEF IInv, BelegtStimmt
  <2>4. NichtSchlechter(s, t, knoten[y].tick)
      BY <1>2, <2>3 DEF IInv, BesteAusBelegt
  <2> QED
      BY <1>1, <1>2, <2>2, <2>4
<1>5. liegt(o)
    BY <1>1, <1>2 DEF liegt
<1>6. HatVorrang(o)
    BY <1>1, <1>3, <1>4, <1>5 DEF HatVorrang
<1> QED
    BY <1>1, <1>3, <1>6

(* A fill that is booked names the order with priority, at its own price.   *)
LEMMA LetzteAusfuehrung ==
    ASSUME IInv, NEW m \in MENGE, Weiter, Verbuchen(m)
    PROVE  /\ HatVorrang(aus'[Len(aus')].geber)
           /\ aus'[Len(aus')].tick = knoten[platz[aus'[Len(aus')].geber]].tick
<1>1. PICK a : /\ aus' = Append(aus, a)
               /\ a = [tick |-> GeberTick, menge |-> m, nehmer |-> nehmer.oid,
                       geber |-> knoten[Geber].oid, nehmer_kauft |-> nehmer.seite = KAUF]
    BY DEF Verbuchen
<1>2. aus \in Seq(Ausfuehrung)
    BY DEF IInv, TypeOK
<1>3. aus'[Len(aus')] = a
  <2>1. Len(Append(aus, a)) = Len(aus) + 1 /\ Append(aus, a)[Len(aus) + 1] = a
      BY <1>2
  <2> QED
      BY <1>1, <2>1
<1>4. a.geber = knoten[Geber].oid /\ a.tick = GeberTick
    BY <1>1
<1> QED
    BY <1>3, <1>4, GeberHatVorrang

(* Price-time priority: no step of the book ever lets an order give        *)
(* quantity while a better-priced order, or an earlier one at the same     *)
(* price, rests on its side.                                               *)
THEOREM VorrangImmer == Spec => PreisZeitVorrang
<1> DEFINE A == Len(aus') > Len(aus) =>
                  /\ HatVorrang(aus'[Len(aus')].geber)
                  /\ aus'[Len(aus')].tick = knoten[platz[aus'[Len(aus')].geber]].tick
<1>1. IInv /\ [Next]_vars => [A]_vars
  <2> SUFFICES ASSUME IInv, Next PROVE A
      OBVIOUS
  <2>1. CASE GeberBleibt
    <3>1. nehmer.menge \in MENGE
        BY DEF IInv, TypeOK, Nehmer
    <3> QED
        BY <2>1, <3>1, LetzteAusfuehrung DEF GeberBleibt
  <2>2. CASE GeberVerbraucht
    <3>1. Weiter /\ Verbuchen(knoten[Geber].menge)
        BY <2>2 DEF GeberVerbraucht
    <3> QED
        BY <3>1, GeberLiegt, LetzteAusfuehrung
  <2>3. CASE aus' = <<>> \/ aus' = aus
    <3>1. aus \in Seq(Ausfuehrung)
        BY DEF IInv, TypeOK
    <3>2. Len(aus) \in Nat /\ Len(<<>>) = 0
        BY <3>1
    <3>3. Len(aus') = 0 \/ Len(aus') = Len(aus)
        BY <2>3, <3>2
    <3> QED
        BY <3>2, <3>3
  <2>4. GeberBleibt \/ GeberVerbraucht \/ aus' = <<>> \/ aus' = aus
      BY DEF Next, Aufruf, Fortsetzung, Limit, LimitAblehnen, Markt, MarktAblehnen, Beginnen,
             Stornieren, StornierenVergeblich, OhneRest, Legen, Antworten
  <2> QED
      BY <2>1, <2>2, <2>3, <2>4
<1> QED
    BY <1>1, Invariante, PTL DEF Spec, PreisZeitVorrang
-----------------------------------------------------------------------------
(* What a step may do to order o.                                          *)
Bewahrt(o) ==
    /\ o < naechste_oid /\ o # nehmer.oid /\ ~liegt(o) => platz'[o] = KEIN
    /\ liegt(o) /\ platz'[o] # KEIN =>
          /\ knoten'[platz'[o]].oid = o
          /\ knoten'[platz'[o]].seite = knoten[platz[o]].seite
          /\ knoten'[platz'[o]].tick = knoten[platz[o]].tick
          /\ knoten'[platz'[o]].menge <= knoten[platz[o]].menge

(* It is enough that slots in use keep their order and do not grow, and    *)
(* that only the taker's number gets a slot.                               *)
LEMMA BewahrtWenn ==
    ASSUME IInv,
           \A o \in OID : platz'[o] = platz[o] \/ platz'[o] = KEIN \/ (o = nehmer.oid /\ ~Ruhig),
           \A y \in SLOT : Lebt(y) =>
                /\ knoten'[y].oid = knoten[y].oid
                /\ knoten'[y].seite = knoten[y].seite
                /\ knoten'[y].tick = knoten[y].tick
                /\ knoten'[y].menge <= knoten[y].menge
    PROVE  \A o \in OID : Bewahrt(o)
<1> SUFFICES ASSUME NEW o \in OID PROVE Bewahrt(o)
    OBVIOUS
<1>1. /\ platz \in [OID -> VERWEIS]
      /\ platz[o] # KEIN => o # nehmer.oid /\ knoten[platz[o]].oid = o
    BY DEF IInv, TypeOK, PlatzStimmt
<1>2. ASSUME o # nehmer.oid, ~liegt(o) PROVE platz'[o] = KEIN
    BY <1>2 DEF liegt
<1>3. ASSUME liegt(o), platz'[o] # KEIN
      PROVE  /\ knoten'[platz'[o]].oid = o
             /\ knoten'[platz'[o]].seite = knoten[platz[o]].seite
             /\ knoten'[platz'[o]].tick = knoten[platz[o]].tick
             /\ knoten'[platz'[o]].menge <= knoten[platz[o]].menge
  <2>1. PICK y \in SLOT : y = platz[o] /\ platz'[o] = y /\ knoten[y].oid = o
      BY <1>1, <1>3 DEF liegt, VERWEIS
  <2>2. Lebt(y)
      BY <2>1 DEF Lebt
  <2> QED
      BY <2>1, <2>2
<1> QED
    BY <1>2, <1>3 DEF Bewahrt

(* Order numbers are for one life: what has left the book never rests      *)
(* again although its slot is reused, and a resting order keeps its side   *)
(* and its price and only shrinks.                                         *)
THEOREM KeineWiederbelebung == Spec => NieWiederbelebt
<1> DEFINE A == \A o \in OID :
                  /\ o < naechste_oid /\ o # nehmer.oid /\ ~liegt(o) => platz'[o] = KEIN
                  /\ liegt(o) /\ platz'[o] # KEIN =>
                        LET vorher == knoten[platz[o]]
                            jetzt == knoten'[platz'[o]]
                        IN  /\ jetzt.oid = o
                            /\ jetzt.seite = vorher.seite /\ jetzt.tick = vorher.tick
                            /\ jetzt.menge <= vorher.menge
<1>1. IInv /\ [Next]_vars => [A]_vars
  <2> SUFFICES ASSUME IInv, Next PROVE A
      OBVIOUS
  <2>1. /\ knoten \in [SLOT -> Knoten] /\ platz \in [OID -> VERWEIS]
        /\ \A y \in SLOT : knoten[y].menge \in Nat
      BY U64Annahme DEF IInv, TypeOK, Knoten, MENGE
  <2>2. CASE knoten' = knoten /\ platz' = platz
      BY <2>1, <2>2, BewahrtWenn DEF Bewahrt
  <2>3. CASE GeberBleibt
    <3>1. PICK x \in SLOT, m \in Nat : x = Geber /\ m = nehmer.menge
        BY <2>3, GeberLiegt, U64Annahme DEF GeberBleibt, IInv, TypeOK, Nehmer, MENGE
    <3>2. knoten' = [knoten EXCEPT ![x].menge = @ - m] /\ platz' = platz
        BY <2>3, <3>1 DEF GeberBleibt
    <3>3. \A y \in SLOT : /\ knoten'[y].oid = knoten[y].oid
                          /\ knoten'[y].seite = knoten[y].seite
                          /\ knoten'[y].tick = knoten[y].tick
                          /\ knoten'[y].menge <= knoten[y].menge
        BY <2>1, <3>1, <3>2 DEF Knoten
    <3> QED
        BY <3>2, <3>3, BewahrtWenn DEF Bewahrt
  <2>4. CASE GeberVerbraucht
    <3>1. PICK x \in SLOT, w \in VERWEIS : x = Geber /\ w = knoten[x].weiter
        BY <2>1, <2>4, GeberLiegt DEF GeberVerbraucht, Knoten
    <3>2. /\ knoten' = [y \in SLOT |->
                          IF y = x THEN [knoten[y] EXCEPT !.menge = 0]
                          ELSE IF y = w THEN NeuerKopf(knoten[y]) ELSE knoten[y]]
          /\ platz' = [platz EXCEPT ![knoten[x].oid] = KEIN]
        BY <2>4, <3>1 DEF GeberVerbraucht
    <3>3. \A y \in SLOT : /\ knoten'[y].oid = knoten[y].oid
                          /\ knoten'[y].seite = knoten[y].seite
                          /\ knoten'[y].tick = knoten[y].tick
                          /\ knoten'[y].menge <= knoten[y].menge
        BY <2>1, <3>2 DEF Knoten, NeuerKopf
    <3>4. \A o \in OID : platz'[o] = platz[o] \/ platz'[o] = KEIN
        BY <2>1, <3>2
    <3> QED
        BY <3>3, <3>4, BewahrtWenn DEF Bewahrt
  <2>5. ASSUME NEW c \in 0 .. MAX_ORDERS + 1, Stornieren(c) PROVE A
    <3>1. PICK k : k = knoten[platz[c]]
        OBVIOUS
    <3>2. /\ knoten' = [y \in SLOT |->
                          IF y = k.zurueck THEN [knoten[y] EXCEPT !.weiter = k.weiter]
                          ELSE IF y = k.weiter THEN [knoten[y] EXCEPT !.zurueck = k.zurueck]
                          ELSE knoten[y]]
          /\ platz' = [platz EXCEPT ![c] = KEIN]
        BY <2>5, <3>1 DEF Stornieren
    <3>3. \A y \in SLOT : /\ knoten'[y].oid = knoten[y].oid
                          /\ knoten'[y].seite = knoten[y].seite
                          /\ knoten'[y].tick = knoten[y].tick
                          /\ knoten'[y].menge <= knoten[y].menge
        BY <2>1, <3>2 DEF Knoten
    <3>4. \A o \in OID : platz'[o] = platz[o] \/ platz'[o] = KEIN
        BY <2>1, <3>2
    <3> QED
        BY <3>3, <3>4, BewahrtWenn DEF Bewahrt
  <2>6. CASE Legen
    <3>1. PICK x \in SLOT, f \in VERWEIS, b \in BOOLEAN :
              /\ x = FreierSlot /\ ~Lebt(x)
              /\ f = stufen[nehmer.seite][nehmer.grenze].fuss
              /\ b = (stufen[nehmer.seite][nehmer.grenze].kopf = KEIN)
        BY <2>6, FreierSlotFrei DEF Legen, IInv, TypeOK, Nehmer, Stufe
    <3>2. /\ \A y \in SLOT : y # x =>
                knoten'[y] = IF ~b /\ y = f THEN [knoten[y] EXCEPT !.weiter = x] ELSE knoten[y]
          /\ platz' = [platz EXCEPT ![nehmer.oid] = x]
          /\ ~Ruhig
        BY <2>6, <3>1 DEF Legen
    <3>3. \A y \in SLOT : Lebt(y) =>
                          /\ knoten'[y].oid = knoten[y].oid
                          /\ knoten'[y].seite = knoten[y].seite
                          /\ knoten'[y].tick = knoten[y].tick
                          /\ knoten'[y].menge <= knoten[y].menge
      <4> SUFFICES ASSUME NEW y \in SLOT, Lebt(y)
                   PROVE  /\ knoten'[y].oid = knoten[y].oid
                          /\ knoten'[y].seite = knoten[y].seite
                          /\ knoten'[y].tick = knoten[y].tick
                          /\ knoten'[y].menge <= knoten[y].menge
          OBVIOUS
      <4>1. y # x
          BY <3>1
      <4>2. knoten'[y] = knoten[y] \/ knoten'[y] = [knoten[y] EXCEPT !.weiter = x]
          BY <3>2, <4>1
      <4>3. knoten[y] \in Knoten /\ knoten[y].menge \in Nat
          BY <2>1
      <4> QED
          BY <4>2, <4>3 DEF Knoten
    <3>4. \A o \in OID : platz'[o] = platz[o] \/ o = nehmer.oid
        BY <2>1, <3>2
    <3> QED
        BY <3>2, <3>3, <3>4, BewahrtWenn DEF Bewahrt
  <2>7. \/ knoten' = knoten /\ platz' = platz
        \/ GeberBleibt \/ GeberVerbraucht \/ Legen
        \/ \E c \in 0 .. MAX_ORDERS + 1 : Stornieren(c)
      BY DEF Next, Aufruf, Fortsetzung, Limit, LimitAblehnen, Markt, MarktAblehnen, Beginnen,
             StornierenVergeblich, OhneRest, ablage
  <2> QED
      BY <2>2, <2>3, <2>4, <2>5, <2>6, <2>7
<1> QED
    BY <1>1, Invariante, PTL DEF Spec, NieWiederbelebt
=============================================================================
