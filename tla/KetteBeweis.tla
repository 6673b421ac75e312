---------------------------- MODULE KetteBeweis ----------------------------
(***************************************************************************)
(* Proofs about the order pipeline, for any number of connections, any     *)
(* length of a unit, any size of the buffers and any window of the         *)
(* network, whichever connections may break.                               *)
(***************************************************************************)
EXTENDS Kette, FiniteSetTheorems, SequenceTheorems, TLAPS

(* Who holds a sender, and what the joins of the main thread have seen.    *)
Faeden ==
    /\ \A k \in VERBINDUNGEN : k \in sender <=> pruefer[k] \in {"liest", "prueft"}
    /\ HAUPT \in sender <=> haupt \in {"starten", "annehmen", "loslassen"}
    /\ haupt \notin {"starten", "annehmen"} => \A k \in VERBINDUNGEN : pruefer[k] # "neu"
    /\ haupt \in {"matcher", "fertig"} =>
          \A k \in VERBINDUNGEN : pruefer[k] \in {"fertig", "abgebrochen"}
    /\ matcher = "fertig" => sender = {} /\ kanal = <<>>
    /\ haupt = "fertig" => matcher = "fertig"

(* A buffer holds the bytes read last, and an unbroken stream ends where   *)
(* the client ended it.                                                    *)
Strom(k) ==
    /\ Len(puffer[k]) <= gelesen[k]
    /\ gelesen[k] <= geschrieben[k]
    /\ \A i \in 1 .. Len(puffer[k]) : puffer[k][i] = gelesen[k] - Len(puffer[k]) + i - 1
    /\ pruefer[k] = "neu" => Len(puffer[k]) = 0
    /\ pruefer[k] = "prueft" => Ganze(puffer[k]) # 0
    /\ k \notin gerissen /\ klient[k] = "fertig" /\ pruefer[k] # "fertig" => geschrieben[k] = LAENGE
    /\ k \notin gerissen /\ pruefer[k] = "fertig" => gelesen[k] = LAENGE /\ Len(puffer[k]) = 0

Stroeme == \A k \in VERBINDUNGEN : Strom(k)

(* The length of g units.                                                  *)
Bytes(g) == EINHEIT * g

(* N[k][i] units of connection k are processed once the first i batches of *)
(* the channel are: the batches continue each other and end where the      *)
(* buffer of the checker begins.                                           *)
Folge(N) ==
    /\ \A k \in VERBINDUNGEN :
          /\ N[k][0] = Len(verarbeitet[k])
          /\ \A u \in 1 .. Len(verarbeitet[k]) : verarbeitet[k][u] = u - 1
          /\ \A i \in 1 .. Len(kanal) :
                N[k][i] = N[k][i - 1] + (IF kanal[i].von = k THEN Len(kanal[i].stapel) ELSE 0)
          /\ gelesen[k] = Bytes(N[k][Len(kanal)]) + Len(puffer[k])
    /\ \A i \in 1 .. Len(kanal) :
          /\ Len(kanal[i].stapel) > 0
          /\ \A j \in 1 .. Len(kanal[i].stapel) :
                kanal[i].stapel[j] = N[kanal[i].von][i - 1] + j - 1

(* What N may be with n batches in the channel, and the existence of one.  *)
STAENDE(n) == [VERBINDUNGEN -> [0 .. n -> 0 .. EINHEITEN]]

Geordnet == \E N \in STAENDE(Len(kanal)) : Folge(N)

(* The inductive invariant.                                                *)
IInv ==
    /\ TypeOK
    /\ RahmenHalten
    /\ Faeden
    /\ Stroeme
    /\ Geordnet
-----------------------------------------------------------------------------
(* Division with remainder.                                                *)
LEMMA Teilen ==
    ASSUME NEW n \in Nat, NEW e \in Nat \ {0}
    PROVE  n \div e \in Nat /\ e * (n \div e) <= n /\ n < e * (n \div e) + e
  BY SMT

(* A multiple divides without remainder.                                   *)
LEMMA Vielfaches ==
    ASSUME NEW m \in Nat, NEW e \in Nat \ {0}
    PROVE  (e * m) % e = 0 /\ (e * m) \div e = m
  BY SMT

(* A common factor cancels.                                                *)
LEMMA Kuerzen ==
    ASSUME NEW m \in Nat, NEW g \in Nat, NEW e \in Nat \ {0}, e * g <= e * m
    PROVE  g <= m
  BY SMT

(* It does so with a remainder on one side, which is then zero.            *)
LEMMA KuerzenRest ==
    ASSUME NEW m \in Nat, NEW g \in Nat, NEW e \in Nat \ {0}, NEW r \in 0 .. e - 1,
           e * m = e * g + r
    PROVE  g = m /\ r = 0
  BY SMT

(* Unit i is where the units before it end.                                *)
LEMMA Lage ==
    ASSUME NEW q \in Nat, NEW e \in Nat \ {0}, NEW i \in 1 .. q
    PROVE  i - 1 \in Nat /\ (i - 1) * e \in Nat /\ (i - 1) * e + e <= e * q
<1>1. (i - 1) * e + e = e * i
  BY SMT
<1>2. e * i <= e * q
  BY SMT
<1> QED BY <1>1, <1>2, SMT

(* Multiplication distributes over addition.                               *)
LEMMA Verteilen ==
    ASSUME NEW m \in Int, NEW g \in Int, NEW e \in Nat
    PROVE  e * (m + g) = e * m + e * g /\ e * m \in Int /\ e * m = m * e
  BY SMT

(* The stream of a client is a whole number of units.                      *)
LEMMA Laenge == EINHEITEN \in Nat /\ LAENGE \in Nat /\ LAENGE = EINHEIT * EINHEITEN
<1>1. Cardinality(VERBINDUNGEN) \in Nat \ {0}
  BY VerbindungsAnnahme, FS_CardinalityType, FS_EmptySet
<1>2. AUFTRAEGE \div Cardinality(VERBINDUNGEN) \in Nat
  BY <1>1, Teilen, GroessenAnnahme
<1>3. (AUFTRAEGE \div Cardinality(VERBINDUNGEN)) \div IM_PUFFER \in Nat
  BY <1>2, Teilen, GroessenAnnahme
<1>4. Runden \in Nat
  BY <1>3 DEF Runden
<1> QED BY <1>4, GroessenAnnahme, Verteilen DEF EINHEITEN, LAENGE

(* The units of a buffer that begins with unit g are the units g, g + 1,   *)
(* ... of the stream, each with its own bytes.                             *)
LEMMA Einheiten ==
    ASSUME IInv, NEW k \in VERBINDUNGEN, NEW g \in Nat,
           gelesen[k] = Bytes(g) + Len(puffer[k])
    PROVE  /\ Ganze(puffer[k]) \in Nat
           /\ EINHEIT * Ganze(puffer[k]) <= Len(puffer[k])
           /\ Len(puffer[k]) < EINHEIT * Ganze(puffer[k]) + EINHEIT
           /\ \A i \in 1 .. Ganze(puffer[k]) :
                 Gueltig(puffer[k], i) /\ Inhalt(puffer[k], i) = g + i - 1
<1> DEFINE p == puffer[k]
<1>0. EINHEIT \in Nat \ {0} /\ p \in Seq(Nat) /\ Len(p) \in Nat /\ gelesen[k] \in Nat
  BY GroessenAnnahme, Laenge DEF IInv, TypeOK
<1>1. /\ Ganze(p) \in Nat /\ EINHEIT * Ganze(p) <= Len(p)
      /\ Len(p) < EINHEIT * Ganze(p) + EINHEIT
  BY <1>0, Teilen DEF Ganze
<1>2. \A i \in 1 .. Len(p) : p[i] = EINHEIT * g + i - 1
  <2>1. EINHEIT * g \in Int /\ EINHEIT * g = gelesen[k] - Len(p)
    BY <1>0, Verteilen DEF Bytes
  <2>2. \A i \in 1 .. Len(p) : p[i] = (gelesen[k] - Len(p)) + i - 1
    BY <1>0 DEF IInv, Stroeme, Strom
  <2> QED BY <2>1, <2>2
<1> HIDE DEF p
<1>3. ASSUME NEW i \in 1 .. Ganze(p)
      PROVE  Gueltig(p, i) /\ Inhalt(p, i) = g + i - 1
  <2> DEFINE v == (i - 1) * EINHEIT
             w == EINHEIT * g
  <2>0. Ganze(p) \in Nat /\ EINHEIT \in Nat \ {0}
    BY <1>0, <1>1
  <2>1. i - 1 \in Nat /\ v \in Nat /\ v + EINHEIT <= EINHEIT * Ganze(p)
    BY <2>0, Lage
  <2>2. w \in Int /\ EINHEIT * Ganze(p) \in Int
    BY <2>0, Verteilen
  <2>3. \A j \in 1 .. EINHEIT : p[v + j] = w + v + j - 1
    <3>1. \A m \in 1 .. Len(p) : p[m] = w + m - 1
      BY <1>2
    <3> HIDE DEF v, w
    <3>2. ASSUME NEW j \in 1 .. EINHEIT PROVE p[v + j] = w + v + j - 1
      <4>1. v + j \in 1 .. Len(p)
        BY <1>0, <1>1, <2>1, <2>2
      <4> QED BY <1>0, <2>1, <2>2, <3>1, <4>1
    <3> QED BY <3>2
  <2>4. Anfang(p, i) = w + v
    <3>1. 1 \in 1 .. EINHEIT
      BY <1>0
    <3> QED BY <1>0, <2>1, <2>2, <2>3, <3>1 DEF Anfang
  <2>5. Anfang(p, i) = EINHEIT * (g + i - 1)
    BY <1>0, <2>1, <2>4, SMT
  <2>6. Anfang(p, i) % EINHEIT = 0 /\ Anfang(p, i) \div EINHEIT = g + i - 1
    <3>1. g + i - 1 \in Nat
      OBVIOUS
    <3> QED BY <1>0, <2>5, <3>1, Vielfaches
  <2>7. Gueltig(p, i)
    BY <1>0, <2>1, <2>3, <2>4, <2>6 DEF Gueltig
  <2> QED BY <2>6, <2>7 DEF Inhalt
<1> QED BY <1>1, <1>3 DEF p
-----------------------------------------------------------------------------
(* The end of a sequence.                                                  *)
LEMMA Ende ==
    ASSUME NEW v \in Seq(Nat), NEW b \in Nat, b <= Len(v)
    PROVE  /\ SubSeq(v, b + 1, Len(v)) \in Seq(Nat)
           /\ Len(SubSeq(v, b + 1, Len(v))) = Len(v) - b
           /\ \A i \in 1 .. Len(v) - b : SubSeq(v, b + 1, Len(v))[i] = v[b + i]
<1>1. \A i \in b + 1 .. Len(v) : v[i] \in Nat
  OBVIOUS
<1> DEFINE s == SubSeq(v, b + 1, Len(v))
<1>2. /\ s \in Seq(Nat)
      /\ Len(s) = IF b + 1 <= Len(v) THEN Len(v) - (b + 1) + 1 ELSE 0
      /\ \A i \in 1 .. Len(v) - (b + 1) + 1 : s[i] = v[b + 1 + i - 1]
  BY <1>1, SubSeqProperties
<1>3. Len(v) \in Nat
  OBVIOUS
<1> HIDE DEF s
<1>4. Len(s) = Len(v) - b
  BY <1>2, <1>3
<1>5. ASSUME NEW i \in 1 .. Len(v) - b PROVE s[i] = v[b + i]
  <2>1. i \in 1 .. Len(v) - (b + 1) + 1 /\ b + 1 + i - 1 = b + i
    BY <1>3
  <2> QED BY <1>2, <2>1
<1> QED BY <1>2, <1>4, <1>5 DEF s

(* What a read does: the bytes that follow are appended to the buffer.     *)
LEMMA NachLesen ==
    ASSUME IInv, NEW k \in VERBINDUNGEN, Lesen(k)
    PROVE  \E n \in Nat, p \in Seq(Nat) :
              /\ gelesen' = [gelesen EXCEPT ![k] = @ + n] /\ gelesen[k] + n <= geschrieben[k]
              /\ puffer' = [puffer EXCEPT ![k] = p]
              /\ Len(p) = Len(puffer[k]) + n /\ Len(p) <= STAPEL * EINHEIT
              /\ \A i \in 1 .. Len(p) : p[i] = gelesen[k] - Len(puffer[k]) + i - 1
              /\ pruefer' = [pruefer EXCEPT ![k] = IF Ganze(p) = 0 THEN "liest" ELSE "prueft"]
<1>0. /\ puffer[k] \in Seq(Nat) /\ gelesen[k] \in Nat /\ geschrieben[k] \in Nat
      /\ STAPEL * EINHEIT \in Int
      /\ \A i \in 1 .. Len(puffer[k]) : puffer[k][i] = gelesen[k] - Len(puffer[k]) + i - 1
  BY Laenge, GroessenAnnahme, Verteilen DEF IInv, TypeOK, Stroeme, Strom
<1>1. PICK n \in 1 .. Platz(k) :
         /\ n <= Unterwegs(k)
         /\ gelesen' = [gelesen EXCEPT ![k] = @ + n]
         /\ LET p == puffer[k] \o [i \in 1 .. n |-> gelesen[k] + i - 1]
            IN  /\ puffer' = [puffer EXCEPT ![k] = p]
                /\ pruefer' = [pruefer EXCEPT ![k] = IF Ganze(p) = 0 THEN "liest" ELSE "prueft"]
  BY DEF Lesen
<1> DEFINE q == [i \in 1 .. n |-> gelesen[k] + i - 1]
           p == puffer[k] \o q
<1>2. n \in Nat /\ n <= STAPEL * EINHEIT - Len(puffer[k]) /\ gelesen[k] + n <= geschrieben[k]
  BY <1>0, <1>1 DEF Platz, Unterwegs
<1>3. q \in Seq(Nat) /\ Len(q) = n
  BY <1>0, <1>2
<1>4. p \in Seq(Nat) /\ Len(p) = Len(puffer[k]) + n
  BY <1>0, <1>2, <1>3
<1>5. \A i \in 1 .. Len(p) : p[i] = gelesen[k] - Len(puffer[k]) + i - 1
  <2> SUFFICES ASSUME NEW i \in 1 .. Len(p) PROVE p[i] = gelesen[k] - Len(puffer[k]) + i - 1
    OBVIOUS
  <2>1. CASE i <= Len(puffer[k])
    BY <1>0, <1>2, <1>3, <1>4, <2>1
  <2>2. CASE i > Len(puffer[k])
    <3>1. p[i] = q[i - Len(puffer[k])] /\ i - Len(puffer[k]) \in 1 .. n
      BY <1>0, <1>2, <1>3, <1>4, <2>2
    <3> QED BY <1>0, <1>2, <2>2, <3>1
  <2> QED BY <1>0, <1>4, <2>1, <2>2
<1>6. Len(p) <= STAPEL * EINHEIT
  BY <1>0, <1>2, <1>4
<1> HIDE DEF q
<1>7. /\ puffer' = [puffer EXCEPT ![k] = p]
      /\ pruefer' = [pruefer EXCEPT ![k] = IF Ganze(p) = 0 THEN "liest" ELSE "prueft"]
  BY <1>1 DEF q
<1> HIDE DEF p
<1> QED BY <1>1, <1>2, <1>4, <1>5, <1>6, <1>7

(* The units s, beginning with unit g, go to the matcher, p stays.         *)
Gesandt(k, g, s, p) ==
    /\ kanal' = Append(kanal, [von |-> k, stapel |-> s])
    /\ Len(s) > 0 /\ \A j \in 1 .. Len(s) : s[j] = g + j - 1
    /\ puffer' = [puffer EXCEPT ![k] = p]
    /\ Len(p) < EINHEIT /\ Len(p) <= Len(puffer[k])
    /\ \A i \in 1 .. Len(p) : p[i] = gelesen[k] - Len(p) + i - 1
    /\ gelesen[k] = Bytes(g + Len(s)) + Len(p)
    /\ pruefer' = [pruefer EXCEPT ![k] = "liest"]
    /\ sender' = sender

(* What Senden does: the units of the buffer become one batch, no unit     *)
(* fails its check and the channel has a receiver.                         *)
LEMMA NachSenden ==
    ASSUME IInv, NEW k \in VERBINDUNGEN, NEW g \in Nat,
           gelesen[k] = Bytes(g) + Len(puffer[k]), Senden(k)
    PROVE  \E s \in Seq(Int), p \in Seq(Nat) : Gesandt(k, g, s, p)
<1> USE DEF Gesandt
<1> DEFINE v == puffer[k]
           m == Ganze(v)
           s == [i \in 1 .. m |-> Inhalt(v, i)]
           p == Rest(v)
           b == EINHEIT * m
<1>0. /\ v \in Seq(Nat) /\ gelesen[k] \in Nat /\ EINHEIT \in Nat \ {0} /\ Len(v) <= gelesen[k]
      /\ \A i \in 1 .. Len(v) : v[i] = gelesen[k] - Len(v) + i - 1
      /\ pruefer[k] = "prueft" /\ m # 0
  BY GroessenAnnahme DEF IInv, TypeOK, Stroeme, Strom, Senden
<1>1. /\ m \in Nat /\ b <= Len(v) /\ Len(v) < b + EINHEIT
      /\ \A i \in 1 .. m : Gueltig(v, i) /\ Inhalt(v, i) = g + i - 1
  BY Einheiten
<1>2. matcher # "fertig"
  BY <1>0 DEF IInv, Faeden
<1>3. /\ kanal' = Append(kanal, [von |-> k, stapel |-> s])
      /\ puffer' = [puffer EXCEPT ![k] = p]
      /\ pruefer' = [pruefer EXCEPT ![k] = "liest"]
      /\ sender' = sender
  BY <1>1, <1>2 DEF Senden
<1>4. s \in Seq(Int) /\ Len(s) = m /\ \A j \in 1 .. Len(s) : s[j] = g + j - 1
  <2>1. \A i \in 1 .. m : Inhalt(v, i) \in Int
    BY <1>1
  <2> HIDE DEF v, m
  <2> QED BY <1>1, <2>1
<1>5. b \in Nat
  <2>1. b \in Int /\ b >= 0
    BY <1>0, <1>1, SMT
  <2> QED BY <2>1
<1>6. p = SubSeq(v, b + 1, Len(v))
  <2>1. m * EINHEIT = b
    BY <1>0, <1>1, Verteilen
  <2> QED BY <2>1 DEF Rest
<1> HIDE DEF v, m, b, s, p
<1>7. p \in Seq(Nat) /\ Len(p) = Len(v) - b /\ \A i \in 1 .. Len(p) : p[i] = v[b + i]
  BY <1>0, <1>1, <1>5, <1>6, Ende
<1>8. \A i \in 1 .. Len(p) : p[i] = gelesen[k] - Len(p) + i - 1
  <2> SUFFICES ASSUME NEW i \in 1 .. Len(p) PROVE p[i] = gelesen[k] - Len(p) + i - 1
    OBVIOUS
  <2>1. b + i \in 1 .. Len(v)
    BY <1>0, <1>1, <1>5, <1>7
  <2>2. p[i] = gelesen[k] - Len(v) + (b + i) - 1
    BY <1>0, <1>7, <2>1
  <2>3. gelesen[k] \in Nat /\ Len(v) \in Nat /\ b \in Nat /\ Len(p) = Len(v) - b
    <3>1. v \in Seq(Nat)
      BY <1>0
    <3>2. Len(v) \in Nat
      BY <3>1
    <3> QED BY <1>0, <1>5, <1>7, <3>2
  <2> QED BY <2>2, <2>3
<1>9. EINHEIT * g \in Int /\ EINHEIT * (g + m) = EINHEIT * g + b
  BY <1>0, <1>1, Verteilen DEF b
<1>10. gelesen[k] = Bytes(g + m) + Len(p)
  <2>1. gelesen[k] = EINHEIT * g + Len(v)
    BY DEF v, Bytes
  <2>2. Len(v) \in Nat /\ b \in Nat /\ Len(p) = Len(v) - b
    BY <1>0, <1>5, <1>7
  <2> DEFINE w == EINHEIT * g
             x == EINHEIT * (g + m)
  <2>3. w \in Int /\ x = w + b /\ gelesen[k] = w + Len(v)
    BY <1>9, <2>1
  <2> HIDE DEF w, x
  <2>4. gelesen[k] = x + Len(p)
    BY <2>2, <2>3
  <2> QED BY <2>4 DEF x, Bytes
<1>11. Len(p) < EINHEIT /\ Len(p) <= Len(v) /\ m > 0
  BY <1>0, <1>1, <1>5, <1>7
<1>12. Len(p) <= Len(puffer[k])
  BY <1>11 DEF v
<1> QED
  BY <1>3, <1>4, <1>7, <1>8, <1>10, <1>11, <1>12

(* The buffer of every checker begins at a unit.                           *)
LEMMA Beginn ==
    ASSUME IInv, NEW k \in VERBINDUNGEN
    PROVE  \E g \in 0 .. EINHEITEN : gelesen[k] = Bytes(g) + Len(puffer[k])
<1>1. PICK N \in STAENDE(Len(kanal)) : Folge(N)
  BY DEF IInv, Geordnet
<1>2. Len(kanal) \in Nat
  BY DEF IInv, TypeOK
<1>3. N[k][Len(kanal)] \in 0 .. EINHEITEN
  BY <1>1, <1>2 DEF STAENDE
<1> QED BY <1>1, <1>3 DEF Folge

(* A buffer holds a unit at least.                                         *)
LEMMA Puffer == EINHEIT \in Nat \ {0} /\ STAPEL * EINHEIT \in Nat /\ EINHEIT <= STAPEL * EINHEIT
  BY GroessenAnnahme, SMT

(* Whole units and less than one more that make up the stream of a client  *)
(* are all of its units.                                                   *)
LEMMA Restlos ==
    ASSUME NEW g \in 0 .. EINHEITEN, NEW r \in Nat, r < EINHEIT, LAENGE = Bytes(g) + r
    PROVE  g = EINHEITEN /\ r = 0
<1> DEFINE M == EINHEITEN
           e == EINHEIT
<1>1. M \in Nat /\ e \in Nat \ {0} /\ g \in Nat /\ r \in 0 .. e - 1 /\ e * M = e * g + r
  BY Laenge, Puffer DEF Bytes
<1> HIDE DEF M, e
<1>2. g = M /\ r = 0
  BY <1>1, KuerzenRest, Zenon
<1> QED BY <1>2 DEF M

(* Lengths add up, and no stream is longer than its units.                 *)
LEMMA Summe ==
    ASSUME NEW m \in Nat, NEW g \in Nat
    PROVE  /\ Bytes(m) \in Nat
           /\ Bytes(m + g) = Bytes(m) + Bytes(g)
           /\ Bytes(m) <= LAENGE => m <= EINHEITEN
<1>1. EINHEIT \in Nat \ {0} /\ EINHEITEN \in Nat /\ LAENGE = EINHEIT * EINHEITEN
  BY Laenge, Puffer
<1>2. EINHEIT * m \in Nat /\ EINHEIT * (m + g) = EINHEIT * m + EINHEIT * g
  BY <1>1, SMT
<1>3. EINHEIT * m <= EINHEIT * EINHEITEN => m <= EINHEITEN
  BY <1>1, Kuerzen, Zenon
<1> QED BY <1>1, <1>2, <1>3 DEF Bytes

(* What holds no whole unit is shorter than one.                           *)
LEMMA KeineGanze == ASSUME NEW p \in Seq(Nat), Ganze(p) = 0 PROVE Len(p) < EINHEIT
<1>1. Len(p) \in Nat /\ EINHEIT \in Nat \ {0}
  BY Puffer
<1>2. Len(p) < EINHEIT * (Len(p) \div EINHEIT) + EINHEIT
  BY <1>1, Teilen
<1>3. Len(p) \div EINHEIT = 0
  BY DEF Ganze
<1>4. EINHEIT * 0 = 0
  BY <1>1
<1> QED BY <1>1, <1>2, <1>3, <1>4

(* Senders are handed out and dropped with their threads; the joins come in*)
(* their order.                                                            *)
LEMMA FaedenSchritt == ASSUME IInv, [Next]_vars PROVE Faeden'
<1> USE DEF IInv, Faeden, TypeOK
<1>1. ASSUME NEW k \in VERBINDUNGEN, KlientStarten(k) PROVE Faeden'
  BY <1>1, VerbindungsAnnahme DEF KlientStarten, netz
<1>2. ASSUME NEW k \in VERBINDUNGEN, Annehmen(k) PROVE Faeden'
  BY <1>2, VerbindungsAnnahme DEF Annehmen, netz
<1>3. ASSUME Loslassen PROVE Faeden'
  BY <1>3, VerbindungsAnnahme DEF Loslassen, OhneHaupt, netz
<1>4. ASSUME Warten PROVE Faeden'
  BY <1>4, VerbindungsAnnahme DEF Warten, netz
<1>5. ASSUME NEW k \in VERBINDUNGEN, Verbinden(k) PROVE Faeden'
  BY <1>5, VerbindungsAnnahme DEF Verbinden, netz
<1>6. ASSUME NEW k \in VERBINDUNGEN, Schreiben(k) PROVE Faeden'
  BY <1>6, VerbindungsAnnahme DEF Schreiben
<1>7. ASSUME NEW k \in VERBINDUNGEN, Schliessen(k) PROVE Faeden'
  BY <1>7, VerbindungsAnnahme DEF Schliessen, GegenseiteWeg, netz
<1>8. ASSUME NEW k \in VERBINDUNGEN, Abreissen(k) PROVE Faeden'
  BY <1>8, VerbindungsAnnahme DEF Abreissen
<1>9. ASSUME NEW k \in VERBINDUNGEN, Lesen(k) PROVE Faeden'
  <2>1. /\ UNCHANGED <<haupt, matcher, sender, kanal>> /\ pruefer[k] = "liest"
        /\ \E z \in {"liest", "prueft"} : pruefer' = [pruefer EXCEPT ![k] = z]
    BY <1>9 DEF Lesen
  <2> QED BY <2>1 DEF TypeOK
<1>10. ASSUME NEW k \in VERBINDUNGEN, LesenEndet(k) PROVE Faeden'
  BY <1>10, VerbindungsAnnahme DEF LesenEndet, netz
<1>11. ASSUME NEW k \in VERBINDUNGEN, Senden(k) PROVE Faeden'
  <2>1. PICK g \in 0 .. EINHEITEN : gelesen[k] = Bytes(g) + Len(puffer[k])
    BY Beginn
  <2>2. pruefer' = [pruefer EXCEPT ![k] = "liest"] /\ sender' = sender
    <3>1. g \in Nat
      BY Laenge
    <3> HIDE DEF TypeOK, Faeden
    <3> QED BY <1>11, <2>1, <3>1, NachSenden DEF Gesandt
  <2>3. UNCHANGED <<haupt, matcher>> /\ pruefer[k] = "prueft"
    BY <1>11 DEF Senden
  <2>4. matcher # "fertig"
    BY <2>3
  <2> QED BY <2>2, <2>3, <2>4 DEF TypeOK
<1>12. ASSUME Verarbeiten PROVE Faeden'
  BY <1>12, VerbindungsAnnahme DEF Verarbeiten, netz
<1>13. ASSUME MatcherEndet PROVE Faeden'
  BY <1>13, VerbindungsAnnahme DEF MatcherEndet, netz
<1>14. ASSUME UNCHANGED vars PROVE Faeden'
  BY <1>14, VerbindungsAnnahme DEF vars, netz
<1> QED
  BY <1>1, <1>2, <1>3, <1>4, <1>5, <1>6, <1>7, <1>8, <1>9, <1>10, <1>11, <1>12, <1>13, <1>14
  DEF Next, HauptSchritt, KlientSchritt, PrueferSchritt, MatcherSchritt

(* A checker that reads holds less than a unit, and no unit fails its      *)
(* check.                                                                  *)
LEMMA RahmenSchritt == ASSUME IInv, [Next]_vars PROVE RahmenHalten'
<1> USE DEF IInv, RahmenHalten, TypeOK
<1>1. ASSUME NEW k \in VERBINDUNGEN, KlientStarten(k) PROVE RahmenHalten'
  BY <1>1 DEF KlientStarten, netz
<1>2. ASSUME NEW k \in VERBINDUNGEN, Annehmen(k) PROVE RahmenHalten'
  <2>1. Len(puffer[k]) = 0 /\ puffer' = puffer /\ pruefer' = [pruefer EXCEPT ![k] = "liest"]
    BY <1>2 DEF Annehmen, Stroeme, Strom
  <2> QED BY <2>1, Puffer
<1>3. ASSUME Loslassen PROVE RahmenHalten'
  BY <1>3 DEF Loslassen, OhneHaupt, netz
<1>4. ASSUME Warten PROVE RahmenHalten'
  BY <1>4 DEF Warten, netz
<1>5. ASSUME NEW k \in VERBINDUNGEN, Verbinden(k) PROVE RahmenHalten'
  BY <1>5 DEF Verbinden, netz
<1>6. ASSUME NEW k \in VERBINDUNGEN, Schreiben(k) PROVE RahmenHalten'
  BY <1>6 DEF Schreiben
<1>7. ASSUME NEW k \in VERBINDUNGEN, Schliessen(k) PROVE RahmenHalten'
  BY <1>7 DEF Schliessen, GegenseiteWeg, netz
<1>8. ASSUME NEW k \in VERBINDUNGEN, Abreissen(k) PROVE RahmenHalten'
  BY <1>8 DEF Abreissen
<1>9. ASSUME NEW k \in VERBINDUNGEN, Lesen(k) PROVE RahmenHalten'
  <2>1. PICK n \in Nat, p \in Seq(Nat) :
           /\ puffer' = [puffer EXCEPT ![k] = p]
           /\ pruefer' = [pruefer EXCEPT ![k] = IF Ganze(p) = 0 THEN "liest" ELSE "prueft"]
    BY <1>9, NachLesen
  <2>2. Ganze(p) = 0 => Len(p) < EINHEIT
    BY KeineGanze
  <2> QED BY <2>1, <2>2 DEF TypeOK
<1>10. ASSUME NEW k \in VERBINDUNGEN, LesenEndet(k) PROVE RahmenHalten'
  BY <1>10 DEF LesenEndet, netz
<1>11. ASSUME NEW k \in VERBINDUNGEN, Senden(k) PROVE RahmenHalten'
  <2>1. PICK g \in 0 .. EINHEITEN : gelesen[k] = Bytes(g) + Len(puffer[k])
    BY Beginn
  <2>2. PICK p \in Seq(Nat) : /\ puffer' = [puffer EXCEPT ![k] = p] /\ Len(p) < EINHEIT
                              /\ pruefer' = [pruefer EXCEPT ![k] = "liest"]
    <3>1. g \in Nat
      BY Laenge
    <3> QED BY <1>11, <2>1, <3>1, NachSenden DEF Gesandt
  <2> QED BY <2>2 DEF TypeOK
<1>12. ASSUME Verarbeiten PROVE RahmenHalten'
  BY <1>12 DEF Verarbeiten, netz
<1>13. ASSUME MatcherEndet PROVE RahmenHalten'
  BY <1>13 DEF MatcherEndet, netz
<1>14. ASSUME UNCHANGED vars PROVE RahmenHalten'
  BY <1>14 DEF vars, netz
<1> QED
  BY <1>1, <1>2, <1>3, <1>4, <1>5, <1>6, <1>7, <1>8, <1>9, <1>10, <1>11, <1>12, <1>13, <1>14
  DEF Next, HauptSchritt, KlientSchritt, PrueferSchritt, MatcherSchritt

(* Buffers hold the bytes read last, and no unbroken stream ends early.    *)
LEMMA StroemeSchritt == ASSUME IInv, [Next]_vars PROVE Stroeme'
<1> USE DEF IInv, Stroeme, Strom
<1>1. ASSUME NEW k \in VERBINDUNGEN, KlientStarten(k) PROVE Stroeme'
  <2>1. ASSUME NEW j \in VERBINDUNGEN PROVE Strom(j)'
    <3>1. Strom(j)
      OBVIOUS
    <3>2. puffer' = puffer /\ gelesen' = gelesen
      BY <1>1 DEF KlientStarten, netz
    <3>3. Ganze(puffer[j])' = Ganze(puffer[j])
      BY <3>2 DEF Ganze
    <3> QED BY <1>1, <3>1, <3>2, <3>3, Laenge DEF KlientStarten, netz, TypeOK, RahmenHalten
  <2> QED BY <2>1
<1>2. ASSUME NEW k \in VERBINDUNGEN, Annehmen(k) PROVE Stroeme'
  <2>1. ASSUME NEW j \in VERBINDUNGEN PROVE Strom(j)'
    <3>1. Strom(j)
      OBVIOUS
    <3>2. puffer' = puffer /\ gelesen' = gelesen
      BY <1>2 DEF Annehmen, netz
    <3>3. Ganze(puffer[j])' = Ganze(puffer[j])
      BY <3>2 DEF Ganze
    <3> QED BY <1>2, <3>1, <3>2, <3>3, Laenge DEF Annehmen, netz, TypeOK, RahmenHalten
  <2> QED BY <2>1
<1>3. ASSUME Loslassen PROVE Stroeme'
  <2>1. ASSUME NEW j \in VERBINDUNGEN PROVE Strom(j)'
    <3>1. Strom(j)
      OBVIOUS
    <3>2. puffer' = puffer /\ gelesen' = gelesen
      BY <1>3 DEF Loslassen, OhneHaupt, netz
    <3>3. Ganze(puffer[j])' = Ganze(puffer[j])
      BY <3>2 DEF Ganze
    <3> QED BY <1>3, <3>1, <3>2, <3>3, Laenge DEF Loslassen, OhneHaupt, netz, TypeOK, RahmenHalten
  <2> QED BY <2>1
<1>4. ASSUME Warten PROVE Stroeme'
  <2>1. ASSUME NEW j \in VERBINDUNGEN PROVE Strom(j)'
    <3>1. Strom(j)
      OBVIOUS
    <3>2. puffer' = puffer /\ gelesen' = gelesen
      BY <1>4 DEF Warten, netz
    <3>3. Ganze(puffer[j])' = Ganze(puffer[j])
      BY <3>2 DEF Ganze
    <3> QED BY <1>4, <3>1, <3>2, <3>3, Laenge DEF Warten, netz, TypeOK, RahmenHalten
  <2> QED BY <2>1
<1>5. ASSUME NEW k \in VERBINDUNGEN, Verbinden(k) PROVE Stroeme'
  <2>1. ASSUME NEW j \in VERBINDUNGEN PROVE Strom(j)'
    <3>1. Strom(j)
      OBVIOUS
    <3>2. puffer' = puffer /\ gelesen' = gelesen
      BY <1>5 DEF Verbinden, netz
    <3>3. Ganze(puffer[j])' = Ganze(puffer[j])
      BY <3>2 DEF Ganze
    <3> QED BY <1>5, <3>1, <3>2, <3>3, Laenge DEF Verbinden, netz, TypeOK, RahmenHalten
  <2> QED BY <2>1
<1>6. ASSUME NEW k \in VERBINDUNGEN, Schreiben(k) PROVE Stroeme'
  <2>1. ASSUME NEW j \in VERBINDUNGEN PROVE Strom(j)'
    <3>1. Strom(j)
      OBVIOUS
    <3>2. puffer' = puffer /\ gelesen' = gelesen
      BY <1>6 DEF Schreiben
    <3>3. Ganze(puffer[j])' = Ganze(puffer[j])
      BY <3>2 DEF Ganze
    <3> QED BY <1>6, <3>1, <3>2, <3>3, Laenge DEF Schreiben, TypeOK, RahmenHalten
  <2> QED BY <2>1
<1>7. ASSUME NEW k \in VERBINDUNGEN, Schliessen(k) PROVE Stroeme'
  <2>1. ASSUME NEW j \in VERBINDUNGEN PROVE Strom(j)'
    <3>1. Strom(j)
      OBVIOUS
    <3>2. puffer' = puffer /\ gelesen' = gelesen
      BY <1>7 DEF Schliessen, GegenseiteWeg, netz
    <3>3. Ganze(puffer[j])' = Ganze(puffer[j])
      BY <3>2 DEF Ganze
    <3> QED BY <1>7, <3>1, <3>2, <3>3, Laenge DEF Schliessen, GegenseiteWeg, netz, TypeOK, RahmenHalten
  <2> QED BY <2>1
<1>8. ASSUME NEW k \in VERBINDUNGEN, Abreissen(k) PROVE Stroeme'
  <2>1. ASSUME NEW j \in VERBINDUNGEN PROVE Strom(j)'
    <3>1. Strom(j)
      OBVIOUS
    <3>2. puffer' = puffer /\ gelesen' = gelesen
      BY <1>8 DEF Abreissen
    <3>3. Ganze(puffer[j])' = Ganze(puffer[j])
      BY <3>2 DEF Ganze
    <3> QED BY <1>8, <3>1, <3>2, <3>3, Laenge DEF Abreissen, TypeOK, RahmenHalten
  <2> QED BY <2>1
<1>9. ASSUME NEW k \in VERBINDUNGEN, Lesen(k) PROVE Stroeme'
  <2>1. PICK n \in Nat, p \in Seq(Nat) :
           /\ gelesen' = [gelesen EXCEPT ![k] = @ + n] /\ gelesen[k] + n <= geschrieben[k]
           /\ puffer' = [puffer EXCEPT ![k] = p]
           /\ Len(p) = Len(puffer[k]) + n
           /\ \A i \in 1 .. Len(p) : p[i] = gelesen[k] - Len(puffer[k]) + i - 1
           /\ pruefer' = [pruefer EXCEPT ![k] = IF Ganze(p) = 0 THEN "liest" ELSE "prueft"]
    <3> HIDE DEF Stroeme, Strom
    <3> QED BY <1>9, NachLesen
  <2>2. UNCHANGED <<klient, geschrieben, gerissen>> /\ pruefer[k] = "liest"
    BY <1>9 DEF Lesen
  <2>3. puffer[k] \in Seq(Nat) /\ gelesen[k] \in Nat /\ geschrieben[k] \in Nat
    BY Laenge DEF TypeOK
  <2>4. Strom(k)'
    <3>1. Len(p) <= gelesen'[k] /\ gelesen'[k] <= geschrieben'[k]
      BY <2>1, <2>2, <2>3 DEF TypeOK
    <3>2. \A i \in 1 .. Len(p) : p[i] = gelesen'[k] - Len(p) + i - 1
      <4>1. gelesen'[k] - Len(p) = gelesen[k] - Len(puffer[k])
        BY <2>1, <2>3 DEF TypeOK
      <4> QED BY <2>1, <4>1
    <3>3. puffer'[k] = p /\ pruefer'[k] = IF Ganze(p) = 0 THEN "liest" ELSE "prueft"
      BY <2>1 DEF TypeOK
    <3>4. klient[k] = "fertig" /\ k \notin gerissen => geschrieben[k] = LAENGE
      BY <2>2
    <3>5. Ganze(puffer'[k]) = Ganze(p)
      BY <3>3
    <3> QED BY <2>2, <3>1, <3>2, <3>3, <3>4, <3>5 DEF Ganze
  <2>5. ASSUME NEW j \in VERBINDUNGEN, j # k PROVE Strom(j)'
    <3>1. /\ gelesen'[j] = gelesen[j] /\ puffer'[j] = puffer[j] /\ pruefer'[j] = pruefer[j]
          /\ klient'[j] = klient[j] /\ geschrieben'[j] = geschrieben[j] /\ gerissen' = gerissen
      BY <2>1, <2>2, <2>5
    <3>2. Strom(j)
      OBVIOUS
    <3> QED BY <3>1, <3>2 DEF Ganze
  <2> QED BY <2>4, <2>5
<1>10. ASSUME NEW k \in VERBINDUNGEN, LesenEndet(k) PROVE Stroeme'
  <2>1. /\ UNCHANGED <<klient, geschrieben, gelesen, gerissen, puffer>>
        /\ pruefer' = [pruefer EXCEPT ![k] = "fertig"] /\ pruefer[k] = "liest"
    BY <1>10 DEF LesenEndet, netz
  <2>2. Len(puffer[k]) \in Nat /\ Len(puffer[k]) < EINHEIT /\ Platz(k) # 0
    <3>1. puffer[k] \in Seq(Nat)
      BY DEF TypeOK
    <3>2. Len(puffer[k]) \in Nat
      BY <3>1
    <3> QED BY <2>1, <3>2, Puffer DEF RahmenHalten, Platz
  <2>3. k \notin gerissen => gelesen[k] = LAENGE /\ Len(puffer[k]) = 0
    <3> SUFFICES ASSUME k \notin gerissen PROVE gelesen[k] = LAENGE /\ Len(puffer[k]) = 0
      OBVIOUS
    <3>1. klient[k] = "fertig" /\ Unterwegs(k) = 0
      BY <1>10, <2>2 DEF LesenEndet
    <3>2. gelesen[k] = geschrieben[k] /\ geschrieben[k] = LAENGE
      BY <2>1, <3>1, Laenge DEF Unterwegs, TypeOK
    <3>3. PICK g \in 0 .. EINHEITEN : gelesen[k] = Bytes(g) + Len(puffer[k])
      BY Beginn
    <3>6. Len(puffer[k]) = 0
      BY <2>2, <3>2, <3>3, Restlos
    <3> QED BY <3>2, <3>6
  <2>4. ASSUME NEW j \in VERBINDUNGEN PROVE Strom(j)'
    <3>1. Strom(j)
      OBVIOUS
    <3>2. Ganze(puffer[j])' = Ganze(puffer[j])
      BY <2>1 DEF Ganze
    <3>3. pruefer'[j] = IF j = k THEN "fertig" ELSE pruefer[j]
      BY <2>1 DEF TypeOK
    <3> QED BY <2>1, <2>3, <3>1, <3>2, <3>3
  <2> QED BY <2>4
<1>11. ASSUME NEW k \in VERBINDUNGEN, Senden(k) PROVE Stroeme'
  <2>1. PICK g \in 0 .. EINHEITEN : gelesen[k] = Bytes(g) + Len(puffer[k])
    BY Beginn
  <2>2. PICK p \in Seq(Nat) :
           /\ puffer' = [puffer EXCEPT ![k] = p]
           /\ Len(p) < EINHEIT /\ Len(p) <= Len(puffer[k])
           /\ \A i \in 1 .. Len(p) : p[i] = gelesen[k] - Len(p) + i - 1
           /\ pruefer' = [pruefer EXCEPT ![k] = "liest"]
    <3>1. g \in Nat
      BY Laenge
    <3> HIDE DEF TypeOK, Stroeme, Strom
    <3> QED BY <1>11, <2>1, <3>1, NachSenden DEF Gesandt
  <2>3. UNCHANGED <<klient, geschrieben, gelesen, gerissen>> /\ pruefer[k] = "prueft"
    BY <1>11 DEF Senden, netz
  <2>4. puffer[k] \in Seq(Nat) /\ gelesen[k] \in Nat /\ Len(p) \in Nat
    BY Laenge DEF TypeOK
  <2>5. puffer'[k] = p /\ pruefer'[k] = "liest"
    BY <2>2 DEF TypeOK
  <2>6. Strom(k)'
    BY <2>2, <2>3, <2>4, <2>5
  <2>7. ASSUME NEW j \in VERBINDUNGEN, j # k PROVE Strom(j)'
    <3>1. /\ gelesen'[j] = gelesen[j] /\ puffer'[j] = puffer[j] /\ pruefer'[j] = pruefer[j]
          /\ klient'[j] = klient[j] /\ geschrieben'[j] = geschrieben[j] /\ gerissen' = gerissen
      BY <2>2, <2>3, <2>7
    <3>2. Strom(j)
      OBVIOUS
    <3> QED BY <3>1, <3>2 DEF Ganze
  <2> QED BY <2>6, <2>7
<1>12. ASSUME Verarbeiten PROVE Stroeme'
  <2>1. ASSUME NEW j \in VERBINDUNGEN PROVE Strom(j)'
    <3>1. Strom(j)
      OBVIOUS
    <3>2. puffer' = puffer /\ gelesen' = gelesen
      BY <1>12 DEF Verarbeiten, netz
    <3>3. Ganze(puffer[j])' = Ganze(puffer[j])
      BY <3>2 DEF Ganze
    <3> QED BY <1>12, <3>1, <3>2, <3>3, Laenge DEF Verarbeiten, netz, TypeOK, RahmenHalten
  <2> QED BY <2>1
<1>13. ASSUME MatcherEndet PROVE Stroeme'
  <2>1. ASSUME NEW j \in VERBINDUNGEN PROVE Strom(j)'
    <3>1. Strom(j)
      OBVIOUS
    <3>2. puffer' = puffer /\ gelesen' = gelesen
      BY <1>13 DEF MatcherEndet, netz
    <3>3. Ganze(puffer[j])' = Ganze(puffer[j])
      BY <3>2 DEF Ganze
    <3> QED BY <1>13, <3>1, <3>2, <3>3, Laenge DEF MatcherEndet, netz, TypeOK, RahmenHalten
  <2> QED BY <2>1
<1>14. ASSUME UNCHANGED vars PROVE Stroeme'
  <2>1. ASSUME NEW j \in VERBINDUNGEN PROVE Strom(j)'
    <3>1. Strom(j)
      OBVIOUS
    <3>2. puffer' = puffer /\ gelesen' = gelesen
      BY <1>14 DEF vars, netz
    <3>3. Ganze(puffer[j])' = Ganze(puffer[j])
      BY <3>2 DEF Ganze
    <3> QED BY <1>14, <3>1, <3>2, <3>3, Laenge DEF vars, netz, TypeOK, RahmenHalten
  <2> QED BY <2>1
<1> QED
  BY <1>1, <1>2, <1>3, <1>4, <1>5, <1>6, <1>7, <1>8, <1>9, <1>10, <1>11, <1>12, <1>13, <1>14
  DEF Next, HauptSchritt, KlientSchritt, PrueferSchritt, MatcherSchritt

(* The first batch of the channel and those behind it.                     *)
LEMMA Kopf ==
    ASSUME IInv, kanal # <<>>
    PROVE  /\ Len(kanal) \in Nat \ {0} /\ Head(kanal) = kanal[1]
           /\ Head(kanal).von \in VERBINDUNGEN /\ Head(kanal).stapel \in Seq(Int)
           /\ Tail(kanal) \in Seq([von : VERBINDUNGEN, stapel : Seq(Int)])
           /\ Len(Tail(kanal)) = Len(kanal) - 1
           /\ \A i \in 1 .. Len(kanal) - 1 : Tail(kanal)[i] = kanal[i + 1]
<1> DEFINE S == [von : VERBINDUNGEN, stapel : Seq(Int)]
<1>1. kanal \in Seq(S)
  BY DEF IInv, TypeOK
<1> HIDE DEF S
<1>2. Len(kanal) \in Nat \ {0}
  BY <1>1, EmptySeq
<1>3. /\ Head(kanal) \in S /\ Tail(kanal) \in Seq(S)
      /\ Len(Tail(kanal)) = Len(kanal) - 1
      /\ \A i \in 1 .. Len(Tail(kanal)) : Tail(kanal)[i] = kanal[i + 1]
  BY <1>1, HeadTailProperties
<1>4. Head(kanal) = kanal[1]
  BY <1>1, <1>2
<1> QED BY <1>2, <1>3, <1>4 DEF S

(* Every step keeps the types.                                             *)
LEMMA TypSchritt == ASSUME IInv, [Next]_vars PROVE TypeOK'
<1> USE DEF IInv, TypeOK
<1>1. ASSUME NEW k \in VERBINDUNGEN, KlientStarten(k) PROVE TypeOK'
  BY <1>1 DEF KlientStarten, netz
<1>2. ASSUME NEW k \in VERBINDUNGEN, Annehmen(k) PROVE TypeOK'
  BY <1>2 DEF Annehmen, netz
<1>3. ASSUME Loslassen PROVE TypeOK'
  BY <1>3 DEF Loslassen, OhneHaupt, netz
<1>4. ASSUME Warten PROVE TypeOK'
  BY <1>4 DEF Warten, netz
<1>5. ASSUME NEW k \in VERBINDUNGEN, Verbinden(k) PROVE TypeOK'
  BY <1>5 DEF Verbinden, netz
<1>6. ASSUME NEW k \in VERBINDUNGEN, Schreiben(k) PROVE TypeOK'
  <2>1. PICK n \in 1 .. FENSTER - Unterwegs(k) :
           geschrieben[k] + n <= LAENGE /\ geschrieben' = [geschrieben EXCEPT ![k] = @ + n]
    BY <1>6 DEF Schreiben
  <2>2. FENSTER - Unterwegs(k) \in Int /\ geschrieben[k] \in Nat
    BY Laenge, GroessenAnnahme DEF Unterwegs
  <2>3. geschrieben[k] + n \in 0 .. LAENGE
    BY <2>1, <2>2, Laenge
  <2> QED BY <1>6, <2>1, <2>3 DEF Schreiben
<1>7. ASSUME NEW k \in VERBINDUNGEN, Schliessen(k) PROVE TypeOK'
  BY <1>7 DEF Schliessen, GegenseiteWeg, netz
<1>8. ASSUME NEW k \in VERBINDUNGEN, Abreissen(k) PROVE TypeOK'
  BY <1>8 DEF Abreissen
<1>9. ASSUME NEW k \in VERBINDUNGEN, Lesen(k) PROVE TypeOK'
  <2>1. PICK n \in Nat, p \in Seq(Nat) :
           /\ gelesen' = [gelesen EXCEPT ![k] = @ + n] /\ gelesen[k] + n <= geschrieben[k]
           /\ puffer' = [puffer EXCEPT ![k] = p] /\ Len(p) <= STAPEL * EINHEIT
           /\ pruefer' = [pruefer EXCEPT ![k] = IF Ganze(p) = 0 THEN "liest" ELSE "prueft"]
    <3> HIDE DEF TypeOK
    <3> QED BY <1>9, NachLesen
  <2>2. gelesen[k] + n \in 0 .. LAENGE
    BY <2>1, Laenge
  <2> QED BY <1>9, <2>1, <2>2 DEF Lesen
<1>10. ASSUME NEW k \in VERBINDUNGEN, LesenEndet(k) PROVE TypeOK'
  BY <1>10 DEF LesenEndet, netz
<1>11. ASSUME NEW k \in VERBINDUNGEN, Senden(k) PROVE TypeOK'
  <2>1. PICK g \in 0 .. EINHEITEN : gelesen[k] = Bytes(g) + Len(puffer[k])
    BY Beginn
  <2>2. PICK s \in Seq(Int), p \in Seq(Nat) :
           /\ kanal' = Append(kanal, [von |-> k, stapel |-> s])
           /\ puffer' = [puffer EXCEPT ![k] = p] /\ Len(p) <= Len(puffer[k])
           /\ pruefer' = [pruefer EXCEPT ![k] = "liest"]
           /\ sender' = sender
    <3>1. g \in Nat
      BY Laenge
    <3> HIDE DEF TypeOK
    <3> QED BY <1>11, <2>1, <3>1, NachSenden DEF Gesandt
  <2>3. Len(p) <= STAPEL * EINHEIT
    <3>1. puffer[k] \in Seq(Nat)
      OBVIOUS
    <3>2. Len(p) \in Nat /\ Len(puffer[k]) \in Nat
      BY <3>1
    <3> QED BY <2>2, <3>2, Puffer
  <2> QED BY <1>11, <2>2, <2>3 DEF Senden, netz
<1>12. ASSUME Verarbeiten PROVE TypeOK'
  <2>1. kanal # <<>> /\ kanal' = Tail(kanal) /\ verarbeitet' =
           [verarbeitet EXCEPT ![Head(kanal).von] = @ \o Head(kanal).stapel]
    BY <1>12 DEF Verarbeiten
  <2>2. /\ Head(kanal).von \in VERBINDUNGEN /\ Head(kanal).stapel \in Seq(Int)
        /\ Tail(kanal) \in Seq([von : VERBINDUNGEN, stapel : Seq(Int)])
    BY <2>1, Kopf
  <2>3. verarbeitet[Head(kanal).von] \o Head(kanal).stapel \in Seq(Int)
    BY <2>2
  <2> QED BY <1>12, <2>1, <2>2, <2>3 DEF Verarbeiten, netz
<1>13. ASSUME MatcherEndet PROVE TypeOK'
  BY <1>13 DEF MatcherEndet, netz
<1>14. ASSUME UNCHANGED vars PROVE TypeOK'
  BY <1>14 DEF vars, netz
<1> QED
  BY <1>1, <1>2, <1>3, <1>4, <1>5, <1>6, <1>7, <1>8, <1>9, <1>10, <1>11, <1>12, <1>13, <1>14
  DEF Next, HauptSchritt, KlientSchritt, PrueferSchritt, MatcherSchritt

(* Only reading, sending and processing move what is under way.            *)
LEMMA Ruhe ==
    ASSUME [Next]_vars
    PROVE  \/ \E k \in VERBINDUNGEN : Lesen(k) \/ Senden(k)
           \/ Verarbeiten
           \/ UNCHANGED <<gelesen, puffer, kanal, verarbeitet>>
<1>1. ASSUME HauptSchritt PROVE UNCHANGED <<gelesen, puffer, kanal, verarbeitet>>
  BY <1>1 DEF HauptSchritt, KlientStarten, Annehmen, Loslassen, Warten, netz
<1>2. ASSUME NEW k \in VERBINDUNGEN, KlientSchritt(k) \/ Abreissen(k) \/ LesenEndet(k) \/ MatcherEndet
      PROVE  UNCHANGED <<gelesen, puffer, kanal, verarbeitet>>
  BY <1>2 DEF KlientSchritt, Verbinden, Schreiben, Schliessen, Abreissen, LesenEndet, MatcherEndet, netz
<1>3. ASSUME MatcherEndet PROVE UNCHANGED <<gelesen, puffer, kanal, verarbeitet>>
  BY <1>3 DEF MatcherEndet, netz
<1> QED
  BY <1>1, <1>2, <1>3 DEF Next, PrueferSchritt, MatcherSchritt, vars, netz

(* Reading moves the end of the buffer and not its beginning.              *)
LEMMA GeordnetLesen == ASSUME IInv, NEW k \in VERBINDUNGEN, Lesen(k) PROVE Geordnet'
<1>1. PICK N \in STAENDE(Len(kanal)) : Folge(N)
  BY DEF IInv, Geordnet
<1>2. PICK n \in Nat, p \in Seq(Nat) :
         /\ gelesen' = [gelesen EXCEPT ![k] = @ + n]
         /\ puffer' = [puffer EXCEPT ![k] = p]
         /\ Len(p) = Len(puffer[k]) + n
  BY NachLesen
<1>3. kanal' = kanal /\ verarbeitet' = verarbeitet
  BY DEF Lesen
<1>4. /\ gelesen \in [VERBINDUNGEN -> 0 .. LAENGE] /\ puffer \in [VERBINDUNGEN -> Seq(Nat)]
      /\ Len(puffer[k]) \in Nat
  <2>1. puffer[k] \in Seq(Nat)
    BY DEF IInv, TypeOK
  <2> QED BY <2>1 DEF IInv, TypeOK
<1>5. ASSUME NEW j \in VERBINDUNGEN
      PROVE  gelesen'[j] = Bytes(N[j][Len(kanal)]) + Len(puffer'[j])
  <2>1. PICK g \in Nat : g = N[j][Len(kanal)]
    <3>1. Len(kanal) \in Nat
      BY DEF IInv, TypeOK
    <3>2. N[j] \in [0 .. Len(kanal) -> 0 .. EINHEITEN]
      BY <1>1 DEF STAENDE
    <3>3. N[j][Len(kanal)] \in 0 .. EINHEITEN
      BY <3>1, <3>2
    <3> QED BY <3>3, Laenge
  <2>2. gelesen[j] = Bytes(g) + Len(puffer[j]) /\ Bytes(g) \in Nat
    BY <1>1, <2>1, Summe DEF Folge
  <2>3. CASE j = k
    <3>1. gelesen'[k] = gelesen[k] + n /\ puffer'[k] = p
      BY <1>2, <1>4
    <3>2. gelesen[k] = Bytes(g) + Len(puffer[k])
      BY <2>2, <2>3
    <3>3. gelesen[k] + n = Bytes(g) + Len(p)
      BY <1>2, <1>4, <2>2, <3>2
    <3> QED BY <2>1, <2>3, <3>1, <3>3
  <2>4. CASE j # k
    <3>1. gelesen'[j] = gelesen[j] /\ puffer'[j] = puffer[j]
      BY <1>2, <1>4, <2>4
    <3> QED BY <2>1, <2>2, <3>1
  <2> QED BY <2>3, <2>4
<1>6. Folge(N)'
  BY <1>1, <1>3, <1>5 DEF Folge
<1> QED BY <1>1, <1>3, <1>6 DEF Geordnet

(* What is under way comes from a connection.                              *)
LEMMA Sendung ==
    ASSUME IInv, NEW i \in 1 .. Len(kanal)
    PROVE  kanal[i].von \in VERBINDUNGEN /\ kanal[i].stapel \in Seq(Int)
<1>1. kanal[i] \in [von : VERBINDUNGEN, stapel : Seq(Int)]
  BY ElementOfSeq DEF IInv, TypeOK
<1> QED BY <1>1

(* A batch continues the units of its connection.                          *)
LEMMA GeordnetSenden == ASSUME IInv, NEW k \in VERBINDUNGEN, Senden(k) PROVE Geordnet'
<1>a. PICK n \in Nat : n = Len(kanal)
  BY DEF IInv, TypeOK
<1>0. n \in Nat /\ Len(kanal) = n /\ kanal \in Seq([von : VERBINDUNGEN, stapel : Seq(Int)])
  BY <1>a DEF IInv, TypeOK
<1>1. PICK N \in STAENDE(n) : Folge(N)
  BY <1>a DEF IInv, Geordnet
<1>b. PICK g \in Nat : g = N[k][n]
  BY <1>0, <1>1, Laenge DEF STAENDE
<1>2. g \in 0 .. EINHEITEN /\ gelesen[k] = Bytes(g) + Len(puffer[k])
  BY <1>0, <1>1, <1>b DEF STAENDE, Folge
<1>c. PICK s \in Seq(Int), p \in Seq(Nat) : Gesandt(k, g, s, p)
  BY <1>2, NachSenden
<1>3. /\ kanal' = Append(kanal, [von |-> k, stapel |-> s])
      /\ Len(s) > 0 /\ \A j \in 1 .. Len(s) : s[j] = g + j - 1
      /\ puffer' = [puffer EXCEPT ![k] = p]
      /\ gelesen[k] = Bytes(g + Len(s)) + Len(p)
  BY <1>c DEF Gesandt
<1>4. verarbeitet' = verarbeitet /\ gelesen' = gelesen
  BY DEF Senden, netz
<1>5. g + Len(s) \in 0 .. EINHEITEN
  <2>1. g + Len(s) \in Nat /\ Len(p) \in Nat
    OBVIOUS
  <2>2. Bytes(g + Len(s)) \in Nat /\ gelesen[k] \in 0 .. LAENGE
    BY <2>1, Summe DEF IInv, TypeOK
  <2>3. Bytes(g + Len(s)) <= LAENGE
    BY <1>3, <2>1, <2>2, Laenge
  <2> QED BY <2>1, <2>3, Summe, Laenge
<1>6. /\ Len(kanal') = n + 1 /\ kanal'[n + 1] = [von |-> k, stapel |-> s]
      /\ \A i \in 1 .. n : kanal'[i] = kanal[i]
  BY <1>0, <1>3
<1>7. PICK M \in STAENDE(n + 1) :
         \A j \in VERBINDUNGEN : /\ \A i \in 0 .. n : M[j][i] = N[j][i]
                               /\ M[j][n + 1] = N[j][n] + (IF j = k THEN Len(s) ELSE 0)
  <2> DEFINE M == [j \in VERBINDUNGEN |-> [i \in 0 .. n + 1 |->
                      IF i <= n THEN N[j][i] ELSE N[j][n] + (IF j = k THEN Len(s) ELSE 0)]]
  <2>1. \A j \in VERBINDUNGEN : \A i \in 0 .. n : N[j][i] \in 0 .. EINHEITEN
    BY <1>1 DEF STAENDE
  <2>2. \A j \in VERBINDUNGEN : N[j][n] + (IF j = k THEN Len(s) ELSE 0) \in 0 .. EINHEITEN
    BY <1>0, <1>b, <1>5, <2>1, Laenge
  <2>3. M \in STAENDE(n + 1)
    BY <1>0, <2>1, <2>2 DEF STAENDE
  <2>4. \A j \in VERBINDUNGEN : /\ \A i \in 0 .. n : M[j][i] = N[j][i]
                                /\ M[j][n + 1] = N[j][n] + (IF j = k THEN Len(s) ELSE 0)
    BY <1>0
  <2> QED BY <2>3, <2>4
<1>8. \A j \in VERBINDUNGEN : /\ \A i \in 0 .. n : M[j][i] = N[j][i]
                              /\ M[j][n + 1] = N[j][n] + (IF j = k THEN Len(s) ELSE 0)
  BY <1>7
<1>9. ASSUME NEW j \in VERBINDUNGEN
      PROVE  /\ M[j][0] = Len(verarbeitet'[j])
             /\ \A u \in 1 .. Len(verarbeitet'[j]) : verarbeitet'[j][u] = u - 1
             /\ \A i \in 1 .. n + 1 :
                   M[j][i] = M[j][i - 1] + (IF kanal'[i].von = j THEN Len(kanal'[i].stapel) ELSE 0)
             /\ gelesen'[j] = Bytes(M[j][n + 1]) + Len(puffer'[j])
  <2>1. /\ M[j][0] = Len(verarbeitet'[j])
        /\ \A u \in 1 .. Len(verarbeitet'[j]) : verarbeitet'[j][u] = u - 1
    BY <1>0, <1>1, <1>4, <1>8 DEF Folge
  <2>2. ASSUME NEW i \in 1 .. n + 1
        PROVE  M[j][i] = M[j][i - 1] + (IF kanal'[i].von = j THEN Len(kanal'[i].stapel) ELSE 0)
    <3>1. CASE i = n + 1
      BY <1>0, <1>6, <1>8, <3>1
    <3>2. CASE i # n + 1
      <4>1. i \in 1 .. n /\ i - 1 \in 0 .. n /\ i \in 0 .. n
        BY <1>0, <3>2
      <4>2. N[j][i] = N[j][i - 1] + (IF kanal[i].von = j THEN Len(kanal[i].stapel) ELSE 0)
        BY <1>0, <1>1, <4>1 DEF Folge
      <4> QED BY <1>6, <1>8, <4>1, <4>2
    <3> QED BY <3>1, <3>2
  <2>3. gelesen'[j] = Bytes(M[j][n + 1]) + Len(puffer'[j])
    <3>1. CASE j = k
      <4>1. puffer'[k] = p /\ M[k][n + 1] = g + Len(s)
        BY <1>b, <1>3, <1>8 DEF IInv, TypeOK
      <4> QED BY <1>3, <1>4, <3>1, <4>1
    <3>2. CASE j # k
      <4>1. puffer'[j] = puffer[j] /\ gelesen[j] = Bytes(N[j][n]) + Len(puffer[j])
        BY <1>0, <1>1, <1>3, <3>2 DEF Folge
      <4>2. N[j][n] \in Nat
        BY <1>0, <1>1, Laenge DEF STAENDE
      <4>3. M[j][n + 1] = N[j][n]
        BY <1>8, <3>2, <4>2
      <4> QED BY <1>4, <4>1, <4>3
    <3> QED BY <3>1, <3>2
  <2> QED BY <2>1, <2>2, <2>3
<1>10. ASSUME NEW i \in 1 .. n + 1
       PROVE  /\ Len(kanal'[i].stapel) > 0
              /\ \A j \in 1 .. Len(kanal'[i].stapel) :
                    kanal'[i].stapel[j] = M[kanal'[i].von][i - 1] + j - 1
  <2>1. CASE i = n + 1
    <3>1. M[k][n] = g /\ i - 1 = n
      BY <1>0, <1>b, <1>8, <2>1
    <3>2. kanal'[i].stapel = s /\ kanal'[i].von = k
      BY <1>6, <2>1
    <3> QED BY <1>3, <3>1, <3>2
  <2>2. CASE i # n + 1
    <3>1. i \in 1 .. n /\ i - 1 \in 0 .. n
      BY <1>0, <2>2
    <3>2. kanal[i].von \in VERBINDUNGEN /\ kanal'[i] = kanal[i]
      BY <1>0, <1>6, <3>1, Sendung
    <3>3. M[kanal[i].von][i - 1] = N[kanal[i].von][i - 1]
      BY <1>8, <3>1, <3>2
    <3>4. /\ Len(kanal[i].stapel) > 0
          /\ \A j \in 1 .. Len(kanal[i].stapel) :
                kanal[i].stapel[j] = N[kanal[i].von][i - 1] + j - 1
      BY <1>0, <1>1, <3>1 DEF Folge
    <3> QED BY <3>2, <3>3, <3>4
  <2> QED BY <2>1, <2>2
<1>11. Folge(M)'
  BY <1>6, <1>9, <1>10 DEF Folge
<1> QED BY <1>6, <1>7, <1>11 DEF Geordnet

(* Processing a batch continues what was processed of its connection.      *)
LEMMA GeordnetVerarbeiten == ASSUME IInv, Verarbeiten PROVE Geordnet'
<1>a. PICK n \in Nat : n + 1 = Len(kanal)
  <2>1. Len(kanal) \in Nat \ {0}
    BY Kopf DEF Verarbeiten
  <2>2. Len(kanal) - 1 \in Nat /\ Len(kanal) - 1 + 1 = Len(kanal)
    BY <2>1
  <2> QED BY <2>2
<1>0. /\ Len(kanal) = n + 1 /\ kanal' = Tail(kanal)
      /\ Len(kanal') = n /\ \A i \in 1 .. n : kanal'[i] = kanal[i + 1]
  BY <1>a, Kopf DEF Verarbeiten
<1>1. PICK N \in STAENDE(n + 1) : Folge(N)
  BY <1>a DEF IInv, Geordnet
<1>2. PICK v \in VERBINDUNGEN, s \in Seq(Int) :
         /\ v = kanal[1].von /\ s = kanal[1].stapel
         /\ verarbeitet' = [verarbeitet EXCEPT ![v] = @ \o s]
  BY Kopf DEF Verarbeiten
<1>3. /\ gelesen' = gelesen /\ puffer' = puffer
      /\ verarbeitet \in [VERBINDUNGEN -> Seq(Int)]
  BY DEF Verarbeiten, netz, IInv, TypeOK
<1>4. PICK M \in STAENDE(n) :
         \A j \in VERBINDUNGEN : \A i \in 0 .. n : M[j][i] = N[j][i + 1]
  <2> DEFINE M == [j \in VERBINDUNGEN |-> [i \in 0 .. n |-> N[j][i + 1]]]
  <2>1. \A j \in VERBINDUNGEN : \A i \in 0 .. n + 1 : N[j][i] \in 0 .. EINHEITEN
    BY <1>1 DEF STAENDE
  <2>2. \A i \in 0 .. n : i + 1 \in 0 .. n + 1
    OBVIOUS
  <2>3. M \in STAENDE(n)
    BY <2>1, <2>2 DEF STAENDE
  <2>4. \A j \in VERBINDUNGEN : \A i \in 0 .. n : M[j][i] = N[j][i + 1]
    OBVIOUS
  <2> QED BY <2>3, <2>4
<1>5. ASSUME NEW j \in VERBINDUNGEN
      PROVE  /\ M[j][0] = Len(verarbeitet'[j])
             /\ \A u \in 1 .. Len(verarbeitet'[j]) : verarbeitet'[j][u] = u - 1
             /\ \A i \in 1 .. n :
                   M[j][i] = M[j][i - 1] + (IF kanal'[i].von = j THEN Len(kanal'[i].stapel) ELSE 0)
             /\ gelesen'[j] = Bytes(M[j][n]) + Len(puffer'[j])
  <2>0. /\ N[j][0] = Len(verarbeitet[j])
        /\ \A u \in 1 .. Len(verarbeitet[j]) : verarbeitet[j][u] = u - 1
        /\ \A i \in 1 .. n + 1 :
              N[j][i] = N[j][i - 1] + (IF kanal[i].von = j THEN Len(kanal[i].stapel) ELSE 0)
        /\ gelesen[j] = Bytes(N[j][n + 1]) + Len(puffer[j])
    BY <1>0, <1>1 DEF Folge
  <2>1. /\ M[j][0] = N[j][1] /\ M[j][n] = N[j][n + 1]
        /\ N[j][1] = N[j][0] + (IF v = j THEN Len(s) ELSE 0)
    <3>1. 1 \in 1 .. n + 1 /\ 0 \in 0 .. n /\ n \in 0 .. n /\ 0 + 1 = 1 /\ 1 - 1 = 0
      OBVIOUS
    <3>2. M[j][0] = N[j][1] /\ M[j][n] = N[j][n + 1]
      BY <1>4, <3>1
    <3>3. N[j][1] = N[j][1 - 1] + (IF kanal[1].von = j THEN Len(kanal[1].stapel) ELSE 0)
      BY <2>0, <3>1
    <3> QED BY <1>2, <3>1, <3>2, <3>3
  <2>2. /\ M[j][0] = Len(verarbeitet'[j])
        /\ \A u \in 1 .. Len(verarbeitet'[j]) : verarbeitet'[j][u] = u - 1
    <3>0. verarbeitet[j] \in Seq(Int) /\ Len(verarbeitet[j]) \in Nat /\ Len(s) \in Nat
      BY <1>3
    <3>1. CASE j = v
      <4>1. verarbeitet'[j] = verarbeitet[j] \o s
        BY <1>2, <1>3, <3>1
      <4>2. Len(verarbeitet'[j]) = Len(verarbeitet[j]) + Len(s)
        BY <3>0, <4>1
      <4>3. \A u \in 1 .. Len(s) : s[u] = Len(verarbeitet[j]) + u - 1
        <5>1. 1 \in 1 .. n + 1 /\ 1 - 1 = 0
          OBVIOUS
        <5>2. \A u \in 1 .. Len(kanal[1].stapel) : kanal[1].stapel[u] = N[kanal[1].von][1 - 1] + u - 1
          BY <1>0, <1>1, <5>1 DEF Folge
        <5> QED BY <1>2, <2>0, <3>1, <5>1, <5>2
      <4>4. ASSUME NEW u \in 1 .. Len(verarbeitet'[j]) PROVE verarbeitet'[j][u] = u - 1
        <5>1. CASE u <= Len(verarbeitet[j])
          BY <2>0, <3>0, <4>1, <4>2, <5>1
        <5>2. CASE u > Len(verarbeitet[j])
          <6>1. verarbeitet'[j][u] = s[u - Len(verarbeitet[j])] /\ u - Len(verarbeitet[j]) \in 1 .. Len(s)
            BY <3>0, <4>1, <4>2, <5>2
          <6> QED BY <3>0, <4>3, <6>1
        <5> QED BY <3>0, <5>1, <5>2
      <4> QED BY <2>0, <2>1, <3>0, <3>1, <4>2, <4>4
    <3>2. CASE j # v
      <4>1. verarbeitet'[j] = verarbeitet[j]
        BY <1>2, <1>3, <3>2
      <4>2. M[j][0] = Len(verarbeitet[j])
        <5>1. Len(verarbeitet[j]) + 0 = Len(verarbeitet[j])
          BY <3>0
        <5>2. M[j][0] = N[j][0] + 0
          BY <2>1, <3>2
        <5> QED BY <2>0, <5>1, <5>2
      <4> QED BY <2>0, <4>1, <4>2
    <3> QED BY <3>1, <3>2
  <2>3. ASSUME NEW i \in 1 .. n
        PROVE  M[j][i] = M[j][i - 1] + (IF kanal'[i].von = j THEN Len(kanal'[i].stapel) ELSE 0)
    <3>1. i \in 0 .. n /\ i - 1 \in 0 .. n /\ i + 1 \in 1 .. n + 1 /\ i - 1 + 1 = i /\ i + 1 - 1 = i
      OBVIOUS
    <3>2. M[j][i] = N[j][i + 1] /\ M[j][i - 1] = N[j][i]
      BY <1>4, <3>1
    <3>3. N[j][i + 1] = N[j][i + 1 - 1] + (IF kanal[i + 1].von = j THEN Len(kanal[i + 1].stapel) ELSE 0)
      BY <2>0, <3>1
    <3> QED BY <1>0, <3>1, <3>2, <3>3
  <2>4. gelesen'[j] = Bytes(M[j][n]) + Len(puffer'[j])
    BY <1>3, <2>0, <2>1
  <2> QED BY <2>2, <2>3, <2>4
<1>6. ASSUME NEW i \in 1 .. n
      PROVE  /\ Len(kanal'[i].stapel) > 0
             /\ \A j \in 1 .. Len(kanal'[i].stapel) :
                   kanal'[i].stapel[j] = M[kanal'[i].von][i - 1] + j - 1
  <2>1. i + 1 \in 1 .. n + 1 /\ i - 1 \in 0 .. n /\ i - 1 + 1 = i /\ i + 1 - 1 = i
    OBVIOUS
  <2>2. kanal[i + 1].von \in VERBINDUNGEN /\ kanal'[i] = kanal[i + 1]
    BY <1>0, <2>1, Sendung
  <2>3. M[kanal[i + 1].von][i - 1] = N[kanal[i + 1].von][i]
    BY <1>4, <2>1, <2>2
  <2>4. /\ Len(kanal[i + 1].stapel) > 0
        /\ \A j \in 1 .. Len(kanal[i + 1].stapel) :
              kanal[i + 1].stapel[j] = N[kanal[i + 1].von][i + 1 - 1] + j - 1
    BY <1>0, <1>1, <2>1 DEF Folge
  <2> QED BY <2>1, <2>2, <2>3, <2>4
<1>7. Folge(M)'
  BY <1>0, <1>5, <1>6 DEF Folge
<1> QED BY <1>0, <1>4, <1>7 DEF Geordnet

(* Every step keeps what is under way in order.                            *)
LEMMA GeordnetSchritt == ASSUME IInv, [Next]_vars PROVE Geordnet'
<1>1. CASE UNCHANGED <<gelesen, puffer, kanal, verarbeitet>>
  <2>1. PICK N \in STAENDE(Len(kanal)) : Folge(N)
    BY DEF IInv, Geordnet
  <2>2. Folge(N)'
    BY <1>1, <2>1 DEF Folge
  <2> QED BY <1>1, <2>1, <2>2 DEF Geordnet
<1> QED BY <1>1, Ruhe, GeordnetLesen, GeordnetSenden, GeordnetVerarbeiten

(* The initial state.                                                      *)
LEMMA IInvInit == Init => IInv
<1> SUFFICES ASSUME Init PROVE IInv
  OBVIOUS
<1>1. TypeOK
  <2>1. Len(<<>>) = 0 /\ <<>> \in Seq(Nat) /\ <<>> \in Seq(Int)
        /\ <<>> \in Seq([von : VERBINDUNGEN, stapel : Seq(Int)])
    OBVIOUS
  <2> QED BY <2>1, Laenge, Puffer DEF Init, TypeOK
<1>2. RahmenHalten
  BY DEF Init, RahmenHalten
<1>3. Faeden
  BY VerbindungsAnnahme DEF Init, Faeden
<1>4. Stroeme
  BY DEF Init, Stroeme, Strom
<1>5. Geordnet
  <2> DEFINE N == [k \in VERBINDUNGEN |-> [i \in 0 .. 0 |-> 0]]
  <2>1. Bytes(0) = 0
    BY Puffer DEF Bytes
  <2>2. Len(kanal) = 0 /\ N \in STAENDE(0)
    BY Laenge DEF Init, STAENDE
  <2>3. Folge(N)
    BY <2>1, <2>2 DEF Init, Folge
  <2> QED BY <2>2, <2>3 DEF Geordnet
<1> QED BY <1>1, <1>2, <1>3, <1>4, <1>5 DEF IInv

(* The inductive invariant: each byte of a connection is written, in the   *)
(* buffer, in the channel or processed, and in its place there.            *)
THEOREM Invariante == Spec => []IInv
<1>1. IInv /\ [Next]_vars => IInv'
  BY TypSchritt, RahmenSchritt, FaedenSchritt, StroemeSchritt, GeordnetSchritt DEF IInv
<1> QED BY <1>1, IInvInit, PTL DEF Spec

(* Threads, positions, buffers and batches keep their types.               *)
THEOREM Typen == Spec => []TypeOK
<1>1. IInv => TypeOK
  BY DEF IInv
<1> QED BY <1>1, Invariante, PTL

(* However the network cuts a stream, a checker never reads into a full    *)
(* buffer and never takes bytes for a unit that are none.                  *)
THEOREM RahmenImmer == Spec => []RahmenHalten
<1>1. IInv => RahmenHalten
  BY DEF IInv
<1> QED BY <1>1, Invariante, PTL
-----------------------------------------------------------------------------
(* What is processed of a connection is a beginning of what it sends.      *)
LEMMA Anfangsstueck ==
    ASSUME IInv, NEW k \in VERBINDUNGEN
    PROVE  /\ Len(verarbeitet[k]) \in 0 .. EINHEITEN
           /\ verarbeitet[k] = SubSeq(Zugestellt!Gesendet, 1, Len(verarbeitet[k]))
<1>1. PICK N \in STAENDE(Len(kanal)) : Folge(N)
  BY DEF IInv, Geordnet
<1>2. /\ N[k][0] = Len(verarbeitet[k])
      /\ \A u \in 1 .. Len(verarbeitet[k]) : verarbeitet[k][u] = u - 1
  BY <1>1 DEF Folge
<1>3. N[k][0] \in 0 .. EINHEITEN
  <2>1. 0 \in 0 .. Len(kanal)
    BY DEF IInv, TypeOK
  <2> QED BY <1>1, <2>1 DEF STAENDE
<1>4. PICK m \in Nat : m = Len(verarbeitet[k]) /\ m <= EINHEITEN
  BY <1>2, <1>3, Laenge
<1>5. verarbeitet[k] \in Seq(Int)
  BY DEF IInv, TypeOK
<1> DEFINE g == Zugestellt!Gesendet
<1>6. \A i \in 1 .. EINHEITEN : g[i] = i - 1 /\ i - 1 \in Int
  BY DEF Zugestellt!Gesendet
<1> HIDE DEF g
<1>7. \A i \in 1 .. m : g[i] \in Int /\ g[i] = i - 1
  BY <1>4, <1>6, Laenge
<1> DEFINE t == SubSeq(g, 1, m)
<1>8. /\ t \in Seq(Int)
      /\ Len(t) = (IF 1 <= m THEN m - 1 + 1 ELSE 0)
      /\ \A i \in 1 .. m - 1 + 1 : t[i] = g[1 + i - 1]
  BY <1>7, SubSeqProperties
<1> HIDE DEF t
<1>9. Len(t) = m /\ \A i \in 1 .. m : t[i] = i - 1
  <2>1. Len(t) = m /\ m - 1 + 1 = m
    BY <1>4, <1>8
  <2>2. ASSUME NEW i \in 1 .. m PROVE t[i] = i - 1
    <3>1. 1 + i - 1 = i
      OBVIOUS
    <3> QED BY <1>7, <1>8, <2>1, <3>1
  <2> QED BY <2>1, <2>2
<1>10. verarbeitet[k] = t
  BY <1>2, <1>4, <1>5, <1>8, <1>9, SeqEqual
<1> QED BY <1>2, <1>3, <1>4, <1>10 DEF t, g

(* The same of all connections.                                            *)
Anfaenge ==
    \A k \in VERBINDUNGEN :
        /\ Len(verarbeitet[k]) \in 0 .. EINHEITEN
        /\ verarbeitet[k] = SubSeq(Zugestellt!Gesendet, 1, Len(verarbeitet[k]))

(* When the main thread is through, everything an unbroken connection sent *)
(* is processed.                                                           *)
LEMMA Vollstaendig ==
    ASSUME IInv, matcher = "fertig", NEW k \in VERBINDUNGEN, k \notin gerissen, pruefer[k] # "neu"
    PROVE  verarbeitet[k] = Zugestellt!Gesendet
<1>1. PICK N \in STAENDE(Len(kanal)) : Folge(N)
  BY DEF IInv, Geordnet
<1>2. kanal = <<>> /\ sender = {}
  BY DEF IInv, Faeden
<1>3. pruefer[k] = "fertig"
  BY <1>2 DEF IInv, Faeden, RahmenHalten, TypeOK
<1>4. gelesen[k] = LAENGE /\ Len(puffer[k]) = 0
  BY <1>3 DEF IInv, Stroeme, Strom
<1>5. /\ N[k][0] = Len(verarbeitet[k]) /\ N[k][0] \in 0 .. EINHEITEN
      /\ gelesen[k] = Bytes(N[k][0]) + 0
  BY <1>1, <1>2, <1>4 DEF Folge, STAENDE
<1>6. N[k][0] = EINHEITEN
  BY <1>4, <1>5, Restlos, Puffer
<1>7. verarbeitet[k] = SubSeq(Zugestellt!Gesendet, 1, EINHEITEN)
  BY <1>5, <1>6, Anfangsstueck
<1>8. Zugestellt!Gesendet \in Seq(Int) /\ Len(Zugestellt!Gesendet) = EINHEITEN
  BY Laenge DEF Zugestellt!Gesendet
<1> QED BY <1>7, <1>8, SubSeqFull

(* Every step of the pipeline is a step of the delivery or leaves it       *)
(* alone.                                                                  *)
LEMMA StelltZuSchritt ==
    ASSUME IInv, Anfaenge', [Next]_vars
    PROVE  [Zugestellt!Next]_<<verarbeitet, gerissen, haupt = "fertig">>
<1> DEFINE Stillstand == /\ verarbeitet' = verarbeitet /\ gerissen' = gerissen
                         /\ (haupt = "fertig")' = (haupt = "fertig")
           Ziel == [Zugestellt!Next]_<<verarbeitet, gerissen, haupt = "fertig">>
<1>0. Stillstand => Ziel
  OBVIOUS
<1>1. ASSUME NEW k \in VERBINDUNGEN, KlientStarten(k) \/ Annehmen(k) PROVE Stillstand
  BY <1>1 DEF KlientStarten, Annehmen, netz
<1>2. ASSUME Loslassen PROVE Stillstand
  BY <1>2 DEF Loslassen, netz
<1>3. ASSUME Warten PROVE Ziel
  <2>1. verarbeitet' = verarbeitet /\ gerissen' = gerissen /\ haupt # "fertig"
    BY <1>3 DEF Warten, netz
  <2>2. CASE haupt' # "fertig"
    BY <2>1, <2>2
  <2>3. CASE haupt' = "fertig"
    <3>1. haupt = "matcher" /\ matcher = "fertig"
      BY <1>3, <2>3 DEF Warten
    <3>2. \A k \in VERBINDUNGEN : pruefer[k] # "neu"
      BY <3>1 DEF IInv, Faeden
    <3>3. \A k \in VERBINDUNGEN \ gerissen : verarbeitet[k] = Zugestellt!Gesendet
      BY <3>1, <3>2, Vollstaendig
    <3>4. Zugestellt!Beenden
      BY <2>1, <2>3, <3>3 DEF Zugestellt!Beenden
    <3> QED BY <3>4 DEF Zugestellt!Next
  <2> QED BY <2>2, <2>3
<1>4. ASSUME NEW k \in VERBINDUNGEN, KlientSchritt(k) PROVE Stillstand
  BY <1>4 DEF KlientSchritt, Verbinden, Schreiben, Schliessen, netz
<1>5. ASSUME NEW k \in VERBINDUNGEN, PrueferSchritt(k) PROVE Stillstand
  BY <1>5 DEF PrueferSchritt, Lesen, LesenEndet, Senden, netz
<1>6. ASSUME NEW k \in VERBINDUNGEN, Abreissen(k) PROVE Ziel
  <2>1. Zugestellt!Abreissen(k)
    BY <1>6 DEF Abreissen, Zugestellt!Abreissen
  <2> QED BY <2>1 DEF Zugestellt!Next
<1>7. ASSUME Verarbeiten PROVE Ziel
  <2>1. PICK v \in VERBINDUNGEN, s \in Seq(Int) :
           /\ v = kanal[1].von /\ s = kanal[1].stapel
           /\ verarbeitet' = [verarbeitet EXCEPT ![v] = @ \o s]
    BY <1>7, Kopf DEF Verarbeiten
  <2>2. haupt # "fertig" /\ haupt' = haupt /\ gerissen' = gerissen
    BY <1>7 DEF Verarbeiten, netz, IInv, Faeden
  <2>3. Len(s) > 0
    <3>1. 1 \in 1 .. Len(kanal)
      BY <1>7, Kopf DEF Verarbeiten
    <3> QED BY <2>1, <3>1 DEF IInv, Geordnet, Folge
  <2>4. verarbeitet[v] \in Seq(Int) /\ verarbeitet'[v] = verarbeitet[v] \o s
    BY <2>1 DEF IInv, TypeOK
  <2>5. Len(verarbeitet'[v]) > Len(verarbeitet[v])
    BY <2>3, <2>4
  <2> DEFINE n == Len(verarbeitet'[v])
  <2>6. n \in 0 .. EINHEITEN /\ verarbeitet'[v] = SubSeq(Zugestellt!Gesendet, 1, n)
    BY DEF Anfaenge
  <2>7. n \in Len(verarbeitet[v]) + 1 .. EINHEITEN
    <3>1. Len(verarbeitet[v]) \in Nat
      BY <2>4
    <3> QED BY <2>5, <2>6, <3>1, Laenge
  <2>8. verarbeitet' = [verarbeitet EXCEPT ![v] = SubSeq(Zugestellt!Gesendet, 1, n)]
    BY <2>1, <2>4, <2>6
  <2>9. Zugestellt!Verarbeiten(v)
    BY <2>2, <2>7, <2>8 DEF Zugestellt!Verarbeiten
  <2> QED BY <2>9 DEF Zugestellt!Next
<1>8. ASSUME MatcherEndet \/ UNCHANGED vars PROVE Stillstand
  BY <1>8 DEF MatcherEndet, vars, netz
<1> QED
  BY <1>0, <1>1, <1>2, <1>3, <1>4, <1>5, <1>6, <1>7, <1>8 DEF Next, HauptSchritt, MatcherSchritt

(* The pipeline delivers: what is processed of each connection is at any   *)
(* time a beginning of what it sends, and at the end all of it unless the  *)
(* connection broke.                                                       *)
THEOREM KetteStelltZu == Spec => StelltZu
<1>1. Init => Zugestellt!Init
  BY DEF Init, Zugestellt!Init
<1>2. IInv => Anfaenge
  BY Anfangsstueck DEF Anfaenge
<1>3. IInv /\ Anfaenge' /\ [Next]_vars => [Zugestellt!Next]_<<verarbeitet, gerissen, haupt = "fertig">>
  BY StelltZuSchritt
<1> QED BY <1>1, <1>2, <1>3, Invariante, PTL DEF Spec, StelltZu, Zugestellt!Spec
=============================================================================
