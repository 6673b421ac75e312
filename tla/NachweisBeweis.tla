--------------------------- MODULE NachweisBeweis ---------------------------
(***************************************************************************)
(* Proofs about the proof service, for any requests, serials, subjects,    *)
(* amounts, registry, number of failures and tampering with the register.  *)
(***************************************************************************)
EXTENDS MCNachweis, TLAPS

(* The phases after the confirmation of a transaction, those in which a    *)
(* request has sent one, and those in which it has passed the checks.      *)
BESTAETIGT == {"bestaetigt", "fertig", "abgebrochen"}
GESENDET   == BESTAETIGT \cup {"gesendet", "unbestaetigt"}
BESTANDEN  == GESENDET \cup {"geprueft"}
PHASEN     == BESTANDEN \cup {"neu", "abgelehnt", "fragt", "beantwortet", "verloren"}

(* A request that has sent a transaction, wherever that is by now.         *)
Unterwegs(a) == a \in unterwegs \/ a \in DOMAIN kette

(* What a file is known by: the serial, or the hash; and the rows it holds *)
(* or will hold once the write in progress is through.                     *)
Schluessel(d, e) == IF d = "ledger" THEN e.serial ELSE e.hashHex
Stand(d) == IF schreibt[d] = KEIN THEN Inhalt(d) ELSE schreibt[d].neu

(* The types of requests, registry, chain and files; with what is on the   *)
(* chain they imply TypeOK.                                                *)
Typ ==
    /\ phase \in [ANFRAGEN -> PHASEN]
    /\ DOMAIN eingabe = ANFRAGEN /\ DOMAIN satz = ANFRAGEN
    /\ \A a \in ANFRAGEN : phase[a] # "neu" =>
          eingabe[a].weg \in DATEI /\ eingabe[a].subject \in SUBJEKTE /\ eingabe[a].tonnen \in Nat
    /\ stillgelegt \subseteq DOMAIN BESTAND
    /\ unterwegs \subseteq ANFRAGEN
    /\ DOMAIN kette \subseteq ANFRAGEN \ unterwegs
    /\ DOMAIN datei = DATEI /\ DOMAIN schreibt = DATEI
    /\ \A d \in DATEI : Inhalt(d) \subseteq ZEILEN(d)
    /\ stoerungen \in [DATEI -> 0 .. MAX_STOERUNGEN]

(* The type of the visit of the check page.                                *)
BesuchTyp ==
    besuch \in [phase : {"frei", "wartet", "beantwortet"}, hash : DOKUMENTE \cup {KEIN},
                eintrag : ZEILEN("register") \cup {KEIN},
                status : {KEIN, "unbekannt", "kette_offline", "abweichung", "registriert"}]

(* What a request knows of the registry is true, and stays true.           *)
SatzEcht ==
    \A a \in ANFRAGEN : satz[a] # KEIN =>
        /\ satz[a].serial \in DOMAIN BESTAND
        /\ satz[a].quantityTonnes = Zahl(satz[a].serial)
        /\ satz[a].retired \in BOOLEAN
        /\ satz[a].retired => satz[a].serial \in stillgelegt

(* A request that has passed the checks keeps the answer it passed with.   *)
Bestanden ==
    \A a \in ANFRAGEN : phase[a] \in BESTANDEN \/ Unterwegs(a) => Gueltig(a)

(* What is on the chain is the hash of the request that sent it; a         *)
(* confirmed request has its hash on the chain.                            *)
Verankert ==
    /\ \A a \in ANFRAGEN : Unterwegs(a) => phase[a] \in GESENDET \cup {"verloren"}
    /\ \A a \in DOMAIN kette : kette[a] = Hash(a)
    /\ \A a \in ANFRAGEN : phase[a] \in BESTAETIGT => a \in DOMAIN kette

(* A set of rows of the ledger that is covered by the chain.               *)
Gedeckt(R) ==
    /\ \A e \in R :
          /\ e.txSig \in DOMAIN kette
          /\ kette[e.txSig].serial = e.serial /\ kette[e.txSig].subject = e.subject
    /\ \A e, f \in R : e.serial = f.serial => e = f

(* A write in progress is that of a confirmed request for its file, and    *)
(* saves the row of that request.                                          *)
VorgangAn(d) ==
    schreibt[d] # KEIN =>
        /\ schreibt[d].wer \in ANFRAGEN
        /\ phase[schreibt[d].wer] = "bestaetigt" /\ eingabe[schreibt[d].wer].weg = d
        /\ schreibt[d].neu \subseteq ZEILEN(d)
        /\ \E e \in schreibt[d].neu : Schluessel(d, e) = Schluessel(d, Eintrag(schreibt[d].wer, d))
Vorgang == \A d \in DATEI : VorgangAn(d)

(* The ledger is covered, as it is read and as the write in progress will  *)
(* leave it.                                                               *)
LedgerInv == Gedeckt(Inhalt("ledger")) /\ Gedeckt(Stand("ledger"))

(* The inductive invariant.                                                *)
IInv ==
    /\ Typ
    /\ BesuchTyp
    /\ SatzEcht
    /\ Bestanden
    /\ Verankert
    /\ Vorgang
    /\ LedgerInv
    /\ GruenIstVerankert
-----------------------------------------------------------------------------
(* The steps of visitors of the check page.                                *)
Besuchen ==
    \/ \E h \in DOKUMENTE : Fragen(h)
    \/ Gegenpruefen \/ KetteUnerreichbar \/ Gehen

(* Once it is made a request keeps its input, and once its lookup is over  *)
(* the record the registry answered.                                       *)
LEMMA Fest ==
    ASSUME IInv, [Next]_vars
    PROVE  \A x \in ANFRAGEN :
              /\ phase[x] # "neu" => eingabe'[x] = eingabe[x]
              /\ phase[x] \notin {"neu", "fragt"} => satz'[x] = satz[x]
<1> DEFINE Ziel ==
           \A x \in ANFRAGEN :
              /\ phase[x] # "neu" => eingabe'[x] = eingabe[x]
              /\ phase[x] \notin {"neu", "fragt"} => satz'[x] = satz[x]
<1> USE DEF IInv, Typ
<1>1. ASSUME NEW a \in ANFRAGEN, NEW weg \in DATEI, NEW s \in SERIALS \cup {KEIN}, NEW u \in SUBJEKTE,
             NEW t \in TONNEN, Anfragen(a, weg, s, u, t)
      PROVE  Ziel
  BY <1>1 DEF Anfragen, Weiter
<1>2. ASSUME NEW a \in ANFRAGEN, Nachschlagen(a) PROVE Ziel
  BY <1>2 DEF Nachschlagen, Weiter
<1>3. ASSUME NEW a \in ANFRAGEN, NachschlagenScheitert(a) PROVE Ziel
  BY <1>3 DEF NachschlagenScheitert, AnDerReihe, Weiter
<1>4. ASSUME NEW a \in ANFRAGEN, Pruefen(a) PROVE Ziel
  BY <1>4 DEF Pruefen, AnDerReihe, Weiter, load, Stoerung
<1>5. ASSUME NEW a \in ANFRAGEN, Verankern(a) PROVE Ziel
  BY <1>5 DEF Verankern, AnDerReihe, Weiter
<1>6. ASSUME NEW a \in ANFRAGEN, Aufnehmen(a) PROVE Ziel
  BY <1>6 DEF Aufnehmen, anfrage
<1>7. ASSUME NEW a \in ANFRAGEN, Verfallen(a) PROVE Ziel
  BY <1>7 DEF Verfallen, anfrage
<1>8. ASSUME NEW a \in ANFRAGEN, Bestaetigen(a) PROVE Ziel
  BY <1>8 DEF Bestaetigen, AnDerReihe, Weiter
<1>9. ASSUME NEW a \in ANFRAGEN, Unbestaetigt(a) PROVE Ziel
  BY <1>9 DEF Unbestaetigt, AnDerReihe, Weiter
<1>10. ASSUME NEW a \in ANFRAGEN, NEW d \in DATEI, CommitOderAdd(a, d) PROVE Ziel
  BY <1>10 DEF CommitOderAdd, AnDerReihe, Weiter
<1>11. ASSUME NEW d \in DATEI, Schreiben(d) PROVE Ziel
  BY <1>11 DEF Schreiben, Weiter
<1>12. ASSUME NEW d \in DATEI, SchreibenScheitert(d) PROVE Ziel
  BY <1>12 DEF SchreibenScheitert, Weiter
<1>13. ASSUME NEW d \in DATEI, Absturz(d) PROVE Ziel
  BY <1>13 DEF Absturz
<1>14. ASSUME NEW s \in DOMAIN BESTAND, Stilllegen(s) PROVE Ziel
  BY <1>14 DEF Stilllegen, anfrage
<1>15. ASSUME Besuchen PROVE Ziel
  BY <1>15 DEF Besuchen, Fragen, Gegenpruefen, KetteUnerreichbar, Gehen, anfrage
<1>16. ASSUME NEW e \in FAELSCHUNGEN, RegisterVerfaelschen(e) PROVE Ziel
  BY <1>16 DEF RegisterVerfaelschen, anfrage
<1>17. ASSUME UNCHANGED vars PROVE Ziel
  BY <1>17 DEF vars, anfrage
<1> QED
  BY <1>1, <1>2, <1>3, <1>4, <1>5, <1>6, <1>7, <1>8, <1>9, <1>10, <1>11, <1>12, <1>13, <1>14, <1>15,
  <1>16, <1>17 DEF Next, Schritt, Besuchen

(* What is on the chain and what is retired is never taken back or         *)
(* changed; what comes onto the chain is the hash of a request that has    *)
(* sent it.                                                                *)
LEMMA Waechst ==
    ASSUME IInv, [Next]_vars
    PROVE  /\ DOMAIN kette \subseteq DOMAIN kette'
           /\ \A x \in DOMAIN kette : kette'[x] = kette[x]
           /\ \A x \in DOMAIN kette' \ DOMAIN kette : x \in unterwegs /\ kette'[x] = Hash(x)
           /\ stillgelegt \subseteq stillgelegt'
<1> DEFINE Ziel ==
           /\ DOMAIN kette \subseteq DOMAIN kette'
           /\ \A x \in DOMAIN kette : kette'[x] = kette[x]
           /\ \A x \in DOMAIN kette' \ DOMAIN kette : x \in unterwegs /\ kette'[x] = Hash(x)
           /\ stillgelegt \subseteq stillgelegt'
<1> USE DEF IInv, Typ
<1>1. ASSUME NEW a \in ANFRAGEN, NEW weg \in DATEI, NEW s \in SERIALS \cup {KEIN}, NEW u \in SUBJEKTE,
             NEW t \in TONNEN, Anfragen(a, weg, s, u, t)
      PROVE  Ziel
  BY <1>1 DEF Anfragen, Weiter
<1>2. ASSUME NEW a \in ANFRAGEN, Nachschlagen(a) PROVE Ziel
  BY <1>2 DEF Nachschlagen, Weiter
<1>3. ASSUME NEW a \in ANFRAGEN, NachschlagenScheitert(a) PROVE Ziel
  BY <1>3 DEF NachschlagenScheitert, AnDerReihe, Weiter
<1>4. ASSUME NEW a \in ANFRAGEN, Pruefen(a) PROVE Ziel
  BY <1>4 DEF Pruefen, AnDerReihe, Weiter, load, Stoerung
<1>5. ASSUME NEW a \in ANFRAGEN, Verankern(a) PROVE Ziel
  BY <1>5 DEF Verankern, AnDerReihe, Weiter
<1>6. ASSUME NEW a \in ANFRAGEN, Aufnehmen(a) PROVE Ziel
  BY <1>6 DEF Aufnehmen, anfrage
<1>7. ASSUME NEW a \in ANFRAGEN, Verfallen(a) PROVE Ziel
  BY <1>7 DEF Verfallen, anfrage
<1>8. ASSUME NEW a \in ANFRAGEN, Bestaetigen(a) PROVE Ziel
  BY <1>8 DEF Bestaetigen, AnDerReihe, Weiter
<1>9. ASSUME NEW a \in ANFRAGEN, Unbestaetigt(a) PROVE Ziel
  BY <1>9 DEF Unbestaetigt, AnDerReihe, Weiter
<1>10. ASSUME NEW a \in ANFRAGEN, NEW d \in DATEI, CommitOderAdd(a, d) PROVE Ziel
  BY <1>10 DEF CommitOderAdd, AnDerReihe, Weiter
<1>11. ASSUME NEW d \in DATEI, Schreiben(d) PROVE Ziel
  BY <1>11 DEF Schreiben, Weiter
<1>12. ASSUME NEW d \in DATEI, SchreibenScheitert(d) PROVE Ziel
  BY <1>12 DEF SchreibenScheitert, Weiter
<1>13. ASSUME NEW d \in DATEI, Absturz(d) PROVE Ziel
  BY <1>13 DEF Absturz
<1>14. ASSUME NEW s \in DOMAIN BESTAND, Stilllegen(s) PROVE Ziel
  BY <1>14 DEF Stilllegen, anfrage
<1>15. ASSUME Besuchen PROVE Ziel
  BY <1>15 DEF Besuchen, Fragen, Gegenpruefen, KetteUnerreichbar, Gehen, anfrage
<1>16. ASSUME NEW e \in FAELSCHUNGEN, RegisterVerfaelschen(e) PROVE Ziel
  BY <1>16 DEF RegisterVerfaelschen, anfrage
<1>17. ASSUME UNCHANGED vars PROVE Ziel
  BY <1>17 DEF vars, anfrage
<1> QED
  BY <1>1, <1>2, <1>3, <1>4, <1>5, <1>6, <1>7, <1>8, <1>9, <1>10, <1>11, <1>12, <1>13, <1>14, <1>15,
  <1>16, <1>17 DEF Next, Schritt, Besuchen

(* How a request gets on: what is through stays so, only the checks of     *)
(* verifyEvidence let one pass, only one that has passed sends its         *)
(* transaction, and only the chain confirms it.                            *)
LEMMA PhaseSchritt ==
    ASSUME IInv, [Next]_vars
    PROVE  \A x \in ANFRAGEN :
              /\ phase[x] = "fertig" => phase'[x] = "fertig"
              /\ phase'[x] \in BESTANDEN /\ phase[x] \notin BESTANDEN =>
                    phase[x] = "beantwortet" /\ Pruefen(x) /\ Gueltig(x)
              /\ phase'[x] \in {"fragt", "beantwortet"} => phase[x] \in {"neu", "fragt", "beantwortet"}
              /\ Unterwegs(x)' => Unterwegs(x) \/ phase[x] = "geprueft"
              /\ Unterwegs(x)' => phase'[x] \in GESENDET \cup {"verloren"}
              /\ phase'[x] \in BESTAETIGT => x \in DOMAIN kette'
<1> DEFINE Ziel ==
           \A x \in ANFRAGEN :
              /\ phase[x] = "fertig" => phase'[x] = "fertig"
              /\ phase'[x] \in BESTANDEN /\ phase[x] \notin BESTANDEN =>
                    phase[x] = "beantwortet" /\ Pruefen(x) /\ Gueltig(x)
              /\ phase'[x] \in {"fragt", "beantwortet"} => phase[x] \in {"neu", "fragt", "beantwortet"}
              /\ Unterwegs(x)' => Unterwegs(x) \/ phase[x] = "geprueft"
              /\ Unterwegs(x)' => phase'[x] \in GESENDET \cup {"verloren"}
              /\ phase'[x] \in BESTAETIGT => x \in DOMAIN kette'
<1> USE DEF IInv, Typ, Verankert, Unterwegs, PHASEN, BESTANDEN, GESENDET, BESTAETIGT
<1>1. ASSUME NEW a \in ANFRAGEN, NEW weg \in DATEI, NEW s \in SERIALS \cup {KEIN}, NEW u \in SUBJEKTE,
             NEW t \in TONNEN, Anfragen(a, weg, s, u, t)
      PROVE  Ziel
  BY <1>1 DEF Anfragen, Weiter
<1>2. ASSUME NEW a \in ANFRAGEN, Nachschlagen(a) PROVE Ziel
  BY <1>2 DEF Nachschlagen, Weiter
<1>3. ASSUME NEW a \in ANFRAGEN, NachschlagenScheitert(a) PROVE Ziel
  BY <1>3 DEF NachschlagenScheitert, AnDerReihe, Weiter
<1>4. ASSUME NEW a \in ANFRAGEN, Pruefen(a) PROVE Ziel
  BY <1>4 DEF Pruefen, AnDerReihe, Weiter, load, Stoerung
<1>5. ASSUME NEW a \in ANFRAGEN, Verankern(a) PROVE Ziel
  BY <1>5 DEF Verankern, AnDerReihe, Weiter
<1>6. ASSUME NEW a \in ANFRAGEN, Aufnehmen(a) PROVE Ziel
  BY <1>6 DEF Aufnehmen, anfrage
<1>7. ASSUME NEW a \in ANFRAGEN, Verfallen(a) PROVE Ziel
  BY <1>7 DEF Verfallen, anfrage
<1>8. ASSUME NEW a \in ANFRAGEN, Bestaetigen(a) PROVE Ziel
  BY <1>8 DEF Bestaetigen, AnDerReihe, Weiter
<1>9. ASSUME NEW a \in ANFRAGEN, Unbestaetigt(a) PROVE Ziel
  BY <1>9 DEF Unbestaetigt, AnDerReihe, Weiter
<1>10. ASSUME NEW a \in ANFRAGEN, NEW d \in DATEI, CommitOderAdd(a, d) PROVE Ziel
  BY <1>10 DEF CommitOderAdd, AnDerReihe, Weiter
<1>11. ASSUME NEW d \in DATEI, Schreiben(d) PROVE Ziel
  <2>1. schreibt[d].wer \in ANFRAGEN /\ phase[schreibt[d].wer] = "bestaetigt"
    BY <1>11 DEF Schreiben, Vorgang, VorgangAn
  <2> QED BY <1>11, <2>1 DEF Schreiben, Weiter
<1>12. ASSUME NEW d \in DATEI, SchreibenScheitert(d) PROVE Ziel
  <2>1. schreibt[d].wer \in ANFRAGEN /\ phase[schreibt[d].wer] = "bestaetigt"
    BY <1>12 DEF SchreibenScheitert, Vorgang, VorgangAn
  <2> QED BY <1>12, <2>1 DEF SchreibenScheitert, Weiter
<1>13. ASSUME NEW d \in DATEI, Absturz(d) PROVE Ziel
  BY <1>13 DEF Absturz
<1>14. ASSUME NEW s \in DOMAIN BESTAND, Stilllegen(s) PROVE Ziel
  BY <1>14 DEF Stilllegen, anfrage
<1>15. ASSUME Besuchen PROVE Ziel
  BY <1>15 DEF Besuchen, Fragen, Gegenpruefen, KetteUnerreichbar, Gehen, anfrage
<1>16. ASSUME NEW e \in FAELSCHUNGEN, RegisterVerfaelschen(e) PROVE Ziel
  BY <1>16 DEF RegisterVerfaelschen, anfrage
<1>17. ASSUME UNCHANGED vars PROVE Ziel
  BY <1>17 DEF vars, anfrage
<1> QED
  BY <1>1, <1>2, <1>3, <1>4, <1>5, <1>6, <1>7, <1>8, <1>9, <1>10, <1>11, <1>12, <1>13, <1>14, <1>15,
  <1>16, <1>17 DEF Next, Schritt, Besuchen

(* Only Anfragen makes a request, and none is unmade.                      *)
LEMMA NeuSchritt ==
    ASSUME IInv, [Next]_vars, NEW x \in ANFRAGEN
    PROVE  /\ phase[x] # "neu" => phase'[x] # "neu"
           /\ phase[x] = "neu" /\ phase'[x] # "neu" =>
                 \E weg \in DATEI, s \in SERIALS \cup {KEIN}, u \in SUBJEKTE, t \in TONNEN :
                    Anfragen(x, weg, s, u, t)
<1> DEFINE Ziel ==
           /\ phase[x] # "neu" => phase'[x] # "neu"
           /\ phase[x] = "neu" /\ phase'[x] # "neu" =>
                 \E weg \in DATEI, s \in SERIALS \cup {KEIN}, u \in SUBJEKTE, t \in TONNEN :
                    Anfragen(x, weg, s, u, t)
<1> USE DEF IInv, Typ
<1>1. ASSUME NEW a \in ANFRAGEN, NEW weg \in DATEI, NEW s \in SERIALS \cup {KEIN}, NEW u \in SUBJEKTE,
             NEW t \in TONNEN, Anfragen(a, weg, s, u, t)
      PROVE  Ziel
  BY <1>1 DEF Anfragen, Weiter
<1>2. ASSUME NEW a \in ANFRAGEN, Nachschlagen(a) PROVE Ziel
  BY <1>2 DEF Nachschlagen, Weiter
<1>3. ASSUME NEW a \in ANFRAGEN, NachschlagenScheitert(a) PROVE Ziel
  BY <1>3 DEF NachschlagenScheitert, AnDerReihe, Weiter
<1>4. ASSUME NEW a \in ANFRAGEN, Pruefen(a) PROVE Ziel
  BY <1>4 DEF Pruefen, AnDerReihe, Weiter, load, Stoerung
<1>5. ASSUME NEW a \in ANFRAGEN, Verankern(a) PROVE Ziel
  BY <1>5 DEF Verankern, AnDerReihe, Weiter
<1>6. ASSUME NEW a \in ANFRAGEN, Aufnehmen(a) PROVE Ziel
  BY <1>6 DEF Aufnehmen, anfrage
<1>7. ASSUME NEW a \in ANFRAGEN, Verfallen(a) PROVE Ziel
  BY <1>7 DEF Verfallen, anfrage
<1>8. ASSUME NEW a \in ANFRAGEN, Bestaetigen(a) PROVE Ziel
  BY <1>8 DEF Bestaetigen, AnDerReihe, Weiter
<1>9. ASSUME NEW a \in ANFRAGEN, Unbestaetigt(a) PROVE Ziel
  BY <1>9 DEF Unbestaetigt, AnDerReihe, Weiter
<1>10. ASSUME NEW a \in ANFRAGEN, NEW d \in DATEI, CommitOderAdd(a, d) PROVE Ziel
  BY <1>10 DEF CommitOderAdd, AnDerReihe, Weiter
<1>11. ASSUME NEW d \in DATEI, Schreiben(d) PROVE Ziel
  <2>1. schreibt[d].wer \in ANFRAGEN /\ phase[schreibt[d].wer] = "bestaetigt"
    BY <1>11 DEF Schreiben, Vorgang, VorgangAn
  <2> QED BY <1>11, <2>1 DEF Schreiben, Weiter
<1>12. ASSUME NEW d \in DATEI, SchreibenScheitert(d) PROVE Ziel
  <2>1. schreibt[d].wer \in ANFRAGEN /\ phase[schreibt[d].wer] = "bestaetigt"
    BY <1>12 DEF SchreibenScheitert, Vorgang, VorgangAn
  <2> QED BY <1>12, <2>1 DEF SchreibenScheitert, Weiter
<1>13. ASSUME NEW d \in DATEI, Absturz(d) PROVE Ziel
  BY <1>13 DEF Absturz
<1>14. ASSUME NEW s \in DOMAIN BESTAND, Stilllegen(s) PROVE Ziel
  BY <1>14 DEF Stilllegen, anfrage
<1>15. ASSUME Besuchen PROVE Ziel
  BY <1>15 DEF Besuchen, Fragen, Gegenpruefen, KetteUnerreichbar, Gehen, anfrage
<1>16. ASSUME NEW e \in FAELSCHUNGEN, RegisterVerfaelschen(e) PROVE Ziel
  BY <1>16 DEF RegisterVerfaelschen, anfrage
<1>17. ASSUME UNCHANGED vars PROVE Ziel
  BY <1>17 DEF vars, anfrage
<1> QED
  BY <1>1, <1>2, <1>3, <1>4, <1>5, <1>6, <1>7, <1>8, <1>9, <1>10, <1>11, <1>12, <1>13, <1>14, <1>15,
  <1>16, <1>17 DEF Next, Schritt, Besuchen

(* What a request knows of the registry is the registry's own answer, and  *)
(* a retirement it knows of stays one.                                     *)
LEMMA SatzEchtSchritt == ASSUME IInv, [Next]_vars PROVE SatzEcht'
<1> SUFFICES ASSUME NEW x \in ANFRAGEN, satz'[x] # KEIN
             PROVE  /\ satz'[x].serial \in DOMAIN BESTAND
                    /\ satz'[x].quantityTonnes = Zahl(satz'[x].serial)
                    /\ satz'[x].retired \in BOOLEAN
                    /\ satz'[x].retired => satz'[x].serial \in stillgelegt'
  BY DEF SatzEcht, Zahl
<1>1. stillgelegt \subseteq stillgelegt'
  BY Waechst
<1>2. CASE satz'[x] = satz[x]
  BY <1>1, <1>2 DEF IInv, SatzEcht
<1>3. CASE Nachschlagen(x)
  <2> DEFINE s == eingabe[x].serial
  <2>1. satz' = [satz EXCEPT ![x] =
                   IF s \in DOMAIN BESTAND
                   THEN [serial |-> s, quantityTonnes |-> Zahl(s), retired |-> s \in stillgelegt]
                   ELSE KEIN]
    BY <1>3 DEF Nachschlagen
  <2>2. DOMAIN satz = ANFRAGEN
    BY DEF IInv, Typ
  <2> HIDE DEF s
  <2>3. /\ s \in DOMAIN BESTAND
        /\ satz'[x] = [serial |-> s, quantityTonnes |-> Zahl(s), retired |-> s \in stillgelegt]
    BY <2>1, <2>2
  <2>4. satz'[x].retired = (s \in stillgelegt)
    BY <2>3
  <2>5. satz'[x].serial = s /\ satz'[x].quantityTonnes = Zahl(s)
    BY <2>3
  <2>6. satz'[x].retired \in BOOLEAN
    BY <2>4
  <2> QED BY <1>1, <2>3, <2>4, <2>5, <2>6
<1>4. satz'[x] = satz[x] \/ Nachschlagen(x)
  <2>1. satz' = satz \/ \E a \in ANFRAGEN : Nachschlagen(a)
    BY DEF Next, Schritt, Anfragen, NachschlagenScheitert, Pruefen, Verankern, Aufnehmen, Verfallen,
           Bestaetigen, Unbestaetigt, CommitOderAdd, Schreiben, SchreibenScheitert, Absturz, Stilllegen,
           Fragen, Gegenpruefen, KetteUnerreichbar, Gehen, RegisterVerfaelschen, anfrage, vars
  <2>2. ASSUME NEW a \in ANFRAGEN, Nachschlagen(a), a # x PROVE satz'[x] = satz[x]
    BY <2>2 DEF Nachschlagen, IInv, Typ
  <2> QED BY <2>1, <2>2
<1> QED BY <1>2, <1>3, <1>4

(* Only a request that passed verifyEvidence goes on, and what it passed   *)
(* with stays as it was.                                                   *)
LEMMA BestandenSchritt == ASSUME IInv, [Next]_vars PROVE Bestanden'
<1> SUFFICES ASSUME NEW x \in ANFRAGEN, phase'[x] \in BESTANDEN \/ Unterwegs(x)'
             PROVE  Gueltig(x)'
  BY DEF Bestanden
<1>1. Gueltig(x) /\ phase[x] \notin {"neu", "fragt"}
  <2>1. CASE phase[x] \in BESTANDEN \/ Unterwegs(x)
    <3>1. Gueltig(x)
      BY <2>1 DEF IInv, Bestanden
    <3>2. phase[x] \in BESTANDEN \cup {"verloren"}
      BY <2>1 DEF IInv, Verankert, BESTANDEN
    <3> QED BY <3>1, <3>2 DEF BESTANDEN, GESENDET, BESTAETIGT
  <2>2. CASE ~(phase[x] \in BESTANDEN \/ Unterwegs(x))
    <3>1. phase[x] # "geprueft"
      BY <2>2 DEF BESTANDEN
    <3>2. phase'[x] \in BESTANDEN
      BY <2>2, <3>1, PhaseSchritt
    <3>3. phase[x] = "beantwortet" /\ Gueltig(x)
      BY <2>2, <3>2, PhaseSchritt
    <3> QED BY <3>3
  <2> QED BY <2>1, <2>2
<1>2. satz'[x] = satz[x] /\ eingabe'[x] = eingabe[x]
  BY <1>1, Fest
<1> QED BY <1>1, <1>2 DEF Gueltig, ZuKlein

(* Only its own request sends a hash, and only the chain's confirmation    *)
(* makes a request confirmed.                                              *)
LEMMA VerankertSchritt == ASSUME IInv, [Next]_vars PROVE Verankert'
<1>1. \A x \in ANFRAGEN :
        /\ Unterwegs(x)' => phase'[x] \in GESENDET \cup {"verloren"}
        /\ phase'[x] \in BESTAETIGT => x \in DOMAIN kette'
  BY PhaseSchritt
<1>2. ASSUME NEW x \in DOMAIN kette' PROVE kette'[x] = Hash(x)'
  <2>1. kette'[x] = Hash(x) /\ Unterwegs(x) /\ x \in ANFRAGEN
    <3>1. CASE x \in DOMAIN kette
      BY <3>1, Waechst DEF IInv, Typ, Verankert, Unterwegs
    <3>2. CASE x \notin DOMAIN kette
      BY <1>2, <3>2, Waechst DEF IInv, Typ, Unterwegs
    <3> QED BY <3>1, <3>2
  <2>2. phase[x] \notin {"neu", "fragt"}
    BY <2>1 DEF IInv, Verankert, GESENDET, BESTAETIGT
  <2>3. satz'[x] = satz[x] /\ eingabe'[x] = eingabe[x]
    BY <2>1, <2>2, Fest
  <2> QED BY <2>1, <2>3 DEF Hash
<1> QED BY <1>1, <1>2 DEF Verankert, Unterwegs, Hash

(* The rows of a confirmed request have the right types, and its row of    *)
(* the ledger is covered by the chain.                                     *)
LEMMA EintragGut ==
    ASSUME IInv, NEW a \in ANFRAGEN, phase[a] = "bestaetigt"
    PROVE  /\ \A d \in DATEI : Eintrag(a, d) \in ZEILEN(d)
           /\ Eintrag(a, "ledger").txSig \in DOMAIN kette
           /\ kette[Eintrag(a, "ledger").txSig].serial = Eintrag(a, "ledger").serial
           /\ kette[Eintrag(a, "ledger").txSig].subject = Eintrag(a, "ledger").subject
<1>1. a \in DOMAIN kette /\ kette[a] = Hash(a)
  BY DEF IInv, Verankert, BESTAETIGT
<1>2. satz[a] # KEIN /\ (REQUIRE_RETIRED => satz[a].retired)
  BY DEF IInv, Bestanden, Gueltig, BESTANDEN, GESENDET, BESTAETIGT
<1>3. /\ satz[a].serial \in DOMAIN BESTAND
      /\ satz[a].quantityTonnes = Zahl(satz[a].serial)
      /\ satz[a].retired \in BOOLEAN
  BY <1>2 DEF IInv, SatzEcht
<1>4. eingabe[a].subject \in SUBJEKTE
  BY DEF IInv, Typ
<1>5. Hash(a) \in DOKUMENTE
  BY <1>2, <1>3, <1>4 DEF Hash, DOKUMENTE
<1>6. \A d \in DATEI : Eintrag(a, d) \in ZEILEN(d)
  BY <1>3, <1>4, <1>5, BestandAnnahme DEF Eintrag, ZEILEN, DATEI
<1> QED
  BY <1>1, <1>6 DEF Eintrag, Hash

(* What load() answers are rows of the file - all of them, unless a        *)
(* failure is counted - and no other file is touched.                      *)
LEMMA Geladen ==
    ASSUME IInv, NEW d \in DATEI, NEW R, load(d, R)
    PROVE  /\ R \subseteq Inhalt(d) /\ R \subseteq ZEILEN(d)
           /\ stoerungen'[d] = stoerungen[d] => R = Inhalt(d)
           /\ stoerungen' \in [DATEI -> 0 .. MAX_STOERUNGEN]
<1>1. stoerungen \in [DATEI -> 0 .. MAX_STOERUNGEN] /\ Inhalt(d) \subseteq ZEILEN(d)
  BY DEF IInv, Typ
<1>2. CASE R = Inhalt(d) /\ UNCHANGED stoerungen
  BY <1>1, <1>2
<1>3. CASE R = {} /\ Stoerung(d)
  BY <1>1, <1>3, GrenzenAnnahme DEF Stoerung, DATEI
<1> QED BY <1>2, <1>3 DEF load

(* Every step keeps requests, files and chain of their types.              *)
LEMMA TypSchritt == ASSUME IInv, [Next]_vars PROVE Typ'
<1> USE DEF IInv, Typ, Inhalt
<1>1. ASSUME NEW a \in ANFRAGEN, NEW weg \in DATEI, NEW s \in SERIALS \cup {KEIN}, NEW u \in SUBJEKTE,
             NEW t \in TONNEN, Anfragen(a, weg, s, u, t)
      PROVE  Typ'
  BY <1>1, TonnenAnnahme DEF Anfragen, Weiter, PHASEN
<1>2. ASSUME NEW a \in ANFRAGEN, Nachschlagen(a) PROVE Typ'
  BY <1>2 DEF Nachschlagen, Weiter, PHASEN
<1>3. ASSUME NEW a \in ANFRAGEN, NachschlagenScheitert(a) PROVE Typ'
  BY <1>3 DEF NachschlagenScheitert, AnDerReihe, Weiter, PHASEN
<1>4. ASSUME NEW a \in ANFRAGEN, Pruefen(a) PROVE Typ'
  <2>1. stoerungen' \in [DATEI -> 0 .. MAX_STOERUNGEN]
    BY <1>4, GrenzenAnnahme DEF Pruefen, load, Stoerung, DATEI
  <2>2. phase' = [phase EXCEPT ![a] = "abgelehnt"] \/ phase' = [phase EXCEPT ![a] = "geprueft"]
    BY <1>4 DEF Pruefen, Weiter
  <2> QED BY <1>4, <2>1, <2>2 DEF Pruefen, AnDerReihe, PHASEN, BESTANDEN
<1>5. ASSUME NEW a \in ANFRAGEN, Verankern(a) PROVE Typ'
  <2>1. a \notin DOMAIN kette
    BY <1>5 DEF Verankern, AnDerReihe, Verankert, Unterwegs, GESENDET, BESTAETIGT
  <2> QED BY <1>5, <2>1 DEF Verankern, AnDerReihe, Weiter, PHASEN, BESTANDEN, GESENDET
<1>6. ASSUME NEW a \in ANFRAGEN, Aufnehmen(a) PROVE Typ'
  BY <1>6 DEF Aufnehmen, anfrage
<1>7. ASSUME NEW a \in ANFRAGEN, Verfallen(a) PROVE Typ'
  BY <1>7 DEF Verfallen, anfrage
<1>8. ASSUME NEW a \in ANFRAGEN, Bestaetigen(a) PROVE Typ'
  BY <1>8 DEF Bestaetigen, AnDerReihe, Weiter, PHASEN, BESTANDEN, GESENDET, BESTAETIGT
<1>9. ASSUME NEW a \in ANFRAGEN, Unbestaetigt(a) PROVE Typ'
  BY <1>9 DEF Unbestaetigt, AnDerReihe, Weiter, PHASEN, BESTANDEN, GESENDET
<1>10. ASSUME NEW a \in ANFRAGEN, NEW d \in DATEI, CommitOderAdd(a, d) PROVE Typ'
  <2>1. PICK R \in {Inhalt(d), {}} :
          /\ load(d, R)
          /\ \/ phase' = [phase EXCEPT ![a] = "fertig"] /\ UNCHANGED <<datei, schreibt>>
             \/ /\ datei' = [datei EXCEPT ![d] = KAPUTT]
                /\ schreibt' = [schreibt EXCEPT ![d] = [neu |-> R \cup {Eintrag(a, d)}, wer |-> a]]
                /\ UNCHANGED phase
             \/ phase' = [phase EXCEPT ![a] = "abgebrochen"] /\ UNCHANGED <<datei, schreibt>>
    BY <1>10 DEF CommitOderAdd, Weiter
  <2>2. stoerungen' \in [DATEI -> 0 .. MAX_STOERUNGEN]
    BY <2>1, Geladen
  <2>3. \A f \in DATEI : Inhalt(f)' \subseteq ZEILEN(f)
    BY <2>1
  <2>4. phase' \in [ANFRAGEN -> PHASEN] /\ phase[a] # "neu"
    BY <1>10, <2>1 DEF CommitOderAdd, AnDerReihe, PHASEN, BESTANDEN, GESENDET, BESTAETIGT
  <2>5. \A x \in ANFRAGEN : phase'[x] # "neu" => phase[x] # "neu"
    BY <1>10, <2>1 DEF CommitOderAdd, AnDerReihe
  <2> QED BY <1>10, <2>1, <2>2, <2>3, <2>4, <2>5 DEF CommitOderAdd
<1>11. ASSUME NEW d \in DATEI, Schreiben(d) PROVE Typ'
  <2>1. /\ schreibt[d].wer \in ANFRAGEN /\ schreibt[d].neu \subseteq ZEILEN(d)
        /\ phase[schreibt[d].wer] = "bestaetigt"
    BY <1>11 DEF Schreiben, Vorgang, VorgangAn
  <2>2. \A f \in DATEI : Inhalt(f)' \subseteq ZEILEN(f)
    BY <1>11, <2>1 DEF Schreiben
  <2> QED BY <1>11, <2>1, <2>2 DEF Schreiben, Weiter, PHASEN, BESTANDEN, GESENDET, BESTAETIGT
<1>12. ASSUME NEW d \in DATEI, SchreibenScheitert(d) PROVE Typ'
  <2>1. stoerungen' \in [DATEI -> 0 .. MAX_STOERUNGEN]
    BY <1>12, GrenzenAnnahme DEF SchreibenScheitert, Stoerung, DATEI
  <2>2. schreibt[d].wer \in ANFRAGEN /\ phase[schreibt[d].wer] = "bestaetigt"
    BY <1>12 DEF SchreibenScheitert, Vorgang, VorgangAn
  <2> QED BY <1>12, <2>1, <2>2 DEF SchreibenScheitert, Weiter, PHASEN, BESTANDEN, GESENDET, BESTAETIGT
<1>13. ASSUME NEW d \in DATEI, Absturz(d) PROVE Typ'
  <2>1. stoerungen' \in [DATEI -> 0 .. MAX_STOERUNGEN]
    BY <1>13, GrenzenAnnahme DEF Absturz, Stoerung, DATEI
  <2> QED BY <1>13, <2>1 DEF Absturz, PHASEN
<1>14. ASSUME NEW s \in DOMAIN BESTAND, Stilllegen(s) PROVE Typ'
  BY <1>14 DEF Stilllegen, anfrage
<1>15. ASSUME Besuchen PROVE Typ'
  BY <1>15 DEF Besuchen, Fragen, Gegenpruefen, KetteUnerreichbar, Gehen, anfrage
<1>16. ASSUME NEW e \in FAELSCHUNGEN, RegisterVerfaelschen(e) PROVE Typ'
  <2>1. datei' = [datei EXCEPT !["register"] =
                      {f \in Inhalt("register") : f.hashHex # e.hashHex} \cup {e}]
    BY <1>16 DEF RegisterVerfaelschen
  <2>2. e \in ZEILEN("register") /\ Inhalt("register") \subseteq ZEILEN("register") /\ "register" \in DATEI
    BY FaelschungenAnnahme DEF DATEI
  <2>3. datei'["register"] \subseteq ZEILEN("register") /\ DOMAIN datei' = DATEI
    BY <2>1, <2>2
  <2>4. \A f \in DATEI : f # "register" => datei'[f] = datei[f]
    BY <2>1
  <2>5. \A f \in DATEI : Inhalt(f)' \subseteq ZEILEN(f)
    BY <2>3, <2>4
  <2> QED BY <1>16, <2>3, <2>5 DEF RegisterVerfaelschen, anfrage
<1>17. ASSUME UNCHANGED vars PROVE Typ'
  BY <1>17 DEF vars, anfrage
<1> QED
  BY <1>1, <1>2, <1>3, <1>4, <1>5, <1>6, <1>7, <1>8, <1>9, <1>10, <1>11, <1>12, <1>13, <1>14, <1>15,
  <1>16, <1>17 DEF Next, Schritt, Besuchen

(* Only visitors change the visit.                                         *)
LEMMA BesuchSonst == ASSUME [Next]_vars PROVE Besuchen \/ besuch' = besuch
  BY DEF Next, Schritt, Besuchen, Anfragen, Nachschlagen, NachschlagenScheitert, Pruefen, Verankern,
         Aufnehmen, Verfallen, Bestaetigen, Unbestaetigt, CommitOderAdd, Schreiben, SchreibenScheitert,
         Absturz, Stilllegen, RegisterVerfaelschen, vars

(* Every step keeps the visit of the check page of its type.               *)
LEMMA BesuchTypSchritt == ASSUME IInv, [Next]_vars PROVE BesuchTyp'
<1> USE DEF IInv, BesuchTyp
<1>1. ASSUME NEW h \in DOKUMENTE, Fragen(h) PROVE BesuchTyp'
  <2>1. PICK R \in {Inhalt("register"), {}} :
          LET E == {e \in R : e.hashHex = h}
          IN  besuch' = IF E = {} THEN [phase |-> "beantwortet", hash |-> h, eintrag |-> KEIN,
                                        status |-> "unbekannt"]
                        ELSE [phase |-> "wartet", hash |-> h, eintrag |-> CHOOSE e \in E : TRUE,
                              status |-> KEIN]
    BY <1>1 DEF Fragen
  <2> DEFINE E == {e \in R : e.hashHex = h}
  <2>2. E \subseteq ZEILEN("register")
    BY <2>1 DEF Typ, DATEI
  <2>3. E # {} => (CHOOSE e \in E : TRUE) \in ZEILEN("register")
    BY <2>2
  <2> QED BY <2>1, <2>3
<1>2. ASSUME Gegenpruefen PROVE BesuchTyp'
  BY <1>2 DEF Gegenpruefen, Status
<1>3. ASSUME KetteUnerreichbar PROVE BesuchTyp'
  BY <1>3 DEF KetteUnerreichbar
<1>4. ASSUME Gehen PROVE BesuchTyp'
  BY <1>4 DEF Gehen
<1>5. ASSUME besuch' = besuch PROVE BesuchTyp'
  BY <1>5
<1> QED BY <1>1, <1>2, <1>3, <1>4, <1>5, BesuchSonst DEF Besuchen

(* The page turns green by Gegenpruefen alone, which asks the chain; the   *)
(* chain keeps what it has.                                                *)
LEMMA GruenSchritt == ASSUME IInv, [Next]_vars PROVE GruenIstVerankert'
<1> USE DEF IInv, BesuchTyp, GruenIstVerankert, Anzeige
<1>1. ASSUME NEW h \in DOKUMENTE, Fragen(h) PROVE GruenIstVerankert'
  <2>1. besuch'.status # "registriert" \/ besuch'.phase = "wartet"
    <3>1. PICK R \in {Inhalt("register"), {}} :
            LET E == {e \in R : e.hashHex = h}
            IN  besuch' = IF E = {} THEN [phase |-> "beantwortet", hash |-> h, eintrag |-> KEIN,
                                          status |-> "unbekannt"]
                          ELSE [phase |-> "wartet", hash |-> h, eintrag |-> CHOOSE e \in E : TRUE,
                                status |-> KEIN]
      BY <1>1 DEF Fragen
    <3> DEFINE E == {e \in R : e.hashHex = h}
    <3>2. E = {} \/ E # {}
      OBVIOUS
    <3> QED BY <3>1, <3>2
  <2> QED BY <2>1
<1>2. ASSUME Gegenpruefen PROVE GruenIstVerankert'
  <2>1. /\ besuch'.status = Status(besuch.hash, besuch.eintrag.signature)
        /\ besuch'.hash = besuch.hash
        /\ kette' = kette /\ eingabe' = eingabe
    BY <1>2 DEF Gegenpruefen, anfrage
  <2>2. besuch'.status = "registriert" =>
           \E x \in DOMAIN kette : eingabe[x].weg = "register" /\ kette[x] = besuch.hash
    BY <2>1 DEF Status
  <2> QED BY <2>1, <2>2
<1>3. ASSUME KetteUnerreichbar PROVE GruenIstVerankert'
  BY <1>3 DEF KetteUnerreichbar
<1>4. ASSUME Gehen PROVE GruenIstVerankert'
  BY <1>4 DEF Gehen
<1>5. ASSUME besuch' = besuch PROVE GruenIstVerankert'
  <2>1. ASSUME NEW x \in DOMAIN kette
        PROVE  x \in DOMAIN kette' /\ kette'[x] = kette[x] /\ eingabe'[x] = eingabe[x]
    <3>1. x \in ANFRAGEN /\ phase[x] # "neu"
      BY DEF Typ, Verankert, Unterwegs, GESENDET, BESTAETIGT
    <3> QED BY <3>1, Waechst, Fest
  <2> QED BY <1>5, <2>1
<1> QED BY <1>1, <1>2, <1>3, <1>4, <1>5, BesuchSonst DEF Besuchen
-----------------------------------------------------------------------------
(* Steps that are not about a file leave the files alone.                  *)
LEMMA Sonst ==
    ASSUME [Next]_vars
    PROVE  \/ \E a \in ANFRAGEN, d \in DATEI : CommitOderAdd(a, d)
           \/ \E d \in DATEI : Schreiben(d) \/ SchreibenScheitert(d) \/ Absturz(d)
           \/ \E e \in FAELSCHUNGEN : RegisterVerfaelschen(e)
           \/ schreibt' = schreibt /\ datei' = datei
  BY DEF Next, Schritt, Anfragen, Nachschlagen, NachschlagenScheitert, Pruefen, Verankern, Aufnehmen,
         Verfallen, Bestaetigen, Unbestaetigt, Stilllegen, Fragen, Gegenpruefen, KetteUnerreichbar, Gehen,
         vars

(* What commit and add do: nothing if the row is there, or they begin to   *)
(* write, or they give up.                                                 *)
LEMMA CommitFolgt ==
    ASSUME IInv, NEW a \in ANFRAGEN, NEW d \in DATEI, CommitOderAdd(a, d)
    PROVE  /\ phase[a] = "bestaetigt" /\ eingabe[a].weg = d /\ schreibt[d] = KEIN
           /\ satz' = satz /\ eingabe' = eingabe /\ kette' = kette
           /\ \E R \in SUBSET Inhalt(d) :
                 /\ stoerungen'[d] = stoerungen[d] => R = Inhalt(d)
                 /\ \/ /\ SchonEingetragen(d, R, Eintrag(a, d))
                       /\ phase' = [phase EXCEPT ![a] = "fertig"] /\ UNCHANGED <<datei, schreibt>>
                    \/ /\ ~SchonEingetragen(d, R, Eintrag(a, d))
                       /\ datei' = [datei EXCEPT ![d] = KAPUTT]
                       /\ schreibt' = [schreibt EXCEPT ![d] = [neu |-> R \cup {Eintrag(a, d)}, wer |-> a]]
                       /\ phase' = phase
                    \/ phase' = [phase EXCEPT ![a] = "abgebrochen"] /\ UNCHANGED <<datei, schreibt>>
<1>1. PICK R \in {Inhalt(d), {}} :
        /\ load(d, R)
        /\ \/ /\ SchonEingetragen(d, R, Eintrag(a, d))
              /\ Weiter(a, "fertig") /\ UNCHANGED <<datei, schreibt>>
           \/ /\ ~SchonEingetragen(d, R, Eintrag(a, d))
              /\ datei' = [datei EXCEPT ![d] = KAPUTT]
              /\ schreibt' = [schreibt EXCEPT ![d] = [neu |-> R \cup {Eintrag(a, d)}, wer |-> a]]
              /\ UNCHANGED phase
           \/ /\ ~SchonEingetragen(d, R, Eintrag(a, d))
              /\ Weiter(a, "abgebrochen") /\ UNCHANGED <<datei, schreibt>>
  BY DEF CommitOderAdd
<1>2. R \in SUBSET Inhalt(d) /\ (stoerungen'[d] = stoerungen[d] => R = Inhalt(d))
  BY <1>1, Geladen
<1>3. /\ phase[a] = "bestaetigt" /\ eingabe[a].weg = d /\ schreibt[d] = KEIN
      /\ satz' = satz /\ eingabe' = eingabe /\ kette' = kette
  BY DEF CommitOderAdd, AnDerReihe
<1> QED BY <1>1, <1>2, <1>3 DEF Weiter

(* A request whose write is in progress does nothing else.                 *)
LEMMA WerBleibt ==
    ASSUME IInv, [Next]_vars, NEW f \in DATEI, schreibt[f] # KEIN, schreibt'[f] = schreibt[f]
    PROVE  phase'[schreibt[f].wer] = phase[schreibt[f].wer]
<1> DEFINE w == schreibt[f].wer
<1>0. /\ w \in ANFRAGEN /\ phase[w] = "bestaetigt" /\ eingabe[w].weg = f
      /\ phase \in [ANFRAGEN -> PHASEN] /\ DOMAIN schreibt = DATEI
  BY DEF IInv, Vorgang, VorgangAn, Typ
<1> HIDE DEF w
<1>1. ASSUME NEW a \in ANFRAGEN, NEW weg \in DATEI, NEW s \in SERIALS \cup {KEIN}, NEW u \in SUBJEKTE,
             NEW t \in TONNEN, Anfragen(a, weg, s, u, t)
      PROVE  phase'[w] = phase[w]
  BY <1>1, <1>0 DEF Anfragen, Weiter
<1>2. ASSUME NEW a \in ANFRAGEN, Nachschlagen(a) PROVE phase'[w] = phase[w]
  BY <1>2, <1>0 DEF Nachschlagen, Weiter
<1>3. ASSUME NEW a \in ANFRAGEN, NachschlagenScheitert(a) PROVE phase'[w] = phase[w]
  BY <1>3, <1>0 DEF NachschlagenScheitert, AnDerReihe, Weiter
<1>4. ASSUME NEW a \in ANFRAGEN, Pruefen(a) PROVE phase'[w] = phase[w]
  <2>1. a # w
    BY <1>4, <1>0 DEF Pruefen, AnDerReihe
  <2>2. \E p \in PHASEN : phase' = [phase EXCEPT ![a] = p]
    BY <1>4 DEF Pruefen, Weiter, PHASEN, BESTANDEN
  <2> QED BY <1>0, <2>1, <2>2
<1>5. ASSUME NEW a \in ANFRAGEN, Verankern(a) PROVE phase'[w] = phase[w]
  BY <1>5, <1>0 DEF Verankern, AnDerReihe, Weiter
<1>6. ASSUME NEW a \in ANFRAGEN, Aufnehmen(a) PROVE phase'[w] = phase[w]
  BY <1>6, <1>0 DEF Aufnehmen, anfrage
<1>7. ASSUME NEW a \in ANFRAGEN, Verfallen(a) PROVE phase'[w] = phase[w]
  BY <1>7, <1>0 DEF Verfallen, anfrage
<1>8. ASSUME NEW a \in ANFRAGEN, Bestaetigen(a) PROVE phase'[w] = phase[w]
  BY <1>8, <1>0 DEF Bestaetigen, AnDerReihe, Weiter
<1>9. ASSUME NEW a \in ANFRAGEN, Unbestaetigt(a) PROVE phase'[w] = phase[w]
  BY <1>9, <1>0 DEF Unbestaetigt, AnDerReihe, Weiter
<1>10. ASSUME NEW a \in ANFRAGEN, NEW d \in DATEI, CommitOderAdd(a, d)
      PROVE  phase'[w] = phase[w]
  <2>1. a # w
    BY <1>10, <1>0 DEF CommitOderAdd, AnDerReihe
  <2>2. phase' = phase \/ (\E p \in PHASEN : phase' = [phase EXCEPT ![a] = p])
    BY <1>10 DEF CommitOderAdd, Weiter, PHASEN, BESTANDEN, GESENDET, BESTAETIGT
  <2> QED BY <1>0, <2>1, <2>2
<1>11. ASSUME NEW d \in DATEI, Schreiben(d) PROVE phase'[w] = phase[w]
  <2>1. d # f
    BY <1>11, <1>0 DEF Schreiben
  <2>2. schreibt[d].wer # w
    BY <1>11, <1>0, <2>1 DEF Schreiben, IInv, Vorgang, VorgangAn
  <2> QED BY <1>11, <1>0, <2>2 DEF Schreiben, Weiter
<1>12. ASSUME NEW d \in DATEI, SchreibenScheitert(d) PROVE phase'[w] = phase[w]
  <2>1. d # f
    BY <1>12, <1>0 DEF SchreibenScheitert
  <2>2. schreibt[d].wer # w
    BY <1>12, <1>0, <2>1 DEF SchreibenScheitert, IInv, Vorgang, VorgangAn
  <2> QED BY <1>12, <1>0, <2>2 DEF SchreibenScheitert, Weiter
<1>13. ASSUME NEW d \in DATEI, Absturz(d) PROVE phase'[w] = phase[w]
  <2>1. d # f
    BY <1>13, <1>0 DEF Absturz
  <2> QED BY <1>13, <1>0, <2>1 DEF Absturz
<1>14. ASSUME NEW s \in DOMAIN BESTAND, Stilllegen(s) PROVE phase'[w] = phase[w]
  BY <1>14, <1>0 DEF Stilllegen, anfrage
<1>15. ASSUME Besuchen PROVE phase'[w] = phase[w]
  BY <1>15, <1>0 DEF Besuchen, Fragen, Gegenpruefen, KetteUnerreichbar, Gehen, anfrage
<1>16. ASSUME NEW e \in FAELSCHUNGEN, RegisterVerfaelschen(e) PROVE phase'[w] = phase[w]
  BY <1>16, <1>0 DEF RegisterVerfaelschen, anfrage
<1>17. ASSUME UNCHANGED vars PROVE phase'[w] = phase[w]
  BY <1>17, <1>0 DEF vars, anfrage
<1> QED
  BY <1>1, <1>2, <1>3, <1>4, <1>5, <1>6, <1>7, <1>8, <1>9, <1>10, <1>11, <1>12, <1>13, <1>14, <1>15,
  <1>16, <1>17 DEF Next, Schritt, Besuchen, w

(* A write goes on as it began, and one that begins saves the row of its   *)
(* request.                                                                *)
LEMMA VorgangSchritt == ASSUME IInv, [Next]_vars PROVE Vorgang'
<1> SUFFICES ASSUME NEW d \in DATEI PROVE VorgangAn(d)'
  BY DEF Vorgang
<1>0. DOMAIN schreibt = DATEI
  BY DEF IInv, Typ
<1>1. CASE schreibt[d] # KEIN /\ schreibt'[d] = schreibt[d]
  <2>1. PICK w \in ANFRAGEN :
          /\ w = schreibt[d].wer /\ phase[w] = "bestaetigt" /\ eingabe[w].weg = d
          /\ schreibt[d].neu \subseteq ZEILEN(d)
          /\ \E e \in schreibt[d].neu : Schluessel(d, e) = Schluessel(d, Eintrag(w, d))
    BY <1>1 DEF IInv, Vorgang, VorgangAn
  <2>2. phase'[w] = "bestaetigt"
    BY <1>1, <2>1, WerBleibt
  <2>3. satz'[w] = satz[w] /\ eingabe'[w] = eingabe[w]
    BY <2>1, Fest
  <2>4. Schluessel(d, Eintrag(w, d))' = Schluessel(d, Eintrag(w, d))
    BY <2>3 DEF Schluessel, Eintrag, Hash
  <2>5. schreibt'[d].wer = w /\ schreibt'[d].neu = schreibt[d].neu
    BY <1>1, <2>1
  <2>6. \E e \in schreibt[d].neu : Schluessel(d, e) = Schluessel(d, Eintrag(w, d))'
    BY <2>1, <2>4
  <2> QED BY <2>1, <2>2, <2>3, <2>5, <2>6 DEF VorgangAn, Schluessel, Eintrag, Hash
<1>2. CASE schreibt'[d] = KEIN
  BY <1>2 DEF VorgangAn
<1>3. CASE schreibt'[d] # schreibt[d] /\ schreibt'[d] # KEIN
  <2>1. PICK a \in ANFRAGEN, f \in DATEI : CommitOderAdd(a, f)
    BY <1>0, <1>3, Sonst DEF Schreiben, SchreibenScheitert, Absturz, RegisterVerfaelschen
  <2>2. PICK R \in SUBSET Inhalt(f) :
          /\ schreibt' = [schreibt EXCEPT ![f] = [neu |-> R \cup {Eintrag(a, f)}, wer |-> a]]
          /\ phase' = phase /\ satz' = satz /\ eingabe' = eingabe
          /\ phase[a] = "bestaetigt" /\ eingabe[a].weg = f
    BY <1>3, <2>1, CommitFolgt
  <2>3. d = f
    BY <1>0, <1>3, <2>2
  <2>4. Eintrag(a, d) \in ZEILEN(d) /\ Inhalt(d) \subseteq ZEILEN(d)
    BY <2>2, EintragGut DEF IInv, Typ
  <2>5. schreibt'[d].neu = R \cup {Eintrag(a, d)} /\ schreibt'[d].wer = a
    BY <1>0, <2>2, <2>3
  <2>6. Schluessel(d, Eintrag(a, d))' = Schluessel(d, Eintrag(a, d))
    BY <2>2 DEF Schluessel, Eintrag, Hash
  <2>7. \E e \in schreibt'[d].neu : Schluessel(d, e) = Schluessel(d, Eintrag(a, d))'
    BY <2>5, <2>6
  <2>8. schreibt'[d].neu \subseteq ZEILEN(d)
    BY <2>2, <2>3, <2>4, <2>5
  <2> QED BY <2>2, <2>3, <2>5, <2>7, <2>8 DEF VorgangAn, Schluessel, Eintrag, Hash
<1> QED BY <1>1, <1>2, <1>3

(* Rows that are covered by the chain stay covered, and so do fewer rows.  *)
LEMMA GedecktBleibt ==
    ASSUME IInv, [Next]_vars, NEW R, Gedeckt(R), NEW S \in SUBSET R
    PROVE  /\ \A e \in S :
                 /\ e.txSig \in DOMAIN kette'
                 /\ kette'[e.txSig].serial = e.serial /\ kette'[e.txSig].subject = e.subject
           /\ \A e, f \in S : e.serial = f.serial => e = f
  BY Waechst DEF Gedeckt

(* Every step keeps the rows of the ledger covered by the chain: what is   *)
(* written is what was read, and the row of a confirmed request whose      *)
(* serial was not among it.                                                *)
LEMMA LedgerSchritt == ASSUME IInv, [Next]_vars PROVE LedgerInv'
<1>0. /\ DOMAIN datei = DATEI /\ DOMAIN schreibt = DATEI /\ "ledger" \in DATEI
      /\ Gedeckt(Inhalt("ledger")) /\ Gedeckt(Stand("ledger"))
  BY DEF IInv, Typ, LedgerInv, DATEI
<1>1. SUFFICES \E R, S : /\ Gedeckt(R) /\ Gedeckt(S)
                         /\ Inhalt("ledger")' \in SUBSET R /\ Stand("ledger")' \in SUBSET S
  <2>1. PICK R, S : /\ Gedeckt(R) /\ Gedeckt(S)
                    /\ Inhalt("ledger")' \in SUBSET R /\ Stand("ledger")' \in SUBSET S
    BY <1>1
  <2>2. Gedeckt(Inhalt("ledger"))'
    BY <2>1, GedecktBleibt DEF Gedeckt
  <2>3. Gedeckt(Stand("ledger"))'
    BY <2>1, GedecktBleibt DEF Gedeckt
  <2> QED BY <2>2, <2>3 DEF LedgerInv
<1>2. CASE schreibt'["ledger"] = schreibt["ledger"] /\ datei'["ledger"] = datei["ledger"]
  BY <1>0, <1>2 DEF Inhalt, Stand
<1>3. ASSUME NEW a \in ANFRAGEN, CommitOderAdd(a, "ledger")
      PROVE  \E R, S : /\ Gedeckt(R) /\ Gedeckt(S)
                       /\ Inhalt("ledger")' \in SUBSET R /\ Stand("ledger")' \in SUBSET S
  <2>1. CASE UNCHANGED <<datei, schreibt>>
    BY <1>0, <2>1 DEF Inhalt, Stand
  <2>2. CASE ~UNCHANGED <<datei, schreibt>>
    <3>1. PICK R \in SUBSET Inhalt("ledger") :
            /\ ~SchonEingetragen("ledger", R, Eintrag(a, "ledger"))
            /\ datei' = [datei EXCEPT !["ledger"] = KAPUTT]
            /\ schreibt' = [schreibt EXCEPT !["ledger"] =
                              [neu |-> R \cup {Eintrag(a, "ledger")}, wer |-> a]]
            /\ phase[a] = "bestaetigt"
      BY <1>0, <1>3, <2>2, CommitFolgt
    <3> DEFINE S == R \cup {Eintrag(a, "ledger")}
    <3>2. Inhalt("ledger")' = {}
      BY <1>0, <3>1 DEF Inhalt
    <3>3. \A e \in R : e.serial # Eintrag(a, "ledger").serial
      BY <3>1 DEF SchonEingetragen
    <3>4. Gedeckt(S)
      BY <1>0, <3>1, <3>3, EintragGut DEF Gedeckt
    <3>5. Stand("ledger")' \subseteq S
      BY <1>0, <3>1, <3>2 DEF Stand
    <3> QED BY <1>0, <3>2, <3>4, <3>5
  <2> QED BY <2>1, <2>2
<1>4. ASSUME Schreiben("ledger")
      PROVE  \E R, S : /\ Gedeckt(R) /\ Gedeckt(S)
                       /\ Inhalt("ledger")' \in SUBSET R /\ Stand("ledger")' \in SUBSET S
  <2>1. /\ schreibt["ledger"] # KEIN /\ schreibt'["ledger"] = KEIN
        /\ datei'["ledger"] = schreibt["ledger"].neu
    BY <1>0, <1>4 DEF Schreiben
  <2>2. Inhalt("ledger")' \subseteq Stand("ledger") /\ Stand("ledger")' = Inhalt("ledger")'
    BY <2>1 DEF Inhalt, Stand
  <2> QED BY <1>0, <2>2
<1>5. ASSUME SchreibenScheitert("ledger") \/ Absturz("ledger")
      PROVE  \E R, S : /\ Gedeckt(R) /\ Gedeckt(S)
                       /\ Inhalt("ledger")' \in SUBSET R /\ Stand("ledger")' \in SUBSET S
  <2>1. schreibt'["ledger"] = KEIN /\ datei' = datei
    BY <1>0, <1>5 DEF SchreibenScheitert, Absturz
  <2>2. Inhalt("ledger")' = Inhalt("ledger") /\ Stand("ledger")' = Inhalt("ledger")
    BY <2>1 DEF Inhalt, Stand
  <2> QED BY <1>0, <2>2
<1>6. ASSUME NEW d \in DATEI, d # "ledger",
             (\E a \in ANFRAGEN : CommitOderAdd(a, d)) \/ Schreiben(d) \/ SchreibenScheitert(d) \/ Absturz(d)
      PROVE  schreibt'["ledger"] = schreibt["ledger"] /\ datei'["ledger"] = datei["ledger"]
  BY <1>0, <1>6 DEF CommitOderAdd, Schreiben, SchreibenScheitert, Absturz
<1>7. ASSUME NEW e \in FAELSCHUNGEN, RegisterVerfaelschen(e)
      PROVE  schreibt'["ledger"] = schreibt["ledger"] /\ datei'["ledger"] = datei["ledger"]
  BY <1>0, <1>7 DEF RegisterVerfaelschen
<1> QED
  BY <1>2, <1>3, <1>4, <1>5, <1>6, <1>7, Sonst
-----------------------------------------------------------------------------
(* The initial state.                                                      *)
LEMMA IInvInit == Init => IInv
<1> SUFFICES ASSUME Init PROVE IInv
  OBVIOUS
<1> USE DEF Init
<1>1. \A d \in DATEI : Inhalt(d) = {} /\ Stand(d) = {}
  BY DEF Inhalt, Stand
<1>2. Typ
  BY <1>1, GrenzenAnnahme DEF Typ, PHASEN
<1>3. BesuchTyp /\ GruenIstVerankert
  BY DEF BesuchTyp, GruenIstVerankert
<1>4. SatzEcht /\ Bestanden /\ Verankert /\ Vorgang
  BY DEF SatzEcht, Bestanden, Verankert, Vorgang, VorgangAn, Unterwegs, BESTANDEN, GESENDET, BESTAETIGT
<1>5. LedgerInv
  BY <1>1 DEF LedgerInv, Gedeckt, DATEI
<1> QED BY <1>2, <1>3, <1>4, <1>5 DEF IInv

(* The inductive invariant: what requests know is true and kept, what is   *)
(* on the chain and in the files stems from requests that passed, whatever *)
(* reads and writes fail.                                                  *)
THEOREM Invariante == Spec => []IInv
<1>1. IInv /\ [Next]_vars => IInv'
  BY TypSchritt, BesuchTypSchritt, SatzEchtSchritt, BestandenSchritt, VerankertSchritt, VorgangSchritt,
     LedgerSchritt, GruenSchritt DEF IInv
<1> QED BY <1>1, IInvInit, PTL DEF Spec

(* A request that has sent a transaction has passed the checks, and what   *)
(* is on the chain is a document of the registry.                          *)
LEMMA MemoGueltig ==
    ASSUME IInv, NEW a \in DOMAIN kette
    PROVE  /\ a \in ANFRAGEN /\ kette[a] = Hash(a)
           /\ kette[a].serial \in DOMAIN BESTAND
           /\ kette[a].serial \in LESBAR => eingabe[a].tonnen <= BESTAND[kette[a].serial] + TOLERANZ
           /\ REQUIRE_RETIRED => kette[a].serial \in stillgelegt
           /\ kette[a] \in DOKUMENTE
<1>1. a \in ANFRAGEN /\ kette[a] = Hash(a)
  BY DEF IInv, Typ, Verankert
<1>2. /\ satz[a] # KEIN /\ (REQUIRE_RETIRED => satz[a].retired)
      /\ ~ZuKlein(satz[a].quantityTonnes, eingabe[a].tonnen)
  BY <1>1 DEF IInv, Bestanden, Unterwegs, Gueltig
<1>3. /\ satz[a].serial \in DOMAIN BESTAND
      /\ satz[a].quantityTonnes = Zahl(satz[a].serial)
      /\ satz[a].retired \in BOOLEAN
      /\ satz[a].retired => satz[a].serial \in stillgelegt
  BY <1>1, <1>2 DEF IInv, SatzEcht
<1>4. phase[a] # "neu"
  BY <1>1 DEF IInv, Verankert, Unterwegs, GESENDET, BESTAETIGT
<1>5. eingabe[a].subject \in SUBJEKTE /\ eingabe[a].tonnen \in Nat
  BY <1>1, <1>4 DEF IInv, Typ
<1>6. Hash(a) \in DOKUMENTE
  BY <1>2, <1>3, <1>5 DEF Hash, DOKUMENTE
<1>7. Hash(a).serial = satz[a].serial
  BY DEF Hash
<1>8. satz[a].serial \in LESBAR => eingabe[a].tonnen <= BESTAND[satz[a].serial] + TOLERANZ
  <2> SUFFICES ASSUME satz[a].serial \in LESBAR
               PROVE  eingabe[a].tonnen <= BESTAND[satz[a].serial] + TOLERANZ
    OBVIOUS
  <2>1. satz[a].quantityTonnes = BESTAND[satz[a].serial] /\ BESTAND[satz[a].serial] # KEINE_ZAHL
    BY <1>3, MarkenAnnahme DEF Zahl
  <2>2. BESTAND[satz[a].serial] \in Nat /\ TOLERANZ \in Nat
    BY <1>3, BestandAnnahme, TonnenAnnahme
  <2> QED BY <1>2, <1>5, <2>1, <2>2 DEF ZuKlein
<1> QED BY <1>1, <1>2, <1>3, <1>6, <1>7, <1>8

(* Phases, files, chain and requests never leave their types.              *)
THEOREM Typen == Spec => []TypeOK
<1>1. ASSUME IInv PROVE TypeOK
  <2>1. \A a \in DOMAIN kette : kette[a] \in DOKUMENTE
    BY <1>1, MemoGueltig
  <2> QED BY <1>1, <2>1 DEF IInv, Typ, TypeOK, PHASEN, BESTANDEN, GESENDET, BESTAETIGT
<1> QED BY <1>1, Invariante, PTL

(* What is on the chain is the proof of a retired credit, and of at least  *)
(* the amount claimed where the registry's amount can be read at all, in   *)
(* any interleaving and whatever fails.                                    *)
THEOREM ImmerBelegt == Spec => []VerankertIstBelegt
<1>1. IInv => VerankertIstBelegt
  BY MemoGueltig DEF VerankertIstBelegt
<1> QED BY <1>1, Invariante, PTL

(* The ledger turns no serial away without a proof of it on the chain, and *)
(* keeps one row of each, also after reads and writes that failed.         *)
THEOREM LedgerImmerGedeckt == Spec => []LedgerGedeckt
<1>1. IInv => LedgerGedeckt
  BY DEF IInv, LedgerInv, Gedeckt, LedgerGedeckt
<1> QED BY <1>1, Invariante, PTL

(* The page turns green only for a document whose hash is in a memo on the *)
(* chain, however the register is tampered with.                           *)
THEOREM GruenImmerVerankert == Spec => []GruenIstVerankert
<1>1. IInv => GruenIstVerankert
  BY DEF IInv
<1> QED BY <1>1, Invariante, PTL
-----------------------------------------------------------------------------
(* Requests made one after the other, and what failures take from them.    *)

(* The row of request a is in its file, or in what is being written to it. *)
HatZeile(a) ==
    \E e \in Stand(eingabe[a].weg) :
        Schluessel(eingabe[a].weg, e) = Schluessel(eingabe[a].weg, Eintrag(a, eingabe[a].weg))

(* A request that is through, and undisturbed since, has its row.          *)
Eingetragen ==
    /\ ungestoert \subseteq ANFRAGEN
    /\ \A a \in ungestoert : phase[a] = "fertig" /\ HatZeile(a)

(* Those that were through when a request of the service was made are      *)
(* undisturbed until it is checked, and it passes the checks with another  *)
(* serial only.                                                            *)
VorherInv ==
    /\ vorher \in [ANFRAGEN -> SUBSET ANFRAGEN]
    /\ \A a \in ANFRAGEN : \A b \in vorher[a] :
          /\ phase[b] = "fertig" /\ eingabe[b].weg = "ledger"
          /\ phase[a] # "neu" /\ eingabe[a].weg = "ledger"
          /\ phase[a] \in {"fragt", "beantwortet"} => b \in ungestoert
          /\ phase[a] \in BESTANDEN \/ Unterwegs(a) => satz[a].serial # satz[b].serial

(* As long as nothing fails at a file, no serial leaves the ledger and no  *)
(* hash the register, though the register may come to name another         *)
(* transaction.                                                            *)
LEMMA ZeilenBleiben ==
    ASSUME IInv, [Next]_vars, NEW d \in DATEI, ~Gestoert(d)
    PROVE  \A e \in Stand(d) : \E f \in Stand(d)' : Schluessel(d, f) = Schluessel(d, e)
<1> DEFINE Ziel == \A e \in Stand(d) : \E f \in Stand(d)' : Schluessel(d, f) = Schluessel(d, e)
<1>0. /\ DOMAIN datei = DATEI /\ DOMAIN schreibt = DATEI /\ stoerungen'[d] = stoerungen[d]
      /\ Inhalt(d) \subseteq ZEILEN(d) /\ stoerungen \in [DATEI -> 0 .. MAX_STOERUNGEN]
  BY DEF IInv, Typ, Gestoert
<1>1. ASSUME schreibt'[d] = schreibt[d], datei'[d] = datei[d] PROVE Ziel
  BY <1>1 DEF Stand, Inhalt
<1>2. ASSUME NEW a \in ANFRAGEN, CommitOderAdd(a, d) PROVE Ziel
  <2>1. CASE UNCHANGED <<datei, schreibt>>
    BY <1>1, <2>1
  <2>2. CASE ~UNCHANGED <<datei, schreibt>>
    <3>1. /\ schreibt' = [schreibt EXCEPT ![d] = [neu |-> Inhalt(d) \cup {Eintrag(a, d)}, wer |-> a]]
          /\ schreibt[d] = KEIN /\ phase[a] = "bestaetigt"
      BY <1>0, <1>2, <2>2, CommitFolgt
    <3>2. Inhalt(d) \cup {Eintrag(a, d)} \in SUBSET ZEILEN(d)
      BY <1>0, <3>1, EintragGut
    <3>3. schreibt'[d] = [neu |-> Inhalt(d) \cup {Eintrag(a, d)}, wer |-> a]
      BY <1>0, <3>1
    <3>4. schreibt'[d] # KEIN
      BY <3>2, <3>3, MarkenAnnahme
    <3>5. Stand(d) = Inhalt(d) /\ Stand(d)' = Inhalt(d) \cup {Eintrag(a, d)}
      BY <3>1, <3>3, <3>4 DEF Stand
    <3> QED BY <3>5
  <2> QED BY <2>1, <2>2
<1>3. ASSUME Schreiben(d) PROVE Ziel
  <2>1. /\ schreibt[d] # KEIN /\ schreibt'[d] = KEIN /\ datei'[d] = schreibt[d].neu
        /\ schreibt[d].neu \subseteq ZEILEN(d)
    BY <1>0, <1>3 DEF Schreiben, IInv, Vorgang, VorgangAn
  <2>2. schreibt[d].neu # KAPUTT
    BY <2>1, MarkenAnnahme
  <2> QED BY <2>1, <2>2 DEF Stand, Inhalt
<1>4. ASSUME SchreibenScheitert(d) \/ Absturz(d) PROVE FALSE
  BY <1>0, <1>4 DEF SchreibenScheitert, Absturz, Stoerung
<1>5. ASSUME NEW g \in DATEI, g # d,
             \/ \E a \in ANFRAGEN : CommitOderAdd(a, g)
             \/ Schreiben(g) \/ SchreibenScheitert(g) \/ Absturz(g)
      PROVE  Ziel
  <2>1. schreibt'[d] = schreibt[d] /\ datei'[d] = datei[d]
    BY <1>0, <1>5 DEF CommitOderAdd, Schreiben, SchreibenScheitert, Absturz
  <2> QED BY <1>1, <2>1
<1>6. ASSUME NEW e \in FAELSCHUNGEN, RegisterVerfaelschen(e) PROVE Ziel
  <2>1. CASE d = "register"
    <3> DEFINE neu == {f \in Inhalt("register") : f.hashHex # e.hashHex} \cup {e}
    <3>1. schreibt' = schreibt /\ schreibt["register"] = KEIN /\ datei' = [datei EXCEPT !["register"] = neu]
      BY <1>6 DEF RegisterVerfaelschen
    <3>2. neu \in SUBSET ZEILEN("register")
      BY <1>0, <2>1, FaelschungenAnnahme
    <3>3. neu # KAPUTT
      BY <3>2, MarkenAnnahme DEF DATEI
    <3>4. e \in neu /\ \A f \in Inhalt("register") : f.hashHex # e.hashHex => f \in neu
      OBVIOUS
    <3> HIDE DEF neu
    <3>5. Stand(d) = Inhalt("register") /\ Stand(d)' = neu
      BY <1>0, <2>1, <3>1, <3>3 DEF Stand, Inhalt
    <3>6. ASSUME NEW x \in Inhalt("register") PROVE \E f \in neu : f.hashHex = x.hashHex
      BY <3>4
    <3> QED BY <2>1, <3>5, <3>6 DEF Schluessel
  <2>2. CASE d # "register"
    BY <1>0, <1>1, <1>6, <2>2 DEF RegisterVerfaelschen
  <2> QED BY <2>1, <2>2
<1> QED
  BY <1>1, <1>2, <1>3, <1>4, <1>5, <1>6, Sonst

(* A request is through only when its row is in its file.                  *)
LEMMA Uebergang ==
    ASSUME IInv, [Next]_vars, NEW x \in ANFRAGEN, phase'[x] # phase[x], phase'[x] = "fertig"
    PROVE  /\ eingabe'[x] = eingabe[x] /\ eingabe[x].weg \in DATEI
           /\ \E e \in Stand(eingabe[x].weg)' :
                 Schluessel(eingabe[x].weg, e) = Schluessel(eingabe[x].weg, Eintrag(x, eingabe[x].weg))
           /\ satz'[x] = satz[x]
<1> DEFINE Ziel == /\ phase[x] = "bestaetigt"
                   /\ \E e \in Stand(eingabe[x].weg)' :
                         Schluessel(eingabe[x].weg, e) = Schluessel(eingabe[x].weg, Eintrag(x, eingabe[x].weg))
<1>0. DOMAIN datei = DATEI /\ DOMAIN schreibt = DATEI /\ phase \in [ANFRAGEN -> PHASEN]
  BY DEF IInv, Typ
<1>1. ASSUME NEW a \in ANFRAGEN, NEW d \in DATEI, CommitOderAdd(a, d) PROVE Ziel
  <2>1. PICK R \in SUBSET Inhalt(d) :
          /\ SchonEingetragen(d, R, Eintrag(a, d))
          /\ phase' = [phase EXCEPT ![a] = "fertig"] /\ UNCHANGED <<datei, schreibt>>
          /\ schreibt[d] = KEIN /\ eingabe[a].weg = d /\ phase[a] = "bestaetigt"
    BY <1>0, <1>1, CommitFolgt
  <2>2. x = a
    BY <1>0, <2>1
  <2>3. Stand(d)' = Inhalt(d)
    BY <2>1 DEF Stand, Inhalt
  <2>4. PICK r \in R : Schluessel(d, r) = Schluessel(d, Eintrag(a, d))
    BY <2>1 DEF SchonEingetragen, Schluessel, Eintrag
  <2>5. eingabe'[x].weg = d /\ eingabe[x].weg = d
    BY <2>1, <2>2, Fest
  <2> QED BY <2>1, <2>2, <2>3, <2>4, <2>5 DEF Stand, Inhalt
<1>2. ASSUME NEW d \in DATEI, Schreiben(d) PROVE Ziel
  <2>1. /\ schreibt[d] # KEIN /\ schreibt'[d] = KEIN /\ datei'[d] = schreibt[d].neu
        /\ phase' = [phase EXCEPT ![schreibt[d].wer] = "fertig"]
    BY <1>0, <1>2 DEF Schreiben, Weiter
  <2>2. VorgangAn(d)
    BY DEF IInv, Vorgang
  <2>3. x = schreibt[d].wer
    BY <1>0, <2>1, <2>2 DEF VorgangAn
  <2>4. schreibt[d].neu # KAPUTT
    BY <2>1, <2>2, MarkenAnnahme DEF VorgangAn
  <2>5. Stand(d)' = schreibt[d].neu
    BY <2>1, <2>4 DEF Stand, Inhalt
  <2>6. eingabe'[x].weg = d /\ eingabe[x].weg = d /\ phase[x] = "bestaetigt"
    BY <2>1, <2>2, <2>3, Fest DEF VorgangAn
  <2>7. PICK e \in schreibt[d].neu : Schluessel(d, e) = Schluessel(d, Eintrag(x, d))
    BY <2>1, <2>2, <2>3 DEF VorgangAn
  <2> QED BY <2>5, <2>6, <2>7 DEF Stand, Inhalt
<1>3. ASSUME NEW d \in DATEI, SchreibenScheitert(d) \/ Absturz(d) PROVE FALSE
  BY <1>0, <1>3 DEF SchreibenScheitert, Absturz, Weiter
<1>4. ASSUME NEW a \in ANFRAGEN,
             \/ \E weg \in DATEI, s \in SERIALS \cup {KEIN}, u \in SUBJEKTE, t \in TONNEN :
                   Anfragen(a, weg, s, u, t)
             \/ Nachschlagen(a) \/ NachschlagenScheitert(a) \/ Pruefen(a) \/ Verankern(a)
             \/ Bestaetigen(a) \/ Unbestaetigt(a)
      PROVE  FALSE
  BY <1>0, <1>4 DEF Anfragen, Nachschlagen, NachschlagenScheitert, Pruefen, Verankern, Bestaetigen,
                    Unbestaetigt, Weiter
<1>5. phase' # phase
  OBVIOUS
<1>6. Ziel
  BY <1>1, <1>2, <1>3, <1>4, <1>5 DEF Next, Schritt, Aufnehmen, Verfallen, Stilllegen, Fragen, Gegenpruefen,
     KetteUnerreichbar, Gehen, RegisterVerfaelschen, anfrage, vars
<1>7. eingabe'[x] = eingabe[x] /\ satz'[x] = satz[x] /\ eingabe[x].weg \in DATEI
  BY <1>6, Fest DEF IInv, Typ
<1> QED BY <1>6, <1>7

(* Every step keeps what is through, and undisturbed, in its file.         *)
LEMMA EingetragenSchritt ==
    ASSUME IInv, Eingetragen, [MCNext]_<<vars, ungestoert, vorher>>
    PROVE  Eingetragen'
<1>1. /\ [Next]_vars
      /\ \A x \in ungestoert' : x \in ANFRAGEN /\
            \/ x \in ungestoert /\ ~Gestoert(eingabe[x].weg)
            \/ phase[x] # "fertig" /\ phase'[x] = "fertig"
  <2>1. CASE UNCHANGED <<vars, ungestoert, vorher>>
    BY <2>1 DEF Eingetragen, vars, Gestoert
  <2>2. CASE MCNext
    BY <2>2 DEF MCNext, Eingetragen
  <2> QED BY <2>1, <2>2
<1>2. ASSUME NEW x \in ANFRAGEN, x \in ungestoert, ~Gestoert(eingabe[x].weg)
      PROVE  phase'[x] = "fertig" /\ HatZeile(x)'
  <2>1. phase[x] = "fertig" /\ HatZeile(x)
    BY <1>2 DEF Eingetragen
  <2>2. phase'[x] = "fertig"
    BY <1>1, <2>1, PhaseSchritt
  <2>3. eingabe'[x] = eingabe[x] /\ satz'[x] = satz[x] /\ eingabe[x].weg \in DATEI
    BY <1>1, <2>1, Fest DEF IInv, Typ
  <2> DEFINE d == eingabe[x].weg
  <2>4. PICK e \in Stand(d) : Schluessel(d, e) = Schluessel(d, Eintrag(x, d))
    BY <2>1 DEF HatZeile
  <2>5. PICK f \in Stand(d)' : Schluessel(d, f) = Schluessel(d, e)
    BY <1>1, <1>2, <2>3, <2>4, ZeilenBleiben
  <2>6. Schluessel(d, Eintrag(x, d))' = Schluessel(d, Eintrag(x, d)) /\ d' = d
    BY <2>3 DEF Schluessel, Eintrag, Hash
  <2>7. HatZeile(x)'
    BY <2>3, <2>4, <2>5, <2>6 DEF HatZeile, Schluessel
  <2> QED BY <2>2, <2>7
<1>3. ASSUME NEW x \in ANFRAGEN, phase[x] # "fertig", phase'[x] = "fertig"
      PROVE  HatZeile(x)'
  <2> DEFINE d == eingabe[x].weg
  <2>1. /\ eingabe'[x] = eingabe[x] /\ satz'[x] = satz[x]
        /\ \E e \in Stand(d)' : Schluessel(d, e) = Schluessel(d, Eintrag(x, d))
    BY <1>1, <1>3, Uebergang
  <2>2. Schluessel(d, Eintrag(x, d))' = Schluessel(d, Eintrag(x, d)) /\ d' = d
    BY <2>1 DEF Schluessel, Eintrag, Hash
  <2> QED BY <2>1, <2>2 DEF HatZeile, Schluessel
<1> QED BY <1>1, <1>2, <1>3 DEF Eingetragen

(* A request of the service that passes the checks while nothing fails has *)
(* asked a ledger that holds every undisturbed request.                    *)
LEMMA PruefenUnterscheidet ==
    ASSUME IInv, Eingetragen, NEW a \in ANFRAGEN, Pruefen(a), phase'[a] \in BESTANDEN,
           eingabe[a].weg = "ledger", ~Gestoert("ledger"),
           NEW b \in ungestoert, eingabe[b].weg = "ledger"
    PROVE  satz[a].serial # satz[b].serial
<1>1. phase[a] \in PHASEN /\ DOMAIN phase = ANFRAGEN /\ schreibt["ledger"] = KEIN /\ phase[a] = "beantwortet"
  BY DEF IInv, Typ, Pruefen, AnDerReihe
<1>2. PICK R \in {Inhalt("ledger"), {}} :
        /\ load("ledger", R)
        /\ Weiter(a, IF Unbenutzt(a, R) THEN "geprueft" ELSE "abgelehnt")
  <2>1. phase' # [phase EXCEPT ![a] = "abgelehnt"]
    BY <1>1 DEF BESTANDEN, GESENDET, BESTAETIGT
  <2> QED BY <2>1 DEF Pruefen, Weiter
<1>3. Unbenutzt(a, R)
  BY <1>1, <1>2 DEF Weiter, BESTANDEN, GESENDET, BESTAETIGT
<1>4. R = Inhalt("ledger")
  BY <1>2, Geladen DEF Gestoert, DATEI
<1>5. PICK e \in Inhalt("ledger") : e.serial = satz[b].serial
  BY <1>1 DEF Eingetragen, HatZeile, Stand, Schluessel, Eintrag
<1> QED BY <1>3, <1>4, <1>5 DEF Unbenutzt

(* Every step keeps what was noted of earlier requests.                    *)
LEMMA VorherSchritt ==
    ASSUME IInv, Eingetragen, VorherInv, [MCNext]_<<vars, ungestoert, vorher>>
    PROVE  VorherInv'
<1>0. /\ [Next]_vars
      /\ ungestoert \subseteq ANFRAGEN /\ vorher \in [ANFRAGEN -> SUBSET ANFRAGEN]
      /\ phase \in [ANFRAGEN -> PHASEN]
  <2>1. [MCNext]_<<vars, ungestoert, vorher>> => [Next]_vars
    BY DEF MCNext
  <2> QED BY <2>1 DEF Eingetragen, VorherInv, IInv, Typ
<1>1. /\ vorher' \in [ANFRAGEN -> SUBSET ANFRAGEN]
      /\ \A x \in ANFRAGEN : x \in ungestoert /\ ~Gestoert(eingabe[x].weg) => x \in ungestoert'
      /\ \A a \in ANFRAGEN : \A b \in vorher'[a] :
            \/ /\ phase[a] = "neu" /\ phase'[a] # "neu" /\ eingabe'[a].weg = "ledger"
               /\ b \in ungestoert /\ eingabe[b].weg = "ledger"
            \/ b \in vorher[a] /\ (phase[a] \in {"fragt", "beantwortet"} => ~Gestoert("ledger"))
  <2>1. CASE UNCHANGED <<vars, ungestoert, vorher>>
    BY <1>0, <2>1 DEF vars, Gestoert
  <2>2. CASE MCNext
    BY <1>0, <2>2 DEF MCNext
  <2> QED BY <2>1, <2>2
<1>2. SUFFICES ASSUME NEW a \in ANFRAGEN, NEW b \in vorher'[a]
               PROVE  /\ phase'[b] = "fertig" /\ eingabe'[b].weg = "ledger"
                      /\ phase'[a] # "neu" /\ eingabe'[a].weg = "ledger"
                      /\ phase'[a] \in {"fragt", "beantwortet"} => b \in ungestoert'
                      /\ phase'[a] \in BESTANDEN \/ Unterwegs(a)' => satz'[a].serial # satz'[b].serial
  BY <1>1 DEF VorherInv
<1>3. b \in ANFRAGEN
  BY <1>1
<1>4. /\ phase[b] = "fertig" /\ eingabe[b].weg = "ledger"
      /\ phase'[b] = "fertig" /\ eingabe'[b] = eingabe[b] /\ satz'[b] = satz[b]
  <2>1. phase[b] = "fertig" /\ eingabe[b].weg = "ledger"
    BY <1>1 DEF VorherInv, Eingetragen
  <2> QED BY <1>0, <1>3, <2>1, PhaseSchritt, Fest
<1>5. CASE /\ phase[a] = "neu" /\ phase'[a] # "neu" /\ eingabe'[a].weg = "ledger"
           /\ b \in ungestoert
  <2>1. ~Gestoert("ledger")
    <3>1. PICK weg \in DATEI, s \in SERIALS \cup {KEIN}, u \in SUBJEKTE, t \in TONNEN :
             Anfragen(a, weg, s, u, t)
      BY <1>0, <1>5, NeuSchritt
    <3> QED BY <3>1 DEF Anfragen, Gestoert
  <2>2. b \in ungestoert'
    BY <1>1, <1>3, <1>4, <1>5, <2>1
  <2>3. phase'[a] \notin BESTANDEN /\ ~Unterwegs(a)'
    <3>1. phase[a] \notin BESTANDEN /\ ~Unterwegs(a)
      BY <1>5 DEF IInv, Verankert, BESTANDEN, GESENDET, BESTAETIGT
    <3> QED BY <1>0, <1>5, <3>1, PhaseSchritt
  <2> QED BY <1>4, <1>5, <2>2, <2>3
<1>6. CASE b \in vorher[a] /\ (phase[a] \in {"fragt", "beantwortet"} => ~Gestoert("ledger"))
  <2>1. /\ phase[a] # "neu" /\ eingabe[a].weg = "ledger"
        /\ phase[a] \in {"fragt", "beantwortet"} => b \in ungestoert
        /\ phase[a] \in BESTANDEN \/ Unterwegs(a) => satz[a].serial # satz[b].serial
    BY <1>6 DEF VorherInv
  <2>2. eingabe'[a] = eingabe[a]
    BY <1>0, <2>1, Fest
  <2>3. phase'[a] # "neu"
    BY <1>0, <2>1, NeuSchritt
  <2>4. ASSUME phase'[a] \in {"fragt", "beantwortet"} PROVE b \in ungestoert'
    <3>1. phase[a] \in {"fragt", "beantwortet"}
      BY <1>0, <2>1, <2>4, PhaseSchritt
    <3> QED BY <1>1, <1>3, <1>4, <1>6, <2>1, <3>1
  <2>5. ASSUME phase'[a] \in BESTANDEN \/ Unterwegs(a)' PROVE satz'[a].serial # satz'[b].serial
    <3>1. CASE phase[a] \in BESTANDEN \/ Unterwegs(a)
      <4>1. phase[a] \notin {"neu", "fragt"}
        BY <3>1 DEF IInv, Verankert, BESTANDEN, GESENDET, BESTAETIGT
      <4> QED BY <1>0, <1>4, <2>1, <3>1, <4>1, Fest
    <3>2. CASE ~(phase[a] \in BESTANDEN \/ Unterwegs(a))
      <4>1. phase'[a] \in BESTANDEN
        BY <1>0, <2>5, <3>2, PhaseSchritt DEF BESTANDEN
      <4>2. phase[a] = "beantwortet" /\ Pruefen(a)
        BY <1>0, <3>2, <4>1, PhaseSchritt
      <4>3. satz[a].serial # satz[b].serial
        BY <1>4, <1>6, <2>1, <4>1, <4>2, PruefenUnterscheidet
      <4> QED BY <1>0, <1>4, <4>2, <4>3, Fest
    <3> QED BY <3>1, <3>2
  <2> QED BY <1>4, <2>1, <2>2, <2>3, <2>4, <2>5
<1> QED BY <1>1, <1>4, <1>5, <1>6

(* Both histories stay true beside the service.                            *)
LEMMA Geschichte == MCSpec => [](IInv /\ Eingetragen /\ VorherInv)
<1>1. MCInit => IInv /\ Eingetragen /\ VorherInv
  <2> SUFFICES ASSUME MCInit PROVE Eingetragen /\ VorherInv
    BY IInvInit DEF MCInit
  <2>1. vorher = [a \in ANFRAGEN |-> {}] /\ ungestoert = {}
    BY DEF MCInit
  <2> QED BY <2>1 DEF VorherInv, Eingetragen
<1>2. ASSUME IInv, [MCNext]_<<vars, ungestoert, vorher>> PROVE IInv'
  <2>1. [Next]_vars
    BY <1>2 DEF MCNext
  <2> QED
    BY <1>2, <2>1, TypSchritt, BesuchTypSchritt, SatzEchtSchritt, BestandenSchritt, VerankertSchritt,
       VorgangSchritt, LedgerSchritt, GruenSchritt DEF IInv
<1>3. IInv /\ Eingetragen /\ VorherInv /\ [MCNext]_<<vars, ungestoert, vorher>>
        => (IInv /\ Eingetragen /\ VorherInv)'
  BY <1>2, EingetragenSchritt, VorherSchritt
<1> QED BY <1>1, <1>3, PTL DEF MCSpec

(* A request that is through has its row in ledger or register until the   *)
(* next failure of that file or its process, also when earlier failures    *)
(* took rows of others.                                                    *)
THEOREM FertigImmerEingetragen == MCSpec => []FertigIstEingetragen
<1>1. IInv /\ Eingetragen => FertigIstEingetragen
  <2> SUFFICES ASSUME IInv, Eingetragen, NEW a \in ungestoert, schreibt[eingabe[a].weg] = KEIN
               PROVE  IF eingabe[a].weg = "ledger" THEN \E e \in Inhalt("ledger") : e.serial = satz[a].serial
                      ELSE \E e \in Inhalt("register") : e.hashHex = Hash(a)
    BY DEF FertigIstEingetragen
  <2>1. HatZeile(a) /\ a \in ANFRAGEN /\ phase[a] = "fertig"
    BY DEF Eingetragen
  <2>2. eingabe[a].weg \in DATEI
    BY <2>1 DEF IInv, Typ
  <2>3. \E e \in Inhalt(eingabe[a].weg) :
          Schluessel(eingabe[a].weg, e) = Schluessel(eingabe[a].weg, Eintrag(a, eingabe[a].weg))
    BY <2>1 DEF HatZeile, Stand
  <2>4. CASE eingabe[a].weg = "ledger"
    BY <2>3, <2>4 DEF Schluessel, Eintrag
  <2>5. CASE eingabe[a].weg = "register"
    BY <2>3, <2>5 DEF Schluessel, Eintrag
  <2> QED BY <2>2, <2>4, <2>5 DEF DATEI
<1> QED BY <1>1, Geschichte, PTL

(* One serial, one proof - of requests made one after the other: unless    *)
(* the ledger fails in between, a request of the service made when another *)
(* is through never gets a proof of its serial onto the chain, whatever    *)
(* else runs.                                                              *)
THEOREM NacheinanderImmerNurEinmal == MCSpec => []NacheinanderNurEinmal
<1>1. IInv /\ VorherInv => NacheinanderNurEinmal
  <2> SUFFICES ASSUME IInv, VorherInv, NEW a \in DOMAIN kette, NEW b \in vorher[a]
               PROVE  kette[a].serial # satz[b].serial
    BY DEF NacheinanderNurEinmal
  <2>1. a \in ANFRAGEN /\ kette[a] = Hash(a) /\ Unterwegs(a)
    BY MemoGueltig DEF Unterwegs
  <2>2. satz[a].serial # satz[b].serial
    BY <2>1 DEF VorherInv
  <2> QED BY <2>1, <2>2 DEF Hash
<1> QED BY <1>1, Geschichte, PTL
=============================================================================
