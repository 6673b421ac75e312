------------------------------ MODULE Nachweis ------------------------------
(***************************************************************************)
(* The proof service of oracle/: a request is checked against a credit     *)
(* registry and a ledger against double counting (verify.ts, ledger.ts),   *)
(* the hash of its evidence is written to the chain, and then a row is     *)
(* written to one of two files, which names the way the request goes:      *)
(*                                                                         *)
(*   "ledger"    the service of README_verify.md: registerImpact writes    *)
(*               the chain, ledger.commit enters the serial;               *)
(*   "register"  demo-daten.ts and test-pruefseite.ts: anchorProof writes  *)
(*               a memo (chain-memo.ts), proofStore.add enters the hash    *)
(*               (proof-store.ts).  Their ledger is a file of their own    *)
(*               that nobody writes.                                       *)
(*                                                                         *)
(* A second server, verify-server.ts, answers visitors of the check page   *)
(* from the register and the chain.                                        *)
(*                                                                         *)
(* One Node process writes each of the files: what it runs between two     *)
(* awaits is one step, and its requests interleave at the awaits.  The     *)
(* files are JSON that a write first truncates (schreibt): until it is     *)
(* through nothing else of that process runs, but the other processes do.  *)
(* A read or a write may fail, and the process may die (stoerungen).       *)
(*                                                                         *)
(* The hash of a piece of evidence is the evidence itself (SHA-256 has no  *)
(* collisions).  A request sends one transaction; its signature is named   *)
(* by the request.                                                         *)
(***************************************************************************)
EXTENDS Integers, FiniteSets

CONSTANTS
    ANFRAGEN,        \* requests, of the service and of the scripts
    SERIALS,         \* serials, some of them in the registry
    SUBJEKTE,        \* whom a proof is attributed to
    TONNEN,          \* bound: amounts claimed
    BESTAND,         \* serial |-> the amount its row of the registry states
    LESBAR,          \* the serials whose amount Number() can read
    TOLERANZ,        \* the 1e-9 of verify.ts, in the unit of the amounts
    REQUIRE_RETIRED, \* the environment variable of verify.ts
    MAX_STOERUNGEN,  \* bound: failures of files and processes
    FAELSCHUNGEN,    \* bound: rows somebody else may put into the register
    MAX_EINTRAEGE,   \* bound: rows of the register when that happens
    KEIN,            \* nothing
    KEINE_ZAHL,      \* NaN
    KAPUTT           \* a truncated file: JSON.parse throws

ASSUME BestandAnnahme == DOMAIN BESTAND \subseteq SERIALS /\ LESBAR \subseteq DOMAIN BESTAND
                         /\ \A s \in DOMAIN BESTAND : BESTAND[s] \in Nat
ASSUME TonnenAnnahme  == TONNEN \subseteq Nat /\ TOLERANZ \in Nat
ASSUME GrenzenAnnahme == MAX_STOERUNGEN \in Nat /\ MAX_EINTRAEGE \in Nat /\ REQUIRE_RETIRED \in BOOLEAN

DATEI  == {"ledger", "register"}      \* used-serials.json, proofs.json

(* normalise(): what Number() makes of the amount a row states.            *)
Zahl(s) == IF s \in LESBAR THEN BESTAND[s] ELSE KEINE_ZAHL

(* What evidence a serial can have: the documents a visitor may hold.      *)
DOKUMENTE ==
    {d \in [serial : DOMAIN BESTAND, quantityTonnes : {Zahl(s) : s \in DOMAIN BESTAND},
            retired : BOOLEAN, subject : SUBJEKTE] :
        d.quantityTonnes = Zahl(d.serial) /\ (REQUIRE_RETIRED => d.retired)}

(* The rows of the two files: Entry of ledger.ts, ProofEntry of            *)
(* proof-store.ts.                                                         *)
ZEILEN(d) ==
    IF d = "ledger" THEN [serial : SERIALS, subject : SUBJEKTE, txSig : ANFRAGEN]
    ELSE [hashHex : DOKUMENTE, signature : ANFRAGEN]

ASSUME FaelschungenAnnahme == FAELSCHUNGEN \subseteq ZEILEN("register")

(* The markers are told apart from what they stand beside: KEINE_ZAHL from *)
(* numbers, KAPUTT from sets of rows, KEIN from a write in progress.       *)
ASSUME MarkenAnnahme ==
    /\ \A s \in DOMAIN BESTAND : BESTAND[s] # KEINE_ZAHL
    /\ \A d \in DATEI : \A R \in SUBSET ZEILEN(d) : R # KAPUTT
    /\ \A d \in DATEI : KEIN \notin [neu : SUBSET ZEILEN(d), wer : ANFRAGEN]

VARIABLES
    phase,      \* where each request is
    eingabe,    \* its VerifyInput, and the way it goes
    satz,       \* the RegistryRecord it was given
    stillgelegt,\* the serials whose row normalise() reads as retired
    unterwegs,  \* transactions sent and not yet decided
    kette,      \* signature |-> hash: what is on the chain
    datei,      \* the rows of each file, or KAPUTT
    schreibt,   \* the write in progress on each file: [neu, wer], or KEIN
    stoerungen, \* failures of each file and of its process
    besuch      \* the visitor's check: [phase, hash, eintrag, status]

anfrage == <<phase, eingabe, satz>>
vars == <<anfrage, stillgelegt, unterwegs, kette, datei, schreibt, stoerungen, besuch>>

Init ==
    /\ phase = [a \in ANFRAGEN |-> "neu"]
    /\ eingabe = [a \in ANFRAGEN |-> KEIN]
    /\ satz = [a \in ANFRAGEN |-> KEIN]
    /\ stillgelegt \in SUBSET DOMAIN BESTAND
    /\ unterwegs = {}
    /\ kette = [a \in {} |-> KEIN]
    /\ datei = [d \in DATEI |-> {}]
    /\ schreibt = [d \in DATEI |-> KEIN]
    /\ stoerungen = [d \in DATEI |-> 0]
    /\ besuch = [phase |-> "frei", hash |-> KEIN, eintrag |-> KEIN, status |-> KEIN]
-----------------------------------------------------------------------------
Stoerung(d) ==
    /\ stoerungen["ledger"] + stoerungen["register"] < MAX_STOERUNGEN   \* bound of the model
    /\ stoerungen' = [stoerungen EXCEPT ![d] = @ + 1]

(* What is in a file: nothing, if it cannot be parsed.                     *)
Inhalt(d) == IF datei[d] = KAPUTT THEN {} ELSE datei[d]

(* load() answers R: the rows of the file - or none, whatever the reason   *)
(* for which the file cannot be read.                                      *)
load(d, R) ==
    \/ R = Inhalt(d) /\ UNCHANGED stoerungen
    \/ R = {} /\ Inhalt(d) # {} /\ Stoerung(d)

Weiter(a, p) == phase' = [phase EXCEPT ![a] = p]

(* The event loop of its process runs a step of request a in phase p.      *)
AnDerReihe(a, p) == phase[a] = p /\ schreibt[eingabe[a].weg] = KEIN

(* verifyEvidence() up to the lookup: the amount must be positive, and     *)
(* there must be a serial.                                                 *)
Anfragen(a, weg, serial, subject, tonnen) ==
    /\ phase[a] = "neu" /\ schreibt[weg] = KEIN
    /\ eingabe' = [eingabe EXCEPT ![a] =
                     [weg |-> weg, serial |-> serial, subject |-> subject, tonnen |-> tonnen]]
    /\ Weiter(a, IF tonnen > 0 /\ serial # KEIN THEN "fragt" ELSE "abgelehnt")
    /\ UNCHANGED <<satz, stillgelegt, unterwegs, kette, datei, schreibt, stoerungen, besuch>>

(* lookup(): the registry answers with the row of the serial, or none...   *)
Nachschlagen(a) ==
    LET s == eingabe[a].serial
    IN  /\ phase[a] = "fragt"
        /\ satz' = [satz EXCEPT ![a] =
                      IF s \in DOMAIN BESTAND
                      THEN [serial |-> s, quantityTonnes |-> Zahl(s),
                            retired |-> s \in stillgelegt]
                      ELSE KEIN]
        /\ Weiter(a, "beantwortet")
        /\ UNCHANGED <<eingabe, stillgelegt, unterwegs, kette, datei, schreibt, stoerungen, besuch>>

(* ... or the lookup throws.                                               *)
NachschlagenScheitert(a) ==
    /\ AnDerReihe(a, "fragt")
    /\ Weiter(a, "abgelehnt")
    /\ UNCHANGED <<eingabe, satz, stillgelegt, unterwegs, kette, datei, schreibt, stoerungen, besuch>>

(* The test of step 3; no comparison with NaN is true.                     *)
ZuKlein(menge, tonnen) == menge # KEINE_ZAHL /\ menge + TOLERANZ < tonnen

(* Mutant: the record may be of a live credit.                             *)
GueltigOhneStilllegung(a) ==
    /\ satz[a] # KEIN
    /\ ~ZuKlein(satz[a].quantityTonnes, eingabe[a].tonnen)

(* Steps 1 to 3 of verifyEvidence() on the answer.                         *)
Gueltig(a) ==
    /\ satz[a] # KEIN
    /\ REQUIRE_RETIRED => satz[a].retired
    /\ ~ZuKlein(satz[a].quantityTonnes, eingabe[a].tonnen)

(* Mutant: the answer of the ledger is not looked at.                      *)
UnbenutztImmer(a, R) == TRUE

(* Step 4, ledger.has() on the rows that load() answered.                  *)
Unbenutzt(a, R) == \A e \in R : e.serial # satz[a].serial

(* Steps 1 to 4: only the service has a ledger with anything in it.        *)
Pruefen(a) ==
    /\ AnDerReihe(a, "beantwortet")
    /\ \/ ~Gueltig(a) /\ Weiter(a, "abgelehnt") /\ UNCHANGED stoerungen
       \/ /\ Gueltig(a) /\ eingabe[a].weg = "ledger"
          /\ \E R \in {Inhalt("ledger"), {}} :
                load("ledger", R) /\ Weiter(a, IF Unbenutzt(a, R) THEN "geprueft" ELSE "abgelehnt")
       \/ /\ Gueltig(a) /\ eingabe[a].weg = "register"
          /\ Weiter(a, "geprueft") /\ UNCHANGED stoerungen
    /\ UNCHANGED <<eingabe, satz, stillgelegt, unterwegs, kette, datei, schreibt, besuch>>

(* canonicalEvidence(), and its hash: the record and the subject, but not  *)
(* the amount claimed.                                                     *)
Hash(a) == [serial |-> satz[a].serial, quantityTonnes |-> satz[a].quantityTonnes,
            retired |-> satz[a].retired, subject |-> eingabe[a].subject]
-----------------------------------------------------------------------------
(* anchorProof() - or registerImpact() - sends the transaction...          *)
Verankern(a) ==
    /\ AnDerReihe(a, "geprueft")
    /\ Weiter(a, "gesendet")
    /\ unterwegs' = unterwegs \cup {a}
    /\ UNCHANGED <<eingabe, satz, stillgelegt, kette, datei, schreibt, stoerungen, besuch>>

(* ... which lands on the chain or expires...                              *)
Aufnehmen(a) ==
    /\ a \in unterwegs
    /\ kette' = [b \in DOMAIN kette \cup {a} |-> IF b = a THEN Hash(a) ELSE kette[b]]
    /\ unterwegs' = unterwegs \ {a}
    /\ UNCHANGED <<anfrage, stillgelegt, datei, schreibt, stoerungen, besuch>>
Verfallen(a) ==
    /\ a \in unterwegs
    /\ unterwegs' = unterwegs \ {a}
    /\ UNCHANGED <<anfrage, stillgelegt, kette, datei, schreibt, stoerungen, besuch>>

(* Mutant: the signature is returned when the transaction has been sent.   *)
BestaetigenVorher(a) ==
    /\ AnDerReihe(a, "gesendet")
    /\ Weiter(a, "bestaetigt")
    /\ UNCHANGED <<eingabe, satz, stillgelegt, unterwegs, kette, datei, schreibt, stoerungen, besuch>>

(* ... and the call returns the signature once it is confirmed, or throws: *)
(* also when the transaction lands later or has landed unseen.             *)
Bestaetigen(a) ==
    /\ AnDerReihe(a, "gesendet")
    /\ a \in DOMAIN kette
    /\ Weiter(a, "bestaetigt")
    /\ UNCHANGED <<eingabe, satz, stillgelegt, unterwegs, kette, datei, schreibt, stoerungen, besuch>>
Unbestaetigt(a) ==
    /\ AnDerReihe(a, "gesendet")
    /\ Weiter(a, "unbestaetigt")
    /\ UNCHANGED <<eingabe, satz, stillgelegt, unterwegs, kette, datei, schreibt, stoerungen, besuch>>
-----------------------------------------------------------------------------
(* The rows that keep a new one out: the same serial, the same hash.       *)
SchonEingetragen(d, R, e) ==
    \E r \in R : IF d = "ledger" THEN r.serial = e.serial ELSE r.hashHex = e.hashHex

(* Mutant: the signature, which is optional, is left out.                  *)
EintragOhneSignatur(a, d) ==
    IF d = "ledger"
    THEN [serial |-> satz[a].serial, subject |-> eingabe[a].subject, txSig |-> KEIN]
    ELSE [hashHex |-> Hash(a), signature |-> a]

(* The row of request a.                                                   *)
Eintrag(a, d) ==
    IF d = "ledger"
    THEN [serial |-> satz[a].serial, subject |-> eingabe[a].subject, txSig |-> a]
    ELSE [hashHex |-> Hash(a), signature |-> a]

(* ledger.commit() or proofStore.add(): load, look for the key, and save;  *)
(* saving truncates the file, or throws before it does.                    *)
CommitOderAdd(a, d) ==
    /\ AnDerReihe(a, "bestaetigt") /\ d = eingabe[a].weg
    /\ \E R \in {Inhalt(d), {}} :
          /\ load(d, R)
          /\ \/ /\ SchonEingetragen(d, R, Eintrag(a, d))
                /\ Weiter(a, "fertig") /\ UNCHANGED <<datei, schreibt>>
             \/ /\ ~SchonEingetragen(d, R, Eintrag(a, d))
                /\ datei' = [datei EXCEPT ![d] = KAPUTT]
                /\ schreibt' = [schreibt EXCEPT ![d] = [neu |-> R \cup {Eintrag(a, d)}, wer |-> a]]
                /\ UNCHANGED phase
             \/ /\ ~SchonEingetragen(d, R, Eintrag(a, d))
                /\ Weiter(a, "abgebrochen") /\ UNCHANGED <<datei, schreibt>>
    /\ UNCHANGED <<eingabe, satz, stillgelegt, unterwegs, kette, besuch>>

(* The rest of save(): the rows are written...                             *)
Schreiben(d) ==
    /\ schreibt[d] # KEIN
    /\ datei' = [datei EXCEPT ![d] = schreibt[d].neu]
    /\ Weiter(schreibt[d].wer, "fertig")
    /\ schreibt' = [schreibt EXCEPT ![d] = KEIN]
    /\ UNCHANGED <<eingabe, satz, stillgelegt, unterwegs, kette, stoerungen, besuch>>

(* Mutant: the error is caught, as it is in load().                        *)
SchreibenScheitertStumm(d) ==
    /\ schreibt[d] # KEIN
    /\ Stoerung(d)
    /\ Weiter(schreibt[d].wer, "fertig")
    /\ schreibt' = [schreibt EXCEPT ![d] = KEIN]
    /\ UNCHANGED <<eingabe, satz, stillgelegt, unterwegs, kette, datei, besuch>>

(* ... or writeFileSync throws, say for want of space: the file stays      *)
(* truncated, and the process goes on with its other requests.             *)
SchreibenScheitert(d) ==
    /\ schreibt[d] # KEIN
    /\ Stoerung(d)
    /\ Weiter(schreibt[d].wer, "abgebrochen")
    /\ schreibt' = [schreibt EXCEPT ![d] = KEIN]
    /\ UNCHANGED <<eingabe, satz, stillgelegt, unterwegs, kette, datei, besuch>>

(* The process that writes file d dies, and with it every request it was   *)
(* working on; a file it was writing stays truncated, transactions it has  *)
(* sent go on.                                                             *)
Absturz(d) ==
    /\ Stoerung(d)
    /\ phase' = [a \in ANFRAGEN |->
                   IF phase[a] \in {"fragt", "beantwortet", "geprueft", "gesendet", "bestaetigt"}
                      /\ eingabe[a].weg = d
                   THEN "verloren" ELSE phase[a]]
    /\ schreibt' = [schreibt EXCEPT ![d] = KEIN]
    /\ UNCHANGED <<eingabe, satz, stillgelegt, unterwegs, kette, datei, besuch>>

(* A credit is retired, for good.                                          *)
Stilllegen(s) ==
    /\ s \notin stillgelegt
    /\ stillgelegt' = stillgelegt \cup {s}
    /\ UNCHANGED <<anfrage, unterwegs, kette, datei, schreibt, stoerungen, besuch>>
-----------------------------------------------------------------------------
(* pruefen() of verify-server.ts: the register is read, by whatever it     *)
(* shows at that moment...                                                 *)
Fragen(h) ==
    /\ besuch.phase = "frei"
    /\ \E R \in {Inhalt("register"), {}} :
          LET E == {e \in R : e.hashHex = h}
          IN  besuch' = IF E = {} THEN [phase |-> "beantwortet", hash |-> h, eintrag |-> KEIN,
                                        status |-> "unbekannt"]
                        ELSE [phase |-> "wartet", hash |-> h, eintrag |-> CHOOSE e \in E : TRUE,
                              status |-> KEIN]
    /\ UNCHANGED <<anfrage, stillgelegt, unterwegs, kette, datei, schreibt, stoerungen>>

(* Mutant: the register is believed.                                       *)
StatusOhneVergleich(h, sig) == "registriert"

(* ... and what it says is compared with the memo on the chain: readProof, *)
(* which finds none in a transaction of registerImpact.                    *)
Status(h, sig) ==
    IF sig \notin DOMAIN kette THEN "kette_offline"
    ELSE IF eingabe[sig].weg # "register" \/ kette[sig] # h THEN "abweichung"
    ELSE "registriert"

Gegenpruefen ==
    /\ besuch.phase = "wartet"
    /\ besuch' = [besuch EXCEPT !.phase = "beantwortet",
                                !.status = Status(besuch.hash, besuch.eintrag.signature)]
    /\ UNCHANGED <<anfrage, stillgelegt, unterwegs, kette, datei, schreibt, stoerungen>>
KetteUnerreichbar ==
    /\ besuch.phase = "wartet"
    /\ besuch' = [besuch EXCEPT !.phase = "beantwortet", !.status = "kette_offline"]
    /\ UNCHANGED <<anfrage, stillgelegt, unterwegs, kette, datei, schreibt, stoerungen>>

(* What the page pruefen.html shows for an answer.                         *)
Anzeige(status) ==
    IF status = "registriert" THEN "Registriert und unveraendert"
    ELSE IF status = "abweichung" THEN "Veraendert"
    ELSE "Nicht registriert"

(* The visitor has read the page, and another one comes.                   *)
Gehen ==
    /\ besuch.phase = "beantwortet"
    /\ besuch' = [phase |-> "frei", hash |-> KEIN, eintrag |-> KEIN, status |-> KEIN]
    /\ UNCHANGED <<anfrage, stillgelegt, unterwegs, kette, datei, schreibt, stoerungen>>

(* The register is a plain file: a row may come to name another            *)
(* transaction, or be added (verify-server.ts: never trust our own         *)
(* register).                                                              *)
RegisterVerfaelschen(e) ==
    LET andere == {f \in Inhalt("register") : f.hashHex # e.hashHex}
    IN  /\ schreibt["register"] = KEIN
        /\ Cardinality(andere) < MAX_EINTRAEGE          \* bound of the model
        /\ datei' = [datei EXCEPT !["register"] = andere \cup {e}]
        /\ UNCHANGED <<anfrage, stillgelegt, unterwegs, kette, schreibt, stoerungen, besuch>>

Schritt(a) ==
    \/ Nachschlagen(a)
    \/ NachschlagenScheitert(a)
    \/ Pruefen(a)
    \/ Verankern(a)
    \/ Bestaetigen(a)
    \/ Unbestaetigt(a)
    \/ \E d \in DATEI : CommitOderAdd(a, d)

Next ==
    \/ \E a \in ANFRAGEN :
          \/ \E weg \in DATEI, s \in SERIALS \cup {KEIN}, u \in SUBJEKTE, t \in TONNEN :
                Anfragen(a, weg, s, u, t)
          \/ Schritt(a)
          \/ Aufnehmen(a)
          \/ Verfallen(a)
    \/ \E d \in DATEI : Schreiben(d) \/ SchreibenScheitert(d) \/ Absturz(d)
    \/ \E s \in DOMAIN BESTAND : Stilllegen(s)
    \/ \E h \in DOKUMENTE : Fragen(h)
    \/ Gegenpruefen
    \/ KetteUnerreichbar
    \/ Gehen
    \/ \E e \in FAELSCHUNGEN : RegisterVerfaelschen(e)

Spec == Init /\ [][Next]_vars
-----------------------------------------------------------------------------
TypeOK ==
    /\ phase \in [ANFRAGEN -> {"neu", "abgelehnt", "fragt", "beantwortet", "geprueft", "gesendet",
                               "bestaetigt", "unbestaetigt", "fertig", "abgebrochen", "verloren"}]
    /\ stillgelegt \subseteq DOMAIN BESTAND
    /\ unterwegs \subseteq ANFRAGEN
    /\ DOMAIN datei = DATEI /\ \A d \in DATEI : Inhalt(d) \subseteq ZEILEN(d)
    /\ DOMAIN kette \subseteq ANFRAGEN \ unterwegs
    /\ \A a \in DOMAIN kette : kette[a] \in DOKUMENTE
    /\ stoerungen \in [DATEI -> 0 .. MAX_STOERUNGEN]

(* What is on the chain is the proof of a credit of the registry, a        *)
(* retired one, and of at least the amount claimed if the registry's       *)
(* amount can be read (verify.ts) - whatever has changed since the         *)
(* registry answered, and whether or not the request that sent it is       *)
(* still alive.                                                            *)
VerankertIstBelegt ==
    \A a \in DOMAIN kette :
        /\ kette[a].serial \in DOMAIN BESTAND
        /\ kette[a].serial \in LESBAR => eingabe[a].tonnen <= BESTAND[kette[a].serial] + TOLERANZ
        /\ REQUIRE_RETIRED => kette[a].serial \in stillgelegt

(* The ledger turns a serial away only if a proof of it is on the chain:   *)
(* every row names a transaction that has landed, for that serial and      *)
(* subject; and a serial has one row (ledger.commit, whatever load()       *)
(* answers it).                                                            *)
LedgerGedeckt ==
    /\ \A e \in Inhalt("ledger") :
          /\ e.txSig \in DOMAIN kette
          /\ kette[e.txSig].serial = e.serial /\ kette[e.txSig].subject = e.subject
    /\ \A e, f \in Inhalt("ledger") : e.serial = f.serial => e = f

(* Whoever is told "registered and unchanged" holds a document whose hash  *)
(* is in a memo on the chain, even if the register has been tampered with  *)
(* while the visitor was waiting (pruefen of verify-server.ts).            *)
GruenIstVerankert ==
    besuch.phase = "beantwortet" /\ Anzeige(besuch.status) = "Registriert und unveraendert" =>
        \E a \in DOMAIN kette : eingabe[a].weg = "register" /\ kette[a] = besuch.hash

(* ledger.ts: one serial backs at most one proof - of the service, which   *)
(* is the one that keeps the ledger.                                       *)
EinNachweisJeSerial ==
    \A a, b \in DOMAIN kette :
        eingabe[a].weg = "ledger" /\ eingabe[b].weg = "ledger"
        /\ kette[a].serial = kette[b].serial => a = b

(* README_verify.md: a retired part may carry a smaller proof, never a     *)
(* larger one.  The amount is the one the row of the registry states.      *)
NieGroesser ==
    \A a \in DOMAIN kette : eingabe[a].tonnen <= BESTAND[kette[a].serial] + TOLERANZ

(* pruefen.html: where the page says that there is no entry for the        *)
(* document, the register has shown none.                                  *)
KeinEintragHeisstKeiner ==
    besuch.phase = "beantwortet" /\ Anzeige(besuch.status) = "Nicht registriert" =>
        besuch.eintrag = KEIN
=============================================================================
