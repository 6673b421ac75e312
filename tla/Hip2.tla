-------------------------------- MODULE Hip2 --------------------------------
(***************************************************************************)
(* The market maker of engine/src/hip.rs (Hyperliquiditaet) in an order    *)
(* book that follows Preisregeln.  A ladder of price levels quotes a buy   *)
(* below and a sell above a dividing line; executions move its inventory,  *)
(* and a refresh every TAKT_SEKUNDEN redistributes the levels.             *)
(*                                                                         *)
(* The caller is the one of main.rs (hip2_vorfuehrung): it places the      *)
(* ladder, books all executions of a call right after it, and refreshes.   *)
(* A refresh visits one level per step; one thread does it all, so nothing *)
(* comes in between.  Levels are numbered from 1.                          *)
(***************************************************************************)
EXTENDS Preisregeln

CONSTANTS
    START_PREIS, N_ORDERS, ORDER_GROESSE, N_GESAET,     \* the arguments of neu()
    SCHRITT_PROMILLE, TAKT_SEKUNDEN,
    U32,            \* 2^32: the width of a tick
    FREMDMENGEN,    \* bound: quantities of the other traders' orders
    MAX_FREMDE      \* bound: orders of theirs that rest at a time

ASSUME LeiterAnnahme ==
    /\ N_ORDERS \in Nat \ {0} /\ ORDER_GROESSE \in Nat \ {0}
    /\ N_GESAET \in 0 .. N_ORDERS
    /\ START_PREIS \in Nat /\ SCHRITT_PROMILLE \in Nat
ASSUME BreiteAnnahme == U32 \in Nat \ {0} /\ TICKS \in Nat /\ TAKT_SEKUNDEN \in Nat
ASSUME FremdAnnahme == FREMDMENGEN \subseteq Nat /\ MAX_FREMDE \in Nat

VARIABLES
    ruhend, naechste_oid,           \* the book
    liegend, ist_kauf,              \* per level: its order number, its side
    basis_bestand, quote_bestand,   \* the inventory
    seit,                           \* seconds since the last refresh, at most TAKT_SEKUNDEN
    lauf, dran, grenze,             \* the loop that is running, its level, the dividing line
    eigene                          \* history: the order numbers the ladder was given

buch == <<ruhend, naechste_oid>>
bestand == <<basis_bestand, quote_bestand>>
vars == <<buch, liegend, ist_kauf, bestand, seit, lauf, dran, grenze, eigene>>

STUFEN == 1 .. N_ORDERS

(* The price of level i, rounded; at tiny prices at least one more than    *)
(* the one below.                                                          *)
preise[i \in STUFEN] ==
    IF i = 1 THEN START_PREIS
    ELSE LET p == (preise[i - 1] * SCHRITT_PROMILLE + 500) \div 1000
         IN  IF p <= preise[i - 1] THEN preise[i - 1] + 1 ELSE p

SeiteVon(kauf) == IF kauf THEN "kauf" ELSE "verkauf"

(* Mutant: plain subtraction.                                              *)
saturating_subOhneGrenze(x, y) == x - y

(* x minus y, not below zero.                                              *)
saturating_sub(x, y) == IF y > x THEN 0 ELSE x - y

Init ==
    /\ ruhend = {}
    /\ naechste_oid = 1
    /\ liegend = [i \in STUFEN |-> KEIN]
    /\ ist_kauf = [i \in STUFEN |-> i <= N_GESAET]
    /\ basis_bestand = (N_ORDERS - N_GESAET) * ORDER_GROESSE
    /\ quote_bestand = 0
    /\ seit = TAKT_SEKUNDEN
    /\ lauf = "stellen"
    /\ dran = 1
    /\ grenze = N_GESAET
    /\ eigene = {}
-----------------------------------------------------------------------------
(* Mutants: the order may take; the price is one too high.                 *)
StufenAuftragGtc(i, kauf) ==
    LimitAuftrag(SeiteVon(kauf), preise[i] % U32, ORDER_GROESSE, "Gtc")
StufenAuftragDaneben(i, kauf) ==
    LimitAuftrag(SeiteVon(kauf), (preise[i] % U32) + 1, ORDER_GROESSE, "NurLegen")

(* What stufe_stellen asks of the book: only place, never take.            *)
StufenAuftrag(i, kauf) ==
    LimitAuftrag(SeiteVon(kauf), preise[i] % U32, ORDER_GROESSE, "NurLegen")

(* limit() in book R with its answer stored.                               *)
StufeLegen(R, i, kauf) ==
    LET a == StufenAuftrag(i, kauf)
    IN  IF Abzulehnen(R, a)
        THEN /\ ruhend' = R
             /\ liegend' = [liegend EXCEPT ![i] = KEIN]
             /\ UNCHANGED <<naechste_oid, eigene>>
        ELSE /\ ruhend' = Danach(R, a, naechste_oid)
             /\ liegend' = [liegend EXCEPT ![i] =
                              IF Ruhend(R, a) > 0 THEN naechste_oid ELSE KEIN]
             /\ naechste_oid' = naechste_oid + 1
             /\ eigene' = eigene \cup {naechste_oid}

(* The loops of stellen() and aktualisieren() go on, or end.               *)
NaechsteStufe ==
    /\ dran' = IF dran = N_ORDERS THEN 1 ELSE dran + 1
    /\ lauf' = IF dran = N_ORDERS THEN "ruht" ELSE lauf

(* One level of stellen().                                                 *)
Stellen ==
    /\ lauf = "stellen"
    /\ IF liegend[dran] # KEIN
       THEN UNCHANGED <<buch, liegend, eigene>>
       ELSE StufeLegen(ruhend, dran, ist_kauf[dran])
    /\ NaechsteStufe
    /\ UNCHANGED <<ist_kauf, bestand, seit, grenze>>

(* Mutant: a level begun counts as full.                                   *)
VerkaufStufenAufgerundet ==
    Min({(basis_bestand + ORDER_GROESSE - 1) \div ORDER_GROESSE, N_ORDERS})

(* How many levels the inventory can fill.                                 *)
VerkaufStufen == Min({basis_bestand \div ORDER_GROESSE, N_ORDERS})

(* aktualisieren() begins; before its time it does nothing.                *)
Aktualisieren ==
    /\ lauf = "ruht"
    /\ seit = TAKT_SEKUNDEN
    /\ seit' = 0
    /\ grenze' = N_ORDERS - VerkaufStufen
    /\ lauf' = "aktualisieren"
    /\ UNCHANGED <<buch, liegend, ist_kauf, bestand, dran, eigene>>

(* Mutant: only a level that changes sides is placed again.                *)
NeuZuLegenBeiWechsel(i) == ist_kauf[i] # (i <= grenze)

NeuZuLegen(i) == ist_kauf[i] # (i <= grenze) \/ liegend[i] = KEIN

(* Mutant: the number is forgotten, the order stays.                       *)
OhneStufeVergessen(i) == ruhend

(* stufe_ziehen: the book without the order of level i.                    *)
OhneStufe(i) == Ohne(ruhend, liegend[i])

(* One level of aktualisieren().                                           *)
StufeAktualisieren ==
    /\ lauf = "aktualisieren"
    /\ IF NeuZuLegen(dran)
       THEN /\ ist_kauf' = [ist_kauf EXCEPT ![dran] = dran <= grenze]
            /\ StufeLegen(OhneStufe(dran), dran, dran <= grenze)
       ELSE UNCHANGED <<buch, liegend, ist_kauf, eigene>>
    /\ NaechsteStufe
    /\ UNCHANGED <<bestand, seit, grenze>>
-----------------------------------------------------------------------------
(* ausfuehrung_verbuchen finds the level an execution has hit, if any.     *)
Getroffen(A, i) == {x \in A : x.geber = liegend[i]}
MengeVon(A, kauf) ==
    Summe(UNION {Getroffen(A, i) : i \in {j \in STUFEN : ist_kauf[j] = kauf}})
WertVon(A, kauf) ==
    SumFunction([i \in {j \in STUFEN : ist_kauf[j] = kauf} |->
                   preise[i] * Summe(Getroffen(A, i))])

(* The inventory once the executions A are booked.                         *)
BestandNach(A) == saturating_sub(basis_bestand + MengeVon(A, TRUE), MengeVon(A, FALSE))

(* Another trader calls limit() or markt(), and the executions are booked. *)
Handeln(a) ==
    LET A == Ausfuehrungen(ruhend, a, naechste_oid)
    IN  /\ lauf = "ruht"
        /\ ~Abzulehnen(ruhend, a)
        /\ Ruhend(ruhend, a) > 0 =>        \* bound of the model
              Cardinality({r \in ruhend : r.oid \notin eigene}) < MAX_FREMDE
        /\ ruhend' = Danach(ruhend, a, naechste_oid)
        /\ naechste_oid' = naechste_oid + 1
        /\ basis_bestand' = BestandNach(A)
        /\ quote_bestand' = saturating_sub(quote_bestand, WertVon(A, TRUE)) + WertVon(A, FALSE)
        /\ UNCHANGED <<liegend, ist_kauf, seit, lauf, dran, grenze, eigene>>

(* Another trader cancels an order of its own.                             *)
FremdStornieren(o) ==
    /\ lauf = "ruht"
    /\ o \notin eigene
    /\ ruhend' = Ohne(ruhend, o)
    /\ UNCHANGED <<naechste_oid, liegend, ist_kauf, bestand, seit, lauf, dran, grenze, eigene>>

Verstreichen ==
    /\ lauf = "ruht"
    /\ seit < TAKT_SEKUNDEN
    /\ seit' = seit + 1
    /\ UNCHANGED <<buch, liegend, ist_kauf, bestand, lauf, dran, grenze, eigene>>

Next ==
    \/ Stellen
    \/ Aktualisieren
    \/ StufeAktualisieren
    \/ \E a \in AuftraegeUeber(FREMDMENGEN) : Handeln(a)
    \/ \E o \in {r.oid : r \in ruhend} : FremdStornieren(o)
    \/ Verstreichen

Spec == Init /\ [][Next]_vars
-----------------------------------------------------------------------------
OrderVon(i) == {r \in ruhend : r.oid = liegend[i]}
Eigene(kauf) == UNION {OrderVon(i) : i \in {j \in STUFEN : ist_kauf[j] = kauf}}
Fremde == {r \in ruhend : r.oid \notin eigene}

TypeOK ==
    /\ ruhend \subseteq [oid : Nat \ {0}, seite : SEITE, tick : 0 .. TICKS - 1, menge : Nat \ {0}]
    /\ \A r \in ruhend : r.oid < naechste_oid
    /\ naechste_oid \in Nat \ {0}
    /\ liegend \in [STUFEN -> Nat \cup {KEIN}]
    /\ ist_kauf \in [STUFEN -> BOOLEAN]
    /\ basis_bestand \in Nat /\ quote_bestand \in Nat
    /\ seit \in 0 .. TAKT_SEKUNDEN
    /\ lauf \in {"stellen", "aktualisieren", "ruht"} /\ dran \in STUFEN
    /\ grenze \in 0 .. N_ORDERS
    /\ \A o \in eigene : o \in 1 .. naechste_oid - 1

(* What ausfuehrung_verbuchen relies on when it books an execution at      *)
(* preise[i] and by ist_kauf[i], without a look at the execution's own     *)
(* price and side: every order the ladder has in the book is known to one  *)
(* level, rests at its price and on its side, and no stranger's order is   *)
(* taken for one.                                                          *)
Zuordnung ==
    /\ \A r \in ruhend : r.oid \in eigene <=> \E i \in STUFEN : liegend[i] = r.oid
    /\ \A i \in STUFEN : \A r \in OrderVon(i) :
          r.tick = preise[i] /\ r.seite = SeiteVon(ist_kauf[i])
    /\ \A i, j \in STUFEN : liegend[i] = liegend[j] => i = j \/ liegend[i] = KEIN

(* The ladder never offers more than it holds, whatever was executed since *)
(* the last refresh and however far the running one has come; so the       *)
(* saturating subtraction of a sale never cuts anything off.               *)
VerkaufGedeckt == Summe(Eigene(FALSE)) <= basis_bestand

(* Only place, never take: neither stellen() nor aktualisieren() executes  *)
(* against an order of another trader - or against the ladder's own, which *)
(* lie on both sides of levels that are about to change theirs.  All that  *)
(* leaves the book is the order of the level being replaced.               *)
ProtokollNimmtNie ==
    [][lauf # "ruht" => \A r \in ruhend : r.oid # liegend[dran] => r \in ruhend']_vars

(* hip.rs:292: levels that were executed no longer rest in the book and    *)
(* must be placed again.  When a refresh ends, the number a level keeps is *)
(* the number of a resting order.                                          *)
AusgefuehrteKommenWieder ==
    [][lauf = "aktualisieren" /\ lauf' = "ruht" =>
          \A i \in STUFEN : liegend'[i] # KEIN => \E r \in ruhend' : r.oid = liegend'[i]]_vars
=============================================================================
