----------------------------- MODULE Orderbuch -----------------------------
(***************************************************************************)
(* The limit order book of engine/src/buch.rs, data structure and all:     *)
(* orders lie in numbered slots, the slots of a price level hang in a      *)
(* doubly linked list (oldest first), a set of occupied ticks and a cached *)
(* best tick per side lead to the next level, freed slots go on a stack.   *)
(*                                                                         *)
(* A call of limit() or markt() is not one step: it begins with the checks *)
(* (Limit, Markt), then every turn of the matching loop is a step of its   *)
(* own (GeberBleibt, GeberVerbraucht) and the call ends by leaving a rest  *)
(* in the book (Legen) or dropping it (OhneRest).  The matcher is a single *)
(* thread, so no other call starts before the running one has ended; the   *)
(* steps show every state the loop passes through.                         *)
(*                                                                         *)
(* The two sides are the strings KAUF and VERKAUF where the code has a     *)
(* bool and pairs of fields (kauf_stufen / verk_stufen, ...).  KEIN stands *)
(* for u32::MAX in a link and for None in an Option.                       *)
(***************************************************************************)
EXTENDS Integers, Sequences, FiniteSets

CONSTANTS
    TICKS,       \* number of price levels, the argument of neu()
    U64,         \* 2^64: u64 sums wrap modulo U64 (release build, no checks)
    MAX_ORDERS,  \* bound: order numbers the model hands out
    MENGEN       \* bound: the quantities callers submit

ASSUME TicksAnnahme     == TICKS \in Nat \ {0}
ASSUME U64Annahme       == U64 \in Nat \ {0}
ASSUME MaxOrdersAnnahme == MAX_ORDERS \in Nat
ASSUME MengenAnnahme    == MENGEN \subseteq 0 .. U64 - 1

KEIN      == -1
KAUF      == "kauf"
VERKAUF   == "verkauf"
SEITE     == {KAUF, VERKAUF}
TICK      == 0 .. TICKS - 1
MENGE     == 0 .. U64 - 1
OID       == 0 .. MAX_ORDERS          \* 0 is never handed out
SLOT      == 0 .. MAX_ORDERS - 1
VERWEIS   == SLOT \cup {KEIN}
GUELTIGKEIT == {"Gtc", "Ioc", "NurLegen"}

Knoten == [oid : OID, menge : MENGE, tick : TICK, seite : SEITE,
           weiter : VERWEIS, zurueck : VERWEIS]
Stufe  == [kopf : VERWEIS, fuss : VERWEIS, summe : MENGE]
LEER   == [kopf |-> KEIN, fuss |-> KEIN, summe |-> 0]

Ausfuehrung == [tick : TICK, menge : MENGE, nehmer : OID, geber : OID,
                nehmer_kauft : BOOLEAN]

(* What a call returns: an Ergebnis of limit/markt, or the Option<u64> of  *)
(* stornieren.                                                             *)
Ergebnis  == [oid : OID \cup {KEIN}, ausgefuehrt : MENGE, ruhend : MENGE,
              abgelehnt : BOOLEAN]
Storniert == [storniert : MENGE \cup {KEIN}]
ABGELEHNT == [oid |-> KEIN, ausgefuehrt |-> 0, ruhend |-> 0, abgelehnt |-> TRUE]
OFFEN     == [offen |-> TRUE]         \* a call is running, or none was made yet

(* The arguments and locals of the call in progress: `menge` is the rest   *)
(* still to match, `bleibt` says that a rest may stay in the book (a limit *)
(* order that is not Ioc).  oid 0: no call in progress.                    *)
Nehmer == [oid : OID, seite : SEITE, grenze : TICK, eingang : MENGE,
           menge : MENGE, bleibt : BOOLEAN]
NIEMAND == [oid |-> 0, seite |-> KAUF, grenze |-> 0, eingang |-> 0,
            menge |-> 0, bleibt |-> FALSE]

VARIABLES
    stufen,                \* kauf_stufen, verk_stufen
    belegt,                \* kauf_belegt, verk_belegt: the ticks whose bit is set
    beste,                 \* bester_kauf, bester_verkauf (cached)
    knoten,                \* the slots; those from `laenge` on are not pushed yet
    laenge,                \* knoten.len()
    frei,                  \* stack of freed slots
    platz,                 \* order number -> slot
    naechste_oid,
    anzahl_ausfuehrungen,
    volumen,
    ruhende_orders,
    nehmer,                \* the running call of limit/markt
    aus,                   \* its executions (callers clear `aus` before a call)
    antwort                \* what the last call returned; OFFEN while one is running

ablage == <<knoten, laenge, frei, platz>>
leiter == <<stufen, belegt, beste>>
zaehler == <<anzahl_ausfuehrungen, volumen, ruhende_orders>>
vars == <<ablage, leiter, zaehler, naechste_oid, nehmer, aus, antwort>>
-----------------------------------------------------------------------------
Gegenseite(s) == IF s = KAUF THEN VERKAUF ELSE KAUF

(* Tick t is at least as good as u for whoever takes from side s.          *)
NichtSchlechter(s, t, u) == IF s = VERKAUF THEN t <= u ELSE t >= u

(* Order number -> "does it rest in the book?"                             *)
liegt(o) == o \in OID /\ platz[o] # KEIN

(* A slot that some order number points to.                                *)
Lebt(x) == platz[knoten[x].oid] = x
Lebende == {x \in SLOT : Lebt(x)}
AufStufe(x, s, t) == Lebt(x) /\ knoten[x].seite = s /\ knoten[x].tick = t

(* The words of the bit field scanned from a tick up or down.              *)
TiefsterAb(B, von) ==
    LET U == {t \in B : t >= von}
    IN  IF U = {} THEN KEIN ELSE CHOOSE t \in U : \A u \in U : t <= u
HoechsterBis(B, von) ==
    LET U == {t \in B : t <= von}
    IN  IF U = {} THEN KEIN ELSE CHOOSE t \in U : \A u \in U : t >= u

(* Mutant: the highest tick is taken for the end of the field.             *)
NaechsteBesteOhneRand(s, B, t) ==
    IF s = VERKAUF
    THEN IF t + 1 < TICKS - 1 THEN TiefsterAb(B, t + 1) ELSE KEIN
    ELSE IF t > 0 THEN HoechsterBis(B, t - 1) ELSE KEIN

(* The best tick after level t of side s has been emptied and its bit      *)
(* cleared; B is what is still occupied.                                   *)
NaechsteBeste(s, B, t) ==
    IF s = VERKAUF
    THEN IF t + 1 < TICKS THEN TiefsterAb(B, t + 1) ELSE KEIN
    ELSE IF t > 0 THEN HoechsterBis(B, t - 1) ELSE KEIN

Ruhig == nehmer.oid = 0

(* Mutant: an opposite order at the very same tick is not seen as a cross. *)
WuerdeKreuzenStreng(s, t) ==
    LET b == beste[Gegenseite(s)]
    IN  b # KEIN /\ b # t /\ NichtSchlechter(Gegenseite(s), b, t)

(* Would a limit order on side s at tick t cross the other side?           *)
WuerdeKreuzen(s, t) ==
    LET b == beste[Gegenseite(s)]
    IN  b # KEIN /\ NichtSchlechter(Gegenseite(s), b, t)

(* The head of the matching loop: something left to match, and the best    *)
(* opposite level is within the taker's limit.                             *)
Weiter == ~Ruhig /\ nehmer.menge > 0 /\ WuerdeKreuzen(nehmer.seite, nehmer.grenze)

Init ==
    /\ stufen = [s \in SEITE |-> [t \in TICK |-> LEER]]
    /\ belegt = [s \in SEITE |-> {}]
    /\ beste = [s \in SEITE |-> KEIN]
    /\ knoten = [x \in SLOT |-> [oid |-> 0, menge |-> 0, tick |-> 0, seite |-> KAUF,
                                 weiter |-> KEIN, zurueck |-> KEIN]]
    /\ laenge = 0
    /\ frei = <<>>
    /\ platz = [o \in OID |-> KEIN]
    /\ naechste_oid = 1
    /\ anzahl_ausfuehrungen = 0
    /\ volumen = 0
    /\ ruhende_orders = 0
    /\ nehmer = NIEMAND
    /\ aus = <<>>
    /\ antwort = OFFEN
-----------------------------------------------------------------------------
(* Mutant: NurLegen is not checked against the other side.                 *)
LimitUnzulaessigOhneNurLegen(s, t, q, g) == q = 0 \/ t >= TICKS

(* limit() turns an order away: no quantity, no such tick, or a NurLegen   *)
(* order that would take.                                                  *)
LimitUnzulaessig(s, t, q, g) ==
    \/ q = 0
    \/ t >= TICKS
    \/ g = "NurLegen" /\ WuerdeKreuzen(s, t)

LimitAblehnen(s, t, q, g) ==
    /\ Ruhig
    /\ LimitUnzulaessig(s, t, q, g)
    /\ antwort' = ABGELEHNT
    /\ aus' = <<>>
    /\ UNCHANGED <<ablage, leiter, zaehler, naechste_oid, nehmer>>

(* A new taker gets the next order number and enters the matching loop.    *)
Beginnen(s, grenze, q, bleibt) ==
    /\ naechste_oid <= MAX_ORDERS        \* bound of the model
    /\ nehmer' = [oid |-> naechste_oid, seite |-> s, grenze |-> grenze,
                  eingang |-> q, menge |-> q, bleibt |-> bleibt]
    /\ naechste_oid' = naechste_oid + 1
    /\ aus' = <<>>
    /\ antwort' = OFFEN
    /\ UNCHANGED <<ablage, leiter, zaehler>>

Limit(s, t, q, g) ==
    /\ Ruhig
    /\ ~LimitUnzulaessig(s, t, q, g)
    /\ Beginnen(s, t, q, g # "Ioc")

Markt(s, q) ==
    /\ Ruhig
    /\ q # 0
    /\ Beginnen(s, IF s = KAUF THEN TICKS - 1 ELSE 0, q, FALSE)

MarktAblehnen(q) ==
    /\ Ruhig
    /\ q = 0
    /\ antwort' = ABGELEHNT
    /\ aus' = <<>>
    /\ UNCHANGED <<ablage, leiter, zaehler, naechste_oid, nehmer>>
-----------------------------------------------------------------------------
(* One turn of the inner loop of ausfuehren() takes from the head of the   *)
(* best opposite level.                                                    *)
GeberSeite == Gegenseite(nehmer.seite)
GeberTick  == beste[GeberSeite]
Geber      == stufen[GeberSeite][GeberTick].kopf

(* Mutant: the volume grows by what the taker wants, not by what it gets.  *)
VerbuchenWunsch(m) ==
    /\ nehmer' = [nehmer EXCEPT !.menge = @ - m]
    /\ aus' = Append(aus, [tick |-> GeberTick, menge |-> m, nehmer |-> nehmer.oid,
                           geber |-> knoten[Geber].oid,
                           nehmer_kauft |-> nehmer.seite = KAUF])
    /\ anzahl_ausfuehrungen' = anzahl_ausfuehrungen + 1
    /\ volumen' = (volumen + nehmer.menge) % U64

Verbuchen(m) ==
    /\ nehmer' = [nehmer EXCEPT !.menge = @ - m]
    /\ aus' = Append(aus, [tick |-> GeberTick, menge |-> m, nehmer |-> nehmer.oid,
                           geber |-> knoten[Geber].oid,
                           nehmer_kauft |-> nehmer.seite = KAUF])
    /\ anzahl_ausfuehrungen' = anzahl_ausfuehrungen + 1
    /\ volumen' = (volumen + m) % U64

(* The maker offers more than the taker still wants.                       *)
GeberBleibt ==
    /\ Weiter
    /\ nehmer.menge < knoten[Geber].menge
    /\ Verbuchen(nehmer.menge)
    /\ knoten' = [knoten EXCEPT ![Geber].menge = @ - nehmer.menge]
    /\ stufen' = [stufen EXCEPT ![GeberSeite][GeberTick].summe =
                    (@ - nehmer.menge) % U64]
    /\ UNCHANGED <<laenge, frei, platz, belegt, beste, ruhende_orders,
                   naechste_oid, antwort>>

(* kopf_entfernen(): the level's list without its head, and the head's     *)
(* successor without a predecessor.                                        *)
OhneKopf(st, w, m) ==
    [kopf |-> w, fuss |-> IF w = KEIN THEN KEIN ELSE st.fuss,
     summe |-> (st.summe - m) % U64]

(* Mutant: the new head keeps its link to the slot that has just left.     *)
NeuerKopfMitVorgaenger(k) == k
NeuerKopf(k) == [k EXCEPT !.zurueck = KEIN]

(* The maker is used up: it leaves the list and its slot becomes free; a   *)
(* level left empty loses its bit and the next best one is looked up.      *)
GeberVerbraucht ==
    LET s == GeberSeite
        t == GeberTick
        x == Geber
        m == knoten[x].menge
        w == knoten[x].weiter
        B == belegt[s] \ {t}
    IN  /\ Weiter
        /\ nehmer.menge >= m
        /\ Verbuchen(m)
        /\ knoten' = [y \in SLOT |->
                        IF y = x THEN [knoten[y] EXCEPT !.menge = 0]
                        ELSE IF y = w THEN NeuerKopf(knoten[y]) ELSE knoten[y]]
        /\ stufen' = [stufen EXCEPT ![s][t] = OhneKopf(stufen[s][t], w, m)]
        /\ platz' = [platz EXCEPT ![knoten[x].oid] = KEIN]
        /\ frei' = Append(frei, x)
        /\ ruhende_orders' = ruhende_orders - 1
        /\ IF w = KEIN
           THEN /\ belegt' = [belegt EXCEPT ![s] = B]
                /\ beste' = [beste EXCEPT ![s] = NaechsteBeste(s, B, t)]
           ELSE UNCHANGED <<belegt, beste>>
        /\ UNCHANGED <<laenge, naechste_oid, antwort>>
-----------------------------------------------------------------------------
(* limit() and markt() return after the loop.                              *)
Antworten(oid, ruhend) ==
    /\ antwort' = [oid |-> oid, ausgefuehrt |-> nehmer.eingang - nehmer.menge,
                   ruhend |-> ruhend, abgelehnt |-> FALSE]
    /\ nehmer' = NIEMAND
    /\ UNCHANGED <<naechste_oid, aus, anzahl_ausfuehrungen, volumen>>

(* Nothing is left, or what is left expires (Ioc, market order).           *)
OhneRest ==
    /\ ~Ruhig
    /\ ~Weiter
    /\ nehmer.menge = 0 \/ ~nehmer.bleibt
    /\ Antworten(KEIN, 0)
    /\ UNCHANGED <<ablage, leiter, ruhende_orders>>

(* Mutant: the slot freed first is handed out, the one freed last popped.  *)
FreierSlotErster == IF frei = <<>> THEN laenge ELSE frei[1]

(* slot_holen(): the slot freed last, or a new one at the end.             *)
FreierSlot == IF frei = <<>> THEN laenge ELSE frei[Len(frei)]

SlotHolen ==
    IF frei = <<>>
    THEN laenge' = laenge + 1 /\ frei' = frei
    ELSE frei' = SubSeq(frei, 1, Len(frei) - 1) /\ laenge' = laenge

(* Mutants: the sum does not wrap; the newcomer always becomes the head.   *)
MitFussOhneUmlauf(st, x, m) ==
    [kopf |-> IF st.kopf = KEIN THEN x ELSE st.kopf, fuss |-> x, summe |-> st.summe + m]
MitFussVorne(st, x, m) ==
    [kopf |-> x, fuss |-> x, summe |-> (st.summe + m) % U64]

(* A level with slot x at its end.                                         *)
MitFuss(st, x, m) ==
    [kopf |-> IF st.kopf = KEIN THEN x ELSE st.kopf, fuss |-> x,
     summe |-> (st.summe + m) % U64]

(* legen(): the rest goes to the end of its level's list; the first order  *)
(* of a level sets the bit and may become the best.                        *)
Legen ==
    LET s == nehmer.seite
        t == nehmer.grenze
        x == FreierSlot
        f == stufen[s][t].fuss
        leer == stufen[s][t].kopf = KEIN
        neu == [oid |-> nehmer.oid, menge |-> nehmer.menge, tick |-> t, seite |-> s,
                weiter |-> KEIN, zurueck |-> IF leer THEN KEIN ELSE f]
    IN  /\ ~Ruhig
        /\ ~Weiter
        /\ nehmer.menge > 0
        /\ nehmer.bleibt
        /\ SlotHolen
        /\ knoten' = [y \in SLOT |->
                        IF y = x THEN neu
                        ELSE IF ~leer /\ y = f THEN [knoten[y] EXCEPT !.weiter = x]
                        ELSE knoten[y]]
        /\ platz' = [platz EXCEPT ![nehmer.oid] = x]
        /\ stufen' = [stufen EXCEPT ![s][t] = MitFuss(stufen[s][t], x, nehmer.menge)]
        /\ belegt' = [belegt EXCEPT ![s] = IF leer THEN @ \cup {t} ELSE @]
        /\ beste' = [beste EXCEPT ![s] =
                        IF leer /\ (@ = KEIN \/ ~NichtSchlechter(s, @, t)) THEN t ELSE @]
        /\ ruhende_orders' = ruhende_orders + 1
        /\ Antworten(nehmer.oid, nehmer.menge)
-----------------------------------------------------------------------------
(* Mutant: the level's sum still counts the cancelled order.               *)
OhneSlotMitMenge(st, x) ==
    [kopf  |-> IF st.kopf = x THEN knoten[x].weiter ELSE st.kopf,
     fuss  |-> IF st.fuss = x THEN knoten[x].zurueck ELSE st.fuss,
     summe |-> st.summe]

(* stornieren() unlinks an order wherever it stands in its list.           *)
OhneSlot(st, x) ==
    [kopf  |-> IF st.kopf = x THEN knoten[x].weiter ELSE st.kopf,
     fuss  |-> IF st.fuss = x THEN knoten[x].zurueck ELSE st.fuss,
     summe |-> (st.summe - knoten[x].menge) % U64]

Stornieren(o) ==
    LET x == platz[o]
        k == knoten[x]
        s == k.seite
        t == k.tick
        B == belegt[s] \ {t}
        danach == OhneSlot(stufen[s][t], x)
    IN  /\ Ruhig
        /\ liegt(o)
        /\ knoten' = [y \in SLOT |->
                        IF y = k.zurueck THEN [knoten[y] EXCEPT !.weiter = k.weiter]
                        ELSE IF y = k.weiter THEN [knoten[y] EXCEPT !.zurueck = k.zurueck]
                        ELSE knoten[y]]
        /\ stufen' = [stufen EXCEPT ![s][t] = danach]
        /\ platz' = [platz EXCEPT ![o] = KEIN]
        /\ frei' = Append(frei, x)
        /\ ruhende_orders' = ruhende_orders - 1
        /\ IF danach.kopf = KEIN
           THEN /\ belegt' = [belegt EXCEPT ![s] = B]
                /\ beste' = IF beste[s] = t
                            THEN [beste EXCEPT ![s] = NaechsteBeste(s, B, t)] ELSE beste
           ELSE UNCHANGED <<belegt, beste>>
        /\ antwort' = [storniert |-> k.menge]
        /\ aus' = <<>>
        /\ UNCHANGED <<laenge, naechste_oid, nehmer, anzahl_ausfuehrungen, volumen>>

(* An order number that is unknown or no longer rests.                     *)
StornierenVergeblich(o) ==
    /\ Ruhig
    /\ ~liegt(o)
    /\ antwort' = [storniert |-> KEIN]
    /\ aus' = <<>>
    /\ UNCHANGED <<ablage, leiter, zaehler, naechste_oid, nehmer>>

Aufruf ==
    \/ \E s \in SEITE, t \in 0 .. TICKS, q \in MENGEN, g \in GUELTIGKEIT :
            Limit(s, t, q, g) \/ LimitAblehnen(s, t, q, g)
    \/ \E s \in SEITE, q \in MENGEN : Markt(s, q)
    \/ \E q \in MENGEN : MarktAblehnen(q)
    \/ \E o \in 0 .. MAX_ORDERS + 1 : Stornieren(o) \/ StornierenVergeblich(o)

Fortsetzung == GeberBleibt \/ GeberVerbraucht \/ OhneRest \/ Legen

Next == Aufruf \/ Fortsetzung

Spec == Init /\ [][Next]_vars
-----------------------------------------------------------------------------
(* Every variable has its type; in particular every link is a slot or      *)
(* KEIN, every cached best is a tick or KEIN, and a taker's rest is no     *)
(* more than it submitted.                                                 *)
TypeOK ==
    /\ stufen \in [SEITE -> [TICK -> Stufe]]
    /\ belegt \in [SEITE -> SUBSET TICK]
    /\ beste \in [SEITE -> TICK \cup {KEIN}]
    /\ knoten \in [SLOT -> Knoten]
    /\ laenge \in 0 .. MAX_ORDERS
    /\ frei \in Seq(SLOT)
    /\ platz \in [OID -> VERWEIS]
    /\ naechste_oid \in 1 .. MAX_ORDERS + 1
    /\ anzahl_ausfuehrungen \in Nat
    /\ volumen \in MENGE
    /\ ruhende_orders \in Nat
    /\ nehmer \in Nehmer /\ nehmer.menge <= nehmer.eingang
    /\ aus \in Seq(Ausfuehrung)
    /\ antwort \in Ergebnis \cup Storniert \cup {OFFEN}

(* The index from order numbers to slots never leads to a foreign order    *)
(* although slots are reused: what it points to carries that very number   *)
(* and a quantity.  The taker of the running call does not rest yet.       *)
PlatzStimmt ==
    /\ \A o \in OID : platz[o] # KEIN =>
            /\ 0 < o /\ o < naechste_oid /\ o # nehmer.oid
            /\ platz[o] < laenge
            /\ knoten[platz[o]].oid = o
            /\ knoten[platz[o]].menge > 0
    /\ ~Ruhig => nehmer.oid = naechste_oid - 1

(* Slots are never shared or lost: a slot on the free stack is on it once  *)
(* and belongs to no resting order, and every pushed slot is either free   *)
(* or in use.                                                              *)
FreiStimmt ==
    /\ \A i \in 1 .. Len(frei) : frei[i] < laenge /\ ~Lebt(frei[i])
    /\ \A i, j \in 1 .. Len(frei) : frei[i] = frei[j] => i = j
    /\ laenge < naechste_oid
    /\ ~Ruhig => laenge + 1 < naechste_oid
KeinSlotVerloren ==
    \A x \in SLOT : x < laenge => Lebt(x) \/ \E i \in 1 .. Len(frei) : frei[i] = x

(* The links of a level's list agree with each other in both directions    *)
(* and with the level's head and tail.                                     *)
Nachbarn(x) ==
    LET k == knoten[x]
    IN  /\ k.weiter # KEIN =>
             /\ AufStufe(k.weiter, k.seite, k.tick)
             /\ knoten[k.weiter].zurueck = x
             /\ k.oid < knoten[k.weiter].oid
        /\ k.zurueck # KEIN =>
             /\ AufStufe(k.zurueck, k.seite, k.tick)
             /\ knoten[k.zurueck].weiter = x
        /\ k.weiter = KEIN => stufen[k.seite][k.tick].fuss = x
        /\ k.zurueck = KEIN => stufen[k.seite][k.tick].kopf = x
Enden(s, t) ==
    LET st == stufen[s][t]
    IN  /\ st.kopf = KEIN <=> st.fuss = KEIN
        /\ st.kopf # KEIN => AufStufe(st.kopf, s, t) /\ knoten[st.kopf].zurueck = KEIN
        /\ st.fuss # KEIN => AufStufe(st.fuss, s, t) /\ knoten[st.fuss].weiter = KEIN
ZeigerStimmen ==
    /\ \A x \in SLOT : Lebt(x) => Nachbarn(x)
    /\ \A s \in SEITE, t \in TICK : Enden(s, t)

(* Time priority in the data structure: following the list of a level from *)
(* its head visits all resting orders of the level, oldest first.          *)
SelbeStufe(x, z) == knoten[x].seite = knoten[z].seite /\ knoten[x].tick = knoten[z].tick
ZeitOrdnung ==
    /\ \A x, z \in SLOT :
            Lebt(x) /\ Lebt(z) /\ SelbeStufe(x, z) /\ knoten[x].oid < knoten[z].oid
            => /\ knoten[x].weiter # KEIN
               /\ knoten[knoten[x].weiter].oid <= knoten[z].oid
    /\ \A x \in SLOT : Lebt(x) =>
            LET kopf == stufen[knoten[x].seite][knoten[x].tick].kopf
            IN  kopf # KEIN /\ knoten[kopf].oid <= knoten[x].oid

(* A bit is set exactly for the levels that hold an order.                 *)
BelegtStimmt ==
    \A s \in SEITE, t \in TICK : t \in belegt[s] <=> stufen[s][t].kopf # KEIN

(* The cached best is the best occupied tick.                              *)
BesteAusBelegt ==
    \A s \in SEITE :
        /\ beste[s] = KEIN => belegt[s] = {}
        /\ beste[s] # KEIN =>
              beste[s] \in belegt[s] /\ \A t \in belegt[s] : NichtSchlechter(s, beste[s], t)
StufenGekreuztNie ==
    \A k \in belegt[KAUF], v \in belegt[VERKAUF] : k < v

(* The number of resting orders the book reports is the number it holds.   *)
RuhendeGezaehlt == ruhende_orders = Cardinality({o \in OID : platz[o] # KEIN})

(* The inductive invariant behind the theorems of OrderbuchBeweis.         *)
IInv ==
    /\ TypeOK
    /\ PlatzStimmt
    /\ FreiStimmt
    /\ KeinSlotVerloren
    /\ ZeigerStimmen
    /\ ZeitOrdnung
    /\ BelegtStimmt
    /\ BesteAusBelegt
    /\ StufenGekreuztNie
    /\ RuhendeGezaehlt
-----------------------------------------------------------------------------
(* The book is never crossed (the assertion of the test                    *)
(* buch_bleibt_bilanziert), not even between two turns of the matching     *)
(* loop: every resting bid is below every resting offer.                   *)
NichtGekreuzt ==
    \A x, y \in SLOT :
        Lebt(x) /\ Lebt(y) /\ knoten[x].seite = KAUF /\ knoten[y].seite = VERKAUF
        => knoten[x].tick < knoten[y].tick

(* bester_kauf() and bester_verkauf() name the best price any resting      *)
(* order of the side has, and None only if there is no such order.         *)
BesteStimmt ==
    \A s \in SEITE :
        /\ beste[s] # KEIN => \E x \in SLOT : AufStufe(x, s, beste[s])
        /\ \A x \in SLOT : Lebt(x) /\ knoten[x].seite = s =>
              beste[s] # KEIN /\ NichtSchlechter(s, beste[s], knoten[x].tick)

(* Whoever executes has priority: when an order gives quantity to a taker, *)
(* no resting order of its side has a better price, and none at the same   *)
(* price came earlier (buch.rs, "Preis-Zeit-Vorrang").                     *)
HatVorrang(o) ==
    /\ liegt(o)
    /\ \A x \in SLOT : Lebt(x) /\ knoten[x].seite = knoten[platz[o]].seite =>
          /\ NichtSchlechter(knoten[x].seite, knoten[platz[o]].tick, knoten[x].tick)
          /\ knoten[x].tick = knoten[platz[o]].tick => o <= knoten[x].oid
PreisZeitVorrang ==
    [][Len(aus') > Len(aus) =>
          /\ HatVorrang(aus'[Len(aus')].geber)
          /\ aus'[Len(aus')].tick = knoten[platz[aus'[Len(aus')].geber]].tick]_vars

(* Order numbers are for one life: what left the book never rests again,   *)
(* and a resting order keeps its side and price and only shrinks.          *)
NieWiederbelebt ==
    [][\A o \in OID :
          /\ o < naechste_oid /\ o # nehmer.oid /\ ~liegt(o) => platz'[o] = KEIN
          /\ liegt(o) /\ platz'[o] # KEIN =>
                LET vorher == knoten[platz[o]]
                    jetzt == knoten'[platz'[o]]
                IN  /\ jetzt.oid = o
                    /\ jetzt.seite = vorher.seite /\ jetzt.tick = vorher.tick
                    /\ jetzt.menge <= vorher.menge]_vars
=============================================================================
