------------------------------ MODULE PreisZeit ------------------------------
(***************************************************************************)
(* What the order book of engine/src/buch.rs promises to its callers: a    *)
(* set of resting orders, and calls that take effect in one step by the    *)
(* rules of Preisregeln.                                                   *)
(*                                                                         *)
(* A call that is not turned away is seen to begin (Rufen) and to answer   *)
(* (Beantworten), so that the answer is the one to this very call; calls   *)
(* that are turned away and cancellations answer at once.                  *)
(***************************************************************************)
EXTENDS Preisregeln

CONSTANTS MAX_ORDERS, MENGEN

VARIABLES
    ruhend,         \* the resting orders: [oid, seite, tick, menge]
    naechste_oid,
    ausfuehrungen,  \* the executions of the last call
    antwort,        \* what it returned, OFFEN while one is running
    anfrage,        \* the arguments of the call in progress
    storno          \* the order the last call was to cancel

vars == <<ruhend, naechste_oid, ausfuehrungen, antwort, anfrage, storno>>

KEINE == [art |-> "keine"]
OFFEN == [offen |-> TRUE]
ABGELEHNT == [oid |-> KEIN, ausgefuehrt |-> 0, ruhend |-> 0, abgelehnt |-> TRUE]

AUFTRAEGE == AuftraegeUeber(MENGEN)

Unzulaessig(a) == Abzulehnen(ruhend, a)

Init ==
    /\ ruhend = {}
    /\ naechste_oid = 1
    /\ ausfuehrungen = {}
    /\ antwort = OFFEN
    /\ anfrage = KEINE
    /\ storno = KEIN

Ablehnen(a) ==
    /\ anfrage = KEINE
    /\ antwort' = ABGELEHNT
    /\ Unzulaessig(a)
    /\ ausfuehrungen' = {}
    /\ storno' = KEIN
    /\ UNCHANGED <<ruhend, naechste_oid, anfrage>>

Rufen(a) ==
    /\ anfrage = KEINE
    /\ anfrage' = a
    /\ ~Unzulaessig(a)
    /\ antwort' = OFFEN
    /\ ausfuehrungen' = {}
    /\ storno' = KEIN
    /\ UNCHANGED <<ruhend, naechste_oid>>

Beantworten ==
    LET bleibt == Ruhend(ruhend, anfrage)
    IN  /\ anfrage # KEINE
        /\ anfrage' = KEINE
        /\ naechste_oid' = naechste_oid + 1
        /\ ruhend' = Danach(ruhend, anfrage, naechste_oid)
        /\ ausfuehrungen' = Ausfuehrungen(ruhend, anfrage, naechste_oid)
        /\ antwort' = [oid |-> IF bleibt > 0 THEN naechste_oid ELSE KEIN,
                       ausgefuehrt |-> anfrage.menge - Rest(ruhend, anfrage),
                       ruhend |-> bleibt,
                       abgelehnt |-> FALSE]
        /\ UNCHANGED storno

(* Cancelling takes the whole rest out, and answers None for an order that *)
(* does not rest.                                                          *)
Stornieren(o) ==
    LET R == ruhend \ Ohne(ruhend, o)
    IN  /\ anfrage = KEINE
        /\ storno' = o
        /\ ruhend' = Ohne(ruhend, o)
        /\ antwort' = [storniert |-> IF R = {} THEN KEIN ELSE Summe(R)]
        /\ ausfuehrungen' = {}
        /\ UNCHANGED <<naechste_oid, anfrage>>

Next ==
    \/ Beantworten
    \/ \E o \in 0 .. MAX_ORDERS + 1 : Stornieren(o)
    \/ \E a \in AUFTRAEGE : Ablehnen(a) \/ Rufen(a)

Spec == Init /\ [][Next]_vars
=============================================================================
