---------------------------- MODULE MCOrderbuch ----------------------------
(***************************************************************************)
(* Model checking that Orderbuch does what PreisZeit promises.  History    *)
(* variables record what the code does not keep: the orders that rested    *)
(* when the running call began, and the arguments of a call.               *)
(***************************************************************************)
EXTENDS Orderbuch, FiniteSetsExt, SequencesExt

VARIABLES
    vor,        \* the orders resting before the running call
    anfrage,    \* the arguments of the running call
    storno,     \* the order the last call was to cancel
    zurecht     \* PreisZeit, too, turns away (takes) what the book turned away (took)

mcvars == <<vars, vor, anfrage, storno, zurecht>>

(* The resting orders as callers see them.                                 *)
OrderIn(x) == [oid |-> knoten[x].oid, seite |-> knoten[x].seite,
               tick |-> knoten[x].tick, menge |-> knoten[x].menge]
RuhendeOrders == {OrderIn(x) : x \in Lebende}

(* Callers see nothing of a running call: until it ends, the abstract book *)
(* is the one before it.                                                   *)
PZ == INSTANCE PreisZeit WITH
    ruhend <- IF Ruhig THEN RuhendeOrders ELSE vor,
    ausfuehrungen <- IF Ruhig THEN Range(aus) ELSE {},
    naechste_oid <- IF Ruhig THEN naechste_oid ELSE nehmer.oid

MCInit ==
    /\ Init
    /\ vor = {}
    /\ anfrage = PZ!KEINE
    /\ storno = KEIN
    /\ zurecht = TRUE

(* A call with arguments a that is taken or turned away.                   *)
Annahme(a) ==
    /\ vor' = RuhendeOrders
    /\ anfrage' = a
    /\ storno' = KEIN
    /\ zurecht' = ~PZ!Unzulaessig(a)
Abweisung(a) ==
    /\ storno' = KEIN
    /\ zurecht' = PZ!Unzulaessig(a)
    /\ UNCHANGED <<vor, anfrage>>

(* The running call goes on, perhaps to its end.                           *)
Verlauf ==
    /\ vor' = IF Ruhig' THEN {} ELSE vor
    /\ anfrage' = IF Ruhig' THEN PZ!KEINE ELSE anfrage
    /\ UNCHANGED <<storno, zurecht>>

MCNext ==
    \/ \E s \in SEITE, t \in 0 .. TICKS, q \in MENGEN, g \in GUELTIGKEIT :
          \/ Limit(s, t, q, g) /\ Annahme(PZ!LimitAuftrag(s, t, q, g))
          \/ LimitAblehnen(s, t, q, g) /\ Abweisung(PZ!LimitAuftrag(s, t, q, g))
    \/ \E s \in SEITE, q \in MENGEN : Markt(s, q) /\ Annahme(PZ!MarktAuftrag(s, q))
    \/ \E q \in MENGEN : MarktAblehnen(q) /\ Abweisung(PZ!MarktAuftrag(KAUF, q))
    \/ \E o \in 0 .. MAX_ORDERS + 1 :
          /\ Stornieren(o) \/ StornierenVergeblich(o)
          /\ storno' = o
          /\ UNCHANGED <<vor, anfrage, zurecht>>
    \/ Fortsetzung /\ Verlauf

MCSpec == MCInit /\ [][MCNext]_mcvars

(* The linked lists, bits and cached bests of buch.rs together do what the *)
(* atomic price-time book does: the same orders rest, and every call gets  *)
(* the same executions and the same answer.                                *)
ImplementiertPreisZeit == PZ!Spec

(* A call is turned away exactly when the book as callers see it demands   *)
(* it: in particular NurLegen, decided in buch.rs by a cached best tick,   *)
(* never takes and is never refused without an order in reach.             *)
NurZurechtAbgelehnt == zurecht
=============================================================================
