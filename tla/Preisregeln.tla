---------------------------- MODULE Preisregeln ----------------------------
(***************************************************************************)
(* The rules of price-time priority on a set R of resting orders           *)
(* [oid, seite, tick, menge]: what a call of limit() or markt() turns      *)
(* away, executes and leaves behind.  The state machines that use them are *)
(* PreisZeit, the contract of the book, and Hip2, one of its callers.      *)
(***************************************************************************)
EXTENDS Integers, FiniteSets, FiniteSetsExt

CONSTANT TICKS

KEIN == -1
SEITE == {"kauf", "verkauf"}
GUELTIGKEIT == {"Gtc", "Ioc", "NurLegen"}

(* The arguments of limit() and markt().                                   *)
LimitAuftrag(s, t, q, g) ==
    [art |-> "limit", seite |-> s, tick |-> t, menge |-> q, gueltigkeit |-> g]
MarktAuftrag(s, q) == [art |-> "markt", seite |-> s, menge |-> q]
AuftraegeUeber(Q) ==
    {LimitAuftrag(s, t, q, g) : s \in SEITE, t \in 0 .. TICKS, q \in Q, g \in GUELTIGKEIT}
        \cup {MarktAuftrag(s, q) : s \in SEITE, q \in Q}

(* The worst price a taker accepts, and whether its rest stays.            *)
Grenze(a) ==
    IF a.art = "limit" THEN a.tick ELSE IF a.seite = "kauf" THEN TICKS - 1 ELSE 0
Bleibt(a) == a.art = "limit" /\ a.gueltigkeit # "Ioc"

(* An order of side s at tick t is at least as good as one at tick u.      *)
NichtSchlechter(s, t, u) == IF s = "verkauf" THEN t <= u ELSE t >= u

(* Of two orders of one side, a is served before b.                        *)
Vorrang(a, b) ==
    IF a.tick = b.tick THEN a.oid < b.oid ELSE NichtSchlechter(a.seite, a.tick, b.tick)

Summe(R) == SumFunction([r \in R |-> r.menge])

(* The orders a taker may take from, up to its limit.                      *)
Erreichbar(R, a) ==
    {r \in R : r.seite # a.seite /\ NichtSchlechter(r.seite, r.tick, Grenze(a))}

(* What order r of R gives to a taker.                                     *)
Gibt(R, a, r) ==
    LET davor == Summe({z \in Erreichbar(R, a) : Vorrang(z, r)})
    IN  IF davor >= a.menge THEN 0 ELSE Min({r.menge, a.menge - davor})

(* What limit() and markt() turn away.                                     *)
Abzulehnen(R, a) ==
    \/ a.menge = 0
    \/ /\ a.art = "limit"
       /\ \/ a.tick >= TICKS
          \/ a.gueltigkeit = "NurLegen" /\ Erreichbar(R, a) # {}

(* What is left of an accepted call, and what of it stays in the book.     *)
Rest(R, a) == a.menge - Min({a.menge, Summe(Erreichbar(R, a))})
Ruhend(R, a) == IF Bleibt(a) THEN Rest(R, a) ELSE 0

Ausfuehrungen(R, a, oid) ==
    {[tick |-> r.tick, menge |-> Gibt(R, a, r), nehmer |-> oid, geber |-> r.oid,
      nehmer_kauft |-> a.seite = "kauf"] :
        r \in {z \in Erreichbar(R, a) : Gibt(R, a, z) > 0}}

(* The book after an accepted call that got the number oid.                *)
Danach(R, a, oid) ==
    (R \ Erreichbar(R, a))
      \cup {[r EXCEPT !.menge = @ - Gibt(R, a, r)] :
              r \in {z \in Erreichbar(R, a) : Gibt(R, a, z) < z.menge}}
      \cup (IF Ruhend(R, a) > 0
            THEN {[oid |-> oid, seite |-> a.seite, tick |-> Grenze(a), menge |-> Rest(R, a)]}
            ELSE {})

(* The book without the order oid.                                         *)
Ohne(R, oid) == {r \in R : r.oid # oid}
=============================================================================
