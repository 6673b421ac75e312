------------------------------ MODULE MCBilanz ------------------------------
(***************************************************************************)
(* Model checking the queues and sums of Orderbuch.  A history variable    *)
(* keeps the balance of all quantities that went in and out.               *)
(***************************************************************************)
EXTENDS Orderbuch, Functions

VARIABLE verbleib   \* accepted - expired - cancelled quantity, modulo U64

bvars == <<vars, verbleib>>

BInit == Init /\ verbleib = 0

Eingang == IF Ruhig /\ ~Ruhig' THEN nehmer'.menge ELSE 0
Verfall == IF ~Ruhig /\ Ruhig' /\ ruhende_orders' = ruhende_orders THEN nehmer.menge ELSE 0
Storno  == IF Ruhig /\ Ruhig' /\ antwort' \in Storniert /\ antwort'.storniert # KEIN
           THEN antwort'.storniert ELSE 0

BNext == Next /\ verbleib' = (verbleib + Eingang - Verfall - Storno) % U64

BSpec == BInit /\ [][BNext]_bvars

(* The quantity resting in the slots of X.                                 *)
MengeIn(X) == SumFunction([x \in X |-> knoten[x].menge])

(* A level's `summe` is the quantity resting on it (menge_auf), modulo the *)
(* width of u64.                                                           *)
SummenStimmen ==
    \A s \in SEITE, t \in TICK :
        stufen[s][t].summe = MengeIn({x \in Lebende : AufStufe(x, s, t)}) % U64

(* No quantity appears or disappears: what was accepted and neither        *)
(* expired nor was cancelled rests, is still being matched, or has been    *)
(* executed, once on each side of the reported volume (the balance of the  *)
(* test buch_bleibt_bilanziert).                                           *)
Bilanz ==
    verbleib = (MengeIn(Lebende) + nehmer.menge + 2 * volumen) % U64
=============================================================================
