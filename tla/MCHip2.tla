------------------------------- MODULE MCHip2 -------------------------------
(***************************************************************************)
(* Model checking Hip2.  History variables record what the ladder's orders *)
(* have bought and sold in the book, and how many refreshes in a row no    *)
(* other trader has disturbed.                                             *)
(***************************************************************************)
EXTENDS Hip2

VARIABLES saldo, ruhige

MCInit == Init /\ saldo = 0 /\ ruhige = 0

(* What rests of the ladder's orders on one side of book R.                *)
RestVon(R, s) == Summe({r \in R : r.oid \in eigene /\ r.seite = s})

MCNext ==
    /\ Next
    /\ saldo' = IF lauf = "ruht"
                THEN saldo + (RestVon(ruhend, "kauf") - RestVon(ruhend', "kauf"))
                           - (RestVon(ruhend, "verkauf") - RestVon(ruhend', "verkauf"))
                ELSE saldo
    /\ ruhige' = IF lauf = "ruht" THEN IF buch' # buch THEN 0 ELSE ruhige
                 ELSE IF lauf = "aktualisieren" /\ lauf' = "ruht" THEN Min({ruhige + 1, 2})
                 ELSE ruhige
MCSpec == MCInit /\ [][MCNext]_<<vars, saldo, ruhige>>

(* Of the order numbers only their order at one price matters, and whether *)
(* they rest; quote_bestand decides nothing.                               *)
Rang(r) == Cardinality({q \in ruhend : q.tick = r.tick /\ q.oid < r.oid})
MCSicht ==
    <<{<<r.seite, r.tick, r.menge, Rang(r), r.oid \in eigene>> : r \in ruhend},
      [i \in STUFEN |-> IF liegend[i] = KEIN THEN {KEIN}
                        ELSE {<<r.tick, Rang(r)>> : r \in OrderVon(i)}],
      ist_kauf, basis_bestand, seit, lauf, dran, grenze, saldo, ruhige>>

(* The inventory of tokens is what the ladder started with and what its    *)
(* orders have bought and sold in the book: no execution goes unbooked, is *)
(* booked twice or on the wrong side.                                      *)
BestandStimmt == basis_bestand = (N_ORDERS - N_GESAET) * ORDER_GROESSE + saldo

(* A level the book refused (NurLegen) is not lost: after two undisturbed  *)
(* refreshes without strangers' orders in the book no level is missing.    *)
ZweiterTaktHeilt ==
    lauf = "ruht" /\ ruhige = 2 /\ Fremde = {} => \A i \in STUFEN : liegend[i] # KEIN
=============================================================================
