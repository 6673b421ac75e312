---------------------------- MODULE MCNachweis ----------------------------
(***************************************************************************)
(* Model checking Nachweis, and the properties that compare a request with *)
(* those that went before it.                                              *)
(***************************************************************************)
EXTENDS Nachweis, TLC

(* History: the requests that have gone through since the last failure of  *)
(* their file or its process; and for a request of the service those of    *)
(* them that had gone through when it was made, as long as no failure      *)
(* comes before the end of its checks.                                     *)
VARIABLES ungestoert, vorher

CONSTANTS s1, s2, s3
MCBestand == s1 :> 3 @@ s2 :> 3
MCFaelschungen == {e \in ZEILEN("register") : e.hashHex.serial = s1}
MCSymmetrie == Permutations(ANFRAGEN) \cup Permutations(SUBJEKTE)

Gestoert(d) == stoerungen'[d] # stoerungen[d]

MCInit == Init /\ ungestoert = {} /\ vorher = [a \in ANFRAGEN |-> {}]
MCNext ==
    /\ Next
    /\ ungestoert' = {a \in ungestoert : ~Gestoert(eingabe[a].weg)}
                       \cup {a \in ANFRAGEN : phase[a] # "fertig" /\ phase'[a] = "fertig"}
    /\ vorher' = [a \in ANFRAGEN |->
                     IF phase[a] = "neu" /\ phase'[a] # "neu" /\ eingabe'[a].weg = "ledger"
                     THEN {b \in ungestoert : eingabe[b].weg = "ledger"}
                     ELSE IF phase[a] \in {"fragt", "beantwortet"} /\ Gestoert("ledger") THEN {}
                     ELSE vorher[a]]
MCSpec == MCInit /\ [][MCNext]_<<vars, ungestoert, vorher>>

(* What a request asked for decides nothing any more once it has come to   *)
(* an end without a transaction; nor does how a request ended that has     *)
(* sent one, a claimed amount there is no number to compare with, nor an   *)
(* answer that is not "registered".                                        *)
MCSicht ==
    LET gesendet == unterwegs \cup DOMAIN kette
        ende  == {a \in ANFRAGEN : phase[a] \in {"abgelehnt", "unbestaetigt", "abgebrochen", "verloren"}}
        ohne(f) == [a \in ANFRAGEN |-> IF a \in ende \ gesendet THEN KEIN ELSE f[a]]
        ein(e) == [weg |-> e.weg, serial |-> e.serial, subject |-> e.subject,
                   tonnen |-> IF e.serial \in LESBAR THEN e.tonnen ELSE KEIN]
    IN  <<[a \in ANFRAGEN |-> IF a \in ende THEN "verloren" ELSE phase[a]],
          ohne([a \in ANFRAGEN |-> IF phase[a] = "neu" THEN KEIN ELSE ein(eingabe[a])]), ohne(satz), ohne(vorher), ungestoert, stillgelegt, unterwegs, kette, datei,
          schreibt, stoerungen,
          IF besuch.phase = "beantwortet" /\ besuch.status # "registriert" THEN KEIN ELSE besuch>>

(* A request that has gone through leaves its serial in the ledger or its  *)
(* hash in the register, whoever else wrote, and also if rows were lost in *)
(* a failure before it: only a later failure can take them away (commit    *)
(* and add load, push and save without a step of their process between).   *)
FertigIstEingetragen ==
    \A a \in ungestoert : schreibt[eingabe[a].weg] = KEIN =>
        IF eingabe[a].weg = "ledger" THEN \E e \in Inhalt("ledger") : e.serial = satz[a].serial
        ELSE \E e \in Inhalt("register") : e.hashHex = Hash(a)

(* One serial, one proof - of requests of the service made one after the   *)
(* other: once one is through, a later one for its serial never reaches    *)
(* the chain, unless the ledger fails in between.  Only overlapping        *)
(* requests, lost confirmations and failures get past the ledger of        *)
(* verify.ts.                                                              *)
NacheinanderNurEinmal ==
    \A a \in DOMAIN kette : \A b \in vorher[a] : kette[a].serial # satz[b].serial
=============================================================================
