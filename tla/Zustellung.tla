----------------------------- MODULE Zustellung -----------------------------
(***************************************************************************)
(* What the order pipeline of engine/src/netz.rs promises: of every        *)
(* connection the matcher processes the signed messages in the order they  *)
(* were sent, each once; and the pipeline is over only when the messages   *)
(* of all connections that did not break have been processed.              *)
(***************************************************************************)
EXTENDS Integers, Sequences

CONSTANTS VERBINDUNGEN, EINHEITEN

VARIABLES verarbeitet, gerissen, beendet

Gesendet == [u \in 1 .. EINHEITEN |-> u - 1]

Init ==
    /\ verarbeitet = [k \in VERBINDUNGEN |-> <<>>]
    /\ gerissen = {}
    /\ beendet = FALSE

(* Some more messages of one connection are processed.                     *)
Verarbeiten(k) ==
    /\ ~beendet
    /\ \E n \in Len(verarbeitet[k]) + 1 .. EINHEITEN :
          verarbeitet' = [verarbeitet EXCEPT ![k] = SubSeq(Gesendet, 1, n)]
    /\ UNCHANGED <<gerissen, beendet>>

Abreissen(k) ==
    /\ gerissen' = gerissen \cup {k}
    /\ UNCHANGED <<verarbeitet, beendet>>

Beenden ==
    /\ ~beendet
    /\ beendet' = TRUE
    /\ \A k \in VERBINDUNGEN \ gerissen : verarbeitet[k] = Gesendet
    /\ UNCHANGED <<verarbeitet, gerissen>>

Next ==
    \/ \E k \in VERBINDUNGEN : Verarbeiten(k) \/ Abreissen(k)
    \/ Beenden

Spec == Init /\ [][Next]_<<verarbeitet, gerissen, beendet>>
=============================================================================
