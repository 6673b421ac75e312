------------------------------- MODULE Kette -------------------------------
(***************************************************************************)
(* The order pipeline of engine/src/netz.rs (kette, kette_buendel): one    *)
(* client thread and one checker thread per TCP connection, a channel, one *)
(* matcher, and the main thread that starts and joins them.                *)
(*                                                                         *)
(* A unit of the protocol is one signed message (kette) or one signed      *)
(* bundle (kette_buendel) of EINHEIT bytes.  A byte is its position in the *)
(* stream of its connection, so unit u is the bytes u * EINHEIT ..         *)
(* u * EINHEIT + EINHEIT - 1; the orders of a unit are processed together  *)
(* and stand for its number.  The bytes of the buffer past `belegt` are    *)
(* never used, and left out: puffer[k] has the length belegt.              *)
(***************************************************************************)
EXTENDS Integers, Sequences, FiniteSets

CONSTANTS
    VERBINDUNGEN,   \* pruefer of them
    EINHEIT,        \* NACHRICHT, or laenge
    STAPEL,         \* units the buffer of a checker holds: 512, or 64
    IM_PUFFER,      \* units the buffer of a client holds
    AUFTRAEGE,      \* units to send in all: orders, or buendel_anzahl
    FENSTER,        \* bytes the network holds of one connection
    REISSBAR,       \* bound: the connections that may break
    HAUPT           \* the main thread, as an owner of a sender

ASSUME GroessenAnnahme ==
    /\ EINHEIT \in Nat \ {0} /\ STAPEL \in Nat \ {0} /\ FENSTER \in Nat \ {0}
    /\ IM_PUFFER \in Nat \ {0} /\ AUFTRAEGE \in Nat
ASSUME VerbindungsAnnahme ==
    IsFiniteSet(VERBINDUNGEN) /\ VERBINDUNGEN # {} /\ HAUPT \notin VERBINDUNGEN

VARIABLES
    mit_signatur,           \* the argument: are signatures checked?
    haupt, klient, pruefer, matcher,    \* where the threads are
    geschrieben, gelesen,   \* bytes written by the client, taken by the checker
    gerissen,               \* the connections that broke
    puffer,                 \* the occupied part of a checker's buffer
    sender, kanal,          \* the owners of a sender, the batches under way
    verarbeitet             \* per connection: what the matcher has processed

netz == <<geschrieben, gelesen, gerissen>>
vars == <<mit_signatur, haupt, klient, pruefer, matcher, netz, puffer, sender, kanal, verarbeitet>>

MUELL == -1     \* what bytes that are no unit decode to

(* Every client sends its buffer a whole number of times, at least once.   *)
Runden ==
    LET r == (AUFTRAEGE \div Cardinality(VERBINDUNGEN)) \div IM_PUFFER
    IN  IF r = 0 THEN 1 ELSE r
EINHEITEN == Runden * IM_PUFFER
LAENGE == EINHEITEN * EINHEIT

Init ==
    /\ mit_signatur \in BOOLEAN
    /\ haupt = "starten"
    /\ klient = [k \in VERBINDUNGEN |-> "neu"]
    /\ pruefer = [k \in VERBINDUNGEN |-> "neu"]
    /\ matcher = "laeuft"
    /\ geschrieben = [k \in VERBINDUNGEN |-> 0]
    /\ gelesen = [k \in VERBINDUNGEN |-> 0]
    /\ gerissen = {}
    /\ puffer = [k \in VERBINDUNGEN |-> <<>>]
    /\ sender = {HAUPT}
    /\ kanal = <<>>
    /\ verarbeitet = [k \in VERBINDUNGEN |-> <<>>]
-----------------------------------------------------------------------------
(* The main thread starts the clients first: accept() would wait for them. *)
KlientStarten(k) ==
    /\ haupt = "starten"
    /\ klient[k] = "neu"
    /\ klient' = [klient EXCEPT ![k] = "verbindet"]
    /\ haupt' = IF \A j \in VERBINDUNGEN \ {k} : klient[j] # "neu" THEN "annehmen" ELSE haupt
    /\ UNCHANGED <<mit_signatur, pruefer, matcher, netz, puffer, sender, kanal, verarbeitet>>

(* accept() returns one of the waiting connections; its checker starts.    *)
Annehmen(k) ==
    /\ haupt = "annehmen"
    /\ klient[k] \in {"schreibt", "fertig"} /\ pruefer[k] = "neu"
    /\ pruefer' = [pruefer EXCEPT ![k] = "liest"]
    /\ sender' = sender \cup {k}
    /\ haupt' = IF \A j \in VERBINDUNGEN \ {k} : pruefer[j] # "neu" THEN "loslassen" ELSE haupt
    /\ UNCHANGED <<mit_signatur, klient, matcher, netz, puffer, kanal, verarbeitet>>

(* Mutant: the main thread keeps its own sender.                           *)
OhneHauptBehalten == sender

OhneHaupt == sender \ {HAUPT}

(* drop(sender).                                                           *)
Loslassen ==
    /\ haupt = "loslassen"
    /\ sender' = OhneHaupt
    /\ haupt' = "klienten"
    /\ UNCHANGED <<mit_signatur, klient, pruefer, matcher, netz, puffer, kanal, verarbeitet>>

(* The joins, in this order.                                               *)
Warten ==
    /\ \/ haupt = "klienten" /\ (\A k \in VERBINDUNGEN : klient[k] = "fertig") /\ haupt' = "pruefer"
       \/ haupt = "pruefer"
            /\ (\A k \in VERBINDUNGEN : pruefer[k] \in {"fertig", "abgebrochen"})
            /\ haupt' = "matcher"
       \/ haupt = "matcher" /\ matcher = "fertig" /\ haupt' = "fertig"
    /\ UNCHANGED <<mit_signatur, klient, pruefer, matcher, netz, puffer, sender, kanal, verarbeitet>>
-----------------------------------------------------------------------------
(* A client.  The connection waits in the backlog until it is accepted.    *)
Verbinden(k) ==
    /\ klient[k] = "verbindet"
    /\ klient' = [klient EXCEPT ![k] = "schreibt"]
    /\ UNCHANGED <<mit_signatur, haupt, pruefer, matcher, netz, puffer, sender, kanal, verarbeitet>>

Unterwegs(k) == geschrieben[k] - gelesen[k]

(* The other end is gone: writing fails.                                   *)
GegenseiteWeg(k) == k \in gerissen \/ pruefer[k] \in {"fertig", "abgebrochen"}

(* write_all hands over some more bytes, as far as the network takes them. *)
Schreiben(k) ==
    /\ klient[k] = "schreibt"
    /\ ~GegenseiteWeg(k)
    /\ \E n \in 1 .. FENSTER - Unterwegs(k) :
          /\ geschrieben[k] + n <= LAENGE
          /\ geschrieben' = [geschrieben EXCEPT ![k] = @ + n]
    /\ UNCHANGED <<mit_signatur, haupt, klient, pruefer, matcher, gelesen, gerissen, puffer, sender,
                   kanal, verarbeitet>>

(* Everything is written, or writing failed: shutdown(Write).              *)
Schliessen(k) ==
    /\ klient[k] = "schreibt"
    /\ geschrieben[k] = LAENGE \/ GegenseiteWeg(k)
    /\ klient' = [klient EXCEPT ![k] = "fertig"]
    /\ UNCHANGED <<mit_signatur, haupt, pruefer, matcher, netz, puffer, sender, kanal, verarbeitet>>

(* The connection breaks; what is under way is lost.                       *)
Abreissen(k) ==
    /\ k \in REISSBAR
    /\ klient[k] \in {"schreibt", "fertig"}
    /\ gerissen' = gerissen \cup {k}
    /\ UNCHANGED <<mit_signatur, haupt, klient, pruefer, matcher, geschrieben, gelesen, puffer, sender,
                   kanal, verarbeitet>>
-----------------------------------------------------------------------------
(* A checker.  Mutant: the length of the slice forgets what is occupied.   *)
PlatzGanz(k) == STAPEL * EINHEIT

(* The slice puffer[belegt..] that read() fills.                           *)
Platz(k) == STAPEL * EINHEIT - Len(puffer[k])

Ganze(p) == Len(p) \div EINHEIT

(* read() has bytes to give.                                               *)
Lesen(k) ==
    /\ pruefer[k] = "liest" /\ k \notin gerissen
    /\ \E n \in 1 .. Platz(k) :
          /\ n <= Unterwegs(k)
          /\ gelesen' = [gelesen EXCEPT ![k] = @ + n]
          /\ LET p == puffer[k] \o [i \in 1 .. n |-> gelesen[k] + i - 1]
             IN  /\ puffer' = [puffer EXCEPT ![k] = p]
                 /\ pruefer' = [pruefer EXCEPT ![k] = IF Ganze(p) = 0 THEN "liest" ELSE "prueft"]
    /\ UNCHANGED <<mit_signatur, haupt, klient, matcher, geschrieben, gerissen, sender, kanal, verarbeitet>>

(* read() answers 0: at the end of the stream, and for an empty slice; or  *)
(* it fails.  The checker ends and drops its sender.                       *)
LesenEndet(k) ==
    /\ pruefer[k] = "liest"
    /\ \/ Platz(k) = 0
       \/ klient[k] = "fertig" /\ Unterwegs(k) = 0
       \/ k \in gerissen
    /\ pruefer' = [pruefer EXCEPT ![k] = "fertig"]
    /\ sender' = sender \ {k}
    /\ UNCHANGED <<mit_signatur, haupt, klient, matcher, netz, puffer, kanal, verarbeitet>>

(* Unit i of a buffer, and what it decodes to.                             *)
Anfang(p, i) == p[(i - 1) * EINHEIT + 1]
Gueltig(p, i) ==
    /\ Anfang(p, i) % EINHEIT = 0
    /\ \A j \in 1 .. EINHEIT : p[(i - 1) * EINHEIT + j] = Anfang(p, i) + j - 1
Inhalt(p, i) == IF Gueltig(p, i) THEN Anfang(p, i) \div EINHEIT ELSE MUELL

(* Mutants: the rest is dropped; it stays where it is.                     *)
RestVerworfen(p) == <<>>
RestLiegengelassen(p) == p

(* copy_within: the incomplete unit at the end moves to the front.         *)
Rest(p) == SubSeq(p, Ganze(p) * EINHEIT + 1, Len(p))

(* The units are checked, decoded and sent as one batch.  A unit whose     *)
(* signature does not hold makes the thread panic; a channel without a     *)
(* receiver ends it.                                                       *)
Senden(k) ==
    LET p == puffer[k]
        ungueltig == mit_signatur /\ \E i \in 1 .. Ganze(p) : ~Gueltig(p, i)
    IN  /\ pruefer[k] = "prueft"
        /\ IF ungueltig \/ matcher = "fertig"
           THEN /\ pruefer' = [pruefer EXCEPT ![k] = IF ungueltig THEN "abgebrochen" ELSE "fertig"]
                /\ sender' = sender \ {k}
                /\ UNCHANGED <<puffer, kanal>>
           ELSE /\ kanal' = Append(kanal, [von |-> k, stapel |-> [i \in 1 .. Ganze(p) |-> Inhalt(p, i)]])
                /\ puffer' = [puffer EXCEPT ![k] = Rest(p)]
                /\ pruefer' = [pruefer EXCEPT ![k] = "liest"]
                /\ UNCHANGED sender
        /\ UNCHANGED <<mit_signatur, haupt, klient, matcher, netz, verarbeitet>>
-----------------------------------------------------------------------------
(* The matcher takes a batch and puts its orders into the book.            *)
Verarbeiten ==
    /\ matcher = "laeuft"
    /\ kanal # <<>>
    /\ kanal' = Tail(kanal)
    /\ LET s == Head(kanal)
       IN  verarbeitet' = [verarbeitet EXCEPT ![s.von] = @ \o s.stapel]
    /\ UNCHANGED <<mit_signatur, haupt, klient, pruefer, matcher, netz, puffer, sender>>

(* The channel is empty and nobody can send any more.                      *)
MatcherEndet ==
    /\ matcher = "laeuft"
    /\ kanal = <<>> /\ sender = {}
    /\ matcher' = "fertig"
    /\ UNCHANGED <<mit_signatur, haupt, klient, pruefer, netz, puffer, sender, kanal, verarbeitet>>

HauptSchritt == (\E k \in VERBINDUNGEN : KlientStarten(k) \/ Annehmen(k)) \/ Loslassen \/ Warten
KlientSchritt(k) == Verbinden(k) \/ Schreiben(k) \/ Schliessen(k)
PrueferSchritt(k) == Lesen(k) \/ LesenEndet(k) \/ Senden(k)
MatcherSchritt == Verarbeiten \/ MatcherEndet

Next ==
    \/ HauptSchritt
    \/ \E k \in VERBINDUNGEN : KlientSchritt(k) \/ PrueferSchritt(k) \/ Abreissen(k)
    \/ MatcherSchritt

Spec == Init /\ [][Next]_vars

(* The operating system runs every thread that can go on; a broken         *)
(* connection is never owed.                                               *)
Fairness ==
    /\ WF_vars(HauptSchritt)
    /\ WF_vars(MatcherSchritt)
    /\ \A k \in VERBINDUNGEN : WF_vars(KlientSchritt(k)) /\ WF_vars(PrueferSchritt(k))

FaireSpec == Spec /\ Fairness
-----------------------------------------------------------------------------
TypeOK ==
    /\ mit_signatur \in BOOLEAN
    /\ haupt \in {"starten", "annehmen", "loslassen", "klienten", "pruefer", "matcher", "fertig"}
    /\ klient \in [VERBINDUNGEN -> {"neu", "verbindet", "schreibt", "fertig"}]
    /\ pruefer \in [VERBINDUNGEN -> {"neu", "liest", "prueft", "fertig", "abgebrochen"}]
    /\ matcher \in {"laeuft", "fertig"}
    /\ geschrieben \in [VERBINDUNGEN -> 0 .. LAENGE]
    /\ gelesen \in [VERBINDUNGEN -> 0 .. LAENGE]
    /\ gerissen \subseteq VERBINDUNGEN
    /\ puffer \in [VERBINDUNGEN -> Seq(Nat)]
    /\ \A k \in VERBINDUNGEN : Len(puffer[k]) <= STAPEL * EINHEIT
    /\ sender \subseteq VERBINDUNGEN \cup {HAUPT}
    /\ kanal \in Seq([von : VERBINDUNGEN, stapel : Seq(Int)])
    /\ verarbeitet \in [VERBINDUNGEN -> Seq(Int)]

(* However the network cuts the stream: when a checker reads, its buffer   *)
(* holds less than a unit, so read() is never given an empty slice (whose  *)
(* answer 0 would end the connection in the middle of the stream), and no  *)
(* checker takes bytes for a unit whose signature does not hold.           *)
RahmenHalten ==
    \A k \in VERBINDUNGEN :
        /\ pruefer[k] = "liest" => Len(puffer[k]) < EINHEIT
        /\ pruefer[k] # "abgebrochen"

Zugestellt == INSTANCE Zustellung WITH beendet <- haupt = "fertig"

(* The matcher processes of every connection what was sent, in that order  *)
(* and once, and the measurement is over only when that is complete for    *)
(* all connections that did not break.                                     *)
StelltZu == Zugestellt!Spec

(* Every thread ends and is joined, whatever breaks: the senders are all   *)
(* dropped, and nobody waits for a connection that never comes.            *)
KetteEndet == <>(haupt = "fertig")
=============================================================================
