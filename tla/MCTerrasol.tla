----------------------------- MODULE MCTerrasol -----------------------------
(***************************************************************************)
(* Model checking Terrasol, and the properties that add up amounts or look *)
(* back in time.                                                           *)
(***************************************************************************)
EXTENDS Terrasol, Functions, TLC

VARIABLE eingezahlt     \* history: when each user last added to his stake

(* Two threshold arrays in order, and one that falls.                      *)
MCSchwellen == {<<1, 1, 2, 3>>, <<0, 2, 2, 2>>, <<2, 1, 3, 3>>}
MCSymmetrie == Permutations(NUTZER)

(* The outcome of the last instruction decides nothing that comes after.   *)
MCSicht == <<konten, uhr>>

MCNullSchwellen == {<<0, 0, 0, 0>>}

MCInit == Init /\ eingezahlt = [u \in NUTZER |-> 0]
MCNext ==
    /\ Next
    /\ eingezahlt' = [u \in NUTZER |->
                        IF positionen'[u].amount > positionen[u].amount THEN uhr ELSE eingezahlt[u]]
MCSpec == MCInit /\ [][MCNext]_<<vars, eingezahlt>>

(* The total the config keeps is the sum of all positions.                 *)
EinlagenSumme ==
    config.total_staked = SumFunction([u \in NUTZER |-> positionen[u].amount])

(* What unstake() answers when it gets past the lock.                      *)
NACH_DER_FRIST == {"PrivilegeEscalation", "InsufficientFunds", "OwnerMismatch", "MathOverflow", OK}

(* README.md, Security: "unstake enforces a 7-day lock."  Whatever stake() *)
(* and unstake() have done before, a withdrawal is turned away as locked,  *)
(* and is not, by the time since the last payment into the position: one   *)
(* second early never gets past the lock, and on the second always.        *)
FristGenau ==
    \A u \in NUTZER, k \in KONTO, q \in BETRAEGE :
        LET f == UnstakeFehler(u, k, q)
        IN  /\ f = "StillLocked" => uhr < eingezahlt[u] + SPERRE
            /\ f \in NACH_DER_FRIST => uhr >= eingezahlt[u] + SPERRE
=============================================================================
